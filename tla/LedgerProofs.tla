---------------------------- MODULE LedgerProofs ----------------------------
(***************************************************************************)
(* The validator life cycle keeps its indexes, slashes stay within the     *)
(* limit, the supply is the sum of what is held, and no payment overdraws  *)
(* a pool, for all parameters that ValidatorParams.Check accepts, all      *)
(* validators, committees, genesis files and certificates.                 *)
(***************************************************************************)
EXTENDS Ledger, Sums, TLAPS

\* The inductive invariant.
StakingInv == StakingTypeOK /\ IndexConsistent /\ SlashWithinLimit

\* A record that is there is a record.
LEMMA RecordType ==
  ASSUME StakingTypeOK, NEW v \in Operators, validators[v] # Nil
  PROVE  validators[v] \in Validator
BY DEF StakingTypeOK

\* The double signs that replicas accept are of operators.
LEMMA EvidenceType ==
  ASSUME NEW c, NEW heights, NEW rootHeight, NEW qc \in Certificates(c, heights, rootHeight)
  PROVE  qc.doubleSigners \subseteq Operators \X Nat
<1>1. qc.doubleSigners \subseteq DoubleSigns(c, rootHeight)
  BY DEF Certificates
<1>2. DoubleSigns(c, rootHeight) \subseteq Equivocators \X EvidenceHeights
  BY DEF DoubleSigns
<1>3. Equivocators \subseteq Operators /\ EvidenceHeights \subseteq Nat
  BY InputAssumption
<1> QED
  BY <1>1, <1>2, <1>3

\* Steps that leave the validators, the keys and the slashes alone, and that do not end the
\* payment of rewards.
LEMMA Bystander ==
  ASSUME StakingInv, height' = height, phase' \in {"begin", "txs", "rewards", "unstake"},
         phase' = phase \/ phase' # "unstake",
         UNCHANGED <<validators, unstakingKeys, pausedKeys, slashTracker, pending>>
  PROVE  StakingInv'
BY DEF StakingInv, StakingTypeOK, IndexConsistent, Indexed, SlashWithinLimit

\* At genesis nobody is paused or unstaking.
LEMMA InitInv == Init => StakingInv
<1> SUFFICES ASSUME Init PROVE StakingInv
  OBVIOUS
<1>1. StakingTypeOK
  BY AddressAssumption, InputAssumption DEF Init, StakingTypeOK
<1>2. IndexConsistent
  BY InputAssumption DEF Init, IndexConsistent, Indexed
<1>3. SlashWithinLimit
  BY ParamsAssumption DEF Init, SlashWithinLimit
<1> QED
  BY <1>1, <1>2, <1>3 DEF StakingInv

\* A slash adds to the tracker what is left of the limit, or less.
LEMMA TrackerBounded ==
  ASSUME StakingInv, NEW v \in Operators, NEW c \in Chains, NEW percent \in Nat,
         validators[v] # Nil, ~Spared(v, c), TrackSlash(v, c, percent)
  PROVE  slashTracker' \in [Operators -> [Chains -> Nat]] /\ SlashWithinLimit'
<1>1. slashTracker[v][c] \in Nat /\ slashTracker \in [Operators -> [Chains -> Nat]]
  BY DEF StakingInv, StakingTypeOK
<1>2. Params.maxSlash \in Nat
  BY ParamsAssumption
<1>3. CASE CommitteeScoped
  <2>1. slashTracker[v][c] < Params.maxSlash
    BY <1>1, <1>2, <1>3 DEF Spared
  <2>2. /\ SlashPercent(v, c, percent) \in Nat
        /\ slashTracker[v][c] + SlashPercent(v, c, percent) <= Params.maxSlash
    BY <1>1, <1>2, <1>3, <2>1 DEF SlashPercent, AtLimit
  <2>3. slashTracker' = [slashTracker EXCEPT ![v][c] = @ + SlashPercent(v, c, percent)]
    BY <1>3 DEF TrackSlash
  <2>4. slashTracker' \in [Operators -> [Chains -> Nat]]
    BY <1>1, <2>2, <2>3
  <2>5. ASSUME NEW w \in Operators, NEW d \in Chains
        PROVE  slashTracker'[w][d] <= Params.maxSlash
    <3>1. slashTracker[w][d] <= Params.maxSlash
      BY <1>3 DEF StakingInv, SlashWithinLimit
    <3> QED
      BY <1>1, <2>2, <2>3, <3>1
  <2> QED
    BY <2>4, <2>5 DEF SlashWithinLimit
<1>4. CASE ~CommitteeScoped
  BY <1>1, <1>4 DEF TrackSlash, SlashWithinLimit
<1> QED
  BY <1>3, <1>4

\* A slash keeps the indexes: who falls below the minimum stake unstakes, is not paused any
\* more and gets its unstaking key; who is slashed away has no record.
LEMMA SlashKeepsInv ==
  ASSUME StakingInv, NEW v \in Operators, NEW percent \in Nat,
         SlashValidator(v, percent), height' = height, phase' = phase,
         pending' \in [chain : Chains, nonSign : SUBSET Operators,
                       doubleSign : SUBSET (Operators \X Nat)]
  PROVE  StakingInv'
<1> DEFINE c == pending.chain
           val == validators[v]
<1>1. StakingTypeOK /\ IndexConsistent /\ c \in Chains
  BY DEF StakingInv, StakingTypeOK
<1>2. CASE SlashAway(v, c, percent)
  <2>1. validators[v] # Nil
    BY <1>2 DEF SlashAway, Spared
  <2>2. slashTracker' \in [Operators -> [Chains -> Nat]] /\ SlashWithinLimit'
    BY <1>1, <1>2, <2>1, TrackerBounded DEF SlashAway
  <2>3. StakingTypeOK'
    BY <1>1, <1>2, <2>2 DEF SlashAway, StakingTypeOK
  <2>4. IndexConsistent'
    BY <1>1, <1>2 DEF SlashAway, StakingTypeOK, IndexConsistent, Indexed
  <2> QED
    BY <2>2, <2>3, <2>4 DEF StakingInv
<1>3. CASE SlashPart(v, c, percent)
  <2> DEFINE slashed == [val EXCEPT !.committees = CommitteesAfterSlash(v, c, percent)]
             finish == height + UnstakingBlocks(val)
  <2>1. validators[v] # Nil /\ ~Spared(v, c) /\ TrackSlash(v, c, percent)
    BY <1>3 DEF SlashPart, Spared
  <2>2. slashTracker' \in [Operators -> [Chains -> Nat]] /\ SlashWithinLimit'
    BY <1>1, <2>1, TrackerBounded
  <2>3. val \in Validator
    BY <1>1, <2>1, RecordType
  <2>4. /\ slashed \in Validator
        /\ slashed.maxPausedHeight = val.maxPausedHeight
        /\ slashed.unstakingHeight = val.unstakingHeight /\ slashed.delegate = val.delegate
    BY <2>3 DEF CommitteesAfterSlash, Validator
  <2>5. finish \in Nat /\ finish > height /\ finish # 0 /\ height \in Nat
    BY <1>1, <2>3, ParamsAssumption DEF StakingTypeOK, UnstakingBlocks, Validator
  <2>6. CASE /\ BelowMinimum(val, StakeAfterSlash(v, c, percent))
             /\ validators' = [validators EXCEPT ![v] = Unstaking(slashed, finish)]
             /\ unstakingKeys' = unstakingKeys \cup {<<finish, v>>}
             /\ pausedKeys' = IF val.maxPausedHeight # 0 THEN pausedKeys \ PausedKey(v) ELSE pausedKeys
    <3>1. /\ Unstaking(slashed, finish) \in Validator
          /\ Unstaking(slashed, finish).maxPausedHeight = 0
          /\ Unstaking(slashed, finish).unstakingHeight = finish
      BY <2>4, <2>5 DEF Unstaking, Validator
    <3>2. StakingTypeOK'
      BY <1>1, <2>2, <2>5, <2>6, <3>1 DEF StakingTypeOK
    <3>3. IndexConsistent'
      <4> SUFFICES ASSUME NEW w \in Operators, (validators[w] # Nil)' PROVE Indexed(w)'
        BY DEF IndexConsistent
      <4>1. CASE w = v
        BY <1>1, <2>5, <2>6, <3>1, <4>1 DEF StakingTypeOK, Indexed
      <4>2. CASE w # v
        <5>1. validators'[w] = validators[w] /\ Indexed(w)
          BY <1>1, <2>6, <4>2 DEF StakingTypeOK, IndexConsistent
        <5> QED
          BY <2>6, <4>2, <5>1 DEF Indexed, PausedKey
      <4> QED
        BY <4>1, <4>2
    <3> QED
      BY <2>2, <3>2, <3>3 DEF StakingInv
  <2>7. CASE /\ validators' = [validators EXCEPT ![v] = slashed]
             /\ UNCHANGED <<unstakingKeys, pausedKeys>>
    <3>1. StakingTypeOK'
      BY <1>1, <2>2, <2>4, <2>7 DEF StakingTypeOK
    <3>2. IndexConsistent'
      <4> SUFFICES ASSUME NEW w \in Operators, (validators[w] # Nil)' PROVE Indexed(w)'
        BY DEF IndexConsistent
      <4>1. validators[w] # Nil /\ Indexed(w)
        BY <1>1, <2>1, <2>7 DEF StakingTypeOK, IndexConsistent
      <4>2. /\ validators'[w].maxPausedHeight = validators[w].maxPausedHeight
            /\ validators'[w].unstakingHeight = validators[w].unstakingHeight
            /\ validators'[w].delegate = validators[w].delegate
        BY <1>1, <2>4, <2>7 DEF StakingTypeOK
      <4> QED
        BY <2>7, <4>1, <4>2 DEF Indexed
    <3> QED
      BY <2>2, <3>1, <3>2 DEF StakingInv
  <2> QED
    BY <1>3, <2>6, <2>7 DEF SlashPart
<1>4. CASE Spared(v, c) /\ UNCHANGED <<stakes, slashTracker>>
  BY <1>1, <1>4 DEF stakes, StakingInv, StakingTypeOK, IndexConsistent, Indexed, SlashWithinLimit
<1> QED
  BY <1>2, <1>3, <1>4 DEF SlashValidator

\* Certificate results pause the offenders they may pause, with their keys.
LEMMA CertificateKeepsInv ==
  ASSUME StakingInv, NEW c \in Chains, NEW qc, NEW power,
         qc.doubleSigners \subseteq Operators \X Nat,
         HandleCertificateResults(c, qc, power), height' = height, phase' = "txs"
  PROVE  StakingInv'
<1> DEFINE until == height + Params.maxPauseBlocks
<1>1. StakingTypeOK /\ IndexConsistent /\ SlashWithinLimit
  BY DEF StakingInv
<1>2. until \in Nat /\ until > height /\ until # 0 /\ height \in Nat
  BY <1>1, ParamsAssumption DEF StakingTypeOK
<1>3. Offenders(c) \subseteq Operators /\ AutoPaused(c) \subseteq Operators
  BY DEF Offenders, AutoPaused
<1>4. /\ validators' = [v \in Operators |->
           IF v \in AutoPaused(c) THEN [validators[v] EXCEPT !.maxPausedHeight = until] ELSE validators[v]]
      /\ pausedKeys' = pausedKeys \cup {<<until, v>> : v \in AutoPaused(c)}
      /\ pending' = [chain |-> c, nonSign |-> Offenders(c), doubleSign |-> qc.doubleSigners]
      /\ UNCHANGED <<unstakingKeys, slashTracker>>
  BY DEF HandleCertificateResults
<1>5. ASSUME NEW v \in AutoPaused(c)
      PROVE  /\ validators'[v] \in Validator /\ validators'[v].maxPausedHeight = until
             /\ validators'[v].unstakingHeight = 0 /\ ~validators'[v].delegate
  <2>1. v \in Operators /\ CanPause(v)
    BY <1>3 DEF AutoPaused
  <2>2. validators[v] \in Validator /\ validators[v].unstakingHeight = 0 /\ ~validators[v].delegate
    BY <1>1, <2>1, RecordType DEF CanPause
  <2>3. validators'[v] = [validators[v] EXCEPT !.maxPausedHeight = until]
    BY <1>4, <2>1
  <2> QED
    BY <1>2, <2>2, <2>3 DEF Validator
<1>6. StakingTypeOK'
  <2>1. validators' \in [Operators -> Validator \cup {Nil}]
    <3>1. \A v \in Operators : validators'[v] \in Validator \cup {Nil}
      BY <1>1, <1>4, <1>5 DEF StakingTypeOK
    <3> QED
      BY <1>4, <3>1
  <2>2. pausedKeys' \subseteq Nat \X Operators
    BY <1>1, <1>2, <1>3, <1>4 DEF StakingTypeOK
  <2> QED
    BY <1>1, <1>3, <1>4, <2>1, <2>2 DEF StakingTypeOK
<1>7. IndexConsistent'
  <2> SUFFICES ASSUME NEW v \in Operators, (validators[v] # Nil)' PROVE Indexed(v)'
    BY DEF IndexConsistent
  <2>0. /\ unstakingKeys' = unstakingKeys /\ pausedKeys \subseteq pausedKeys'
        /\ v \in AutoPaused(c) => <<until, v>> \in pausedKeys'
    BY <1>4
  <2>1. CASE v \in AutoPaused(c)
    <3>1. /\ validators'[v].maxPausedHeight = until /\ validators'[v].unstakingHeight = 0
          /\ ~validators'[v].delegate
      BY <1>5, <2>1
    <3> QED
      BY <1>2, <2>0, <2>1, <3>1 DEF Indexed
  <2>2. CASE v \notin AutoPaused(c)
    <3>1. validators'[v] = validators[v] /\ Indexed(v)
      BY <1>1, <1>4, <2>2 DEF IndexConsistent
    <3> QED
      BY <2>0, <3>1 DEF Indexed
  <2> QED
    BY <2>1, <2>2
<1>8. SlashWithinLimit'
  BY <1>1, <1>4 DEF SlashWithinLimit
<1> QED
  BY <1>6, <1>7, <1>8 DEF StakingInv

\* A step in the middle of a block that changes the record of one validator keeps the
\* invariant when the new record has its keys and the others keep theirs.
LEMMA OneRecord ==
  ASSUME StakingInv, NEW v \in Operators, NEW val,
         val \in Validator \cup {Nil},
         height' = height, phase' = phase, UNCHANGED <<slashTracker, pending>>,
         validators' = [validators EXCEPT ![v] = val],
         unstakingKeys' \subseteq Nat \X Operators, pausedKeys' \subseteq Nat \X Operators,
         \A w \in Operators \ {v}, h \in Nat :
           /\ <<h, w>> \in unstakingKeys => <<h, w>> \in unstakingKeys'
           /\ <<h, w>> \in pausedKeys => <<h, w>> \in pausedKeys',
         val # Nil => Indexed(v)'
  PROVE  StakingInv'
<1>1. StakingTypeOK /\ IndexConsistent /\ SlashWithinLimit
  BY DEF StakingInv
<1>2. StakingTypeOK'
  BY <1>1 DEF StakingTypeOK
<1>3. ASSUME NEW w \in Operators, (validators[w] # Nil)'
      PROVE  Indexed(w)'
  <2>1. CASE w = v
    BY <1>1, <1>3, <2>1 DEF StakingTypeOK
  <2>2. CASE w # v
    <3>1. validators'[w] = validators[w] /\ validators[w] \in Validator /\ Indexed(w)
      BY <1>1, <1>3, <2>2, RecordType DEF StakingTypeOK, IndexConsistent
    <3>2. validators[w].unstakingHeight \in Nat /\ validators[w].maxPausedHeight \in Nat
      BY <3>1 DEF Validator
    <3> QED
      BY <2>2, <3>1, <3>2 DEF Indexed
  <2> QED
    BY <2>1, <2>2
<1> QED
  BY <1>1, <1>2, <1>3 DEF StakingInv, IndexConsistent, SlashWithinLimit

\* The record and the keys of a validator that starts to unstake at its own height.
LEMMA UnstakeKeepsInv ==
  ASSUME StakingInv, NEW v \in Operators, NEW signer, Unstake(v, signer)
  PROVE  StakingInv'
<1> DEFINE finish == height + UnstakingBlocks(validators[v])
           after == Unstaking(validators[v], finish)
<1>1. StakingTypeOK /\ validators[v] \in Validator
  BY RecordType DEF StakingInv, Unstake
<1>2. finish \in Nat /\ finish > height /\ height \in Nat /\ finish # 0
  BY <1>1, ParamsAssumption DEF StakingTypeOK, UnstakingBlocks, Validator
<1>3. after \in Validator /\ after.unstakingHeight = finish /\ after.maxPausedHeight = 0
  BY <1>1, <1>2 DEF Unstaking, Validator
<1>4. /\ validators' = [validators EXCEPT ![v] = after]
      /\ unstakingKeys' = unstakingKeys \cup {<<finish, v>>}
      /\ pausedKeys' \in {pausedKeys, pausedKeys \ PausedKey(v)}
      /\ height' = height /\ phase' = phase /\ UNCHANGED <<slashTracker, pending>>
  BY DEF Unstake, byzantine, chain
<1>5. validators'[v] = after /\ Indexed(v)'
  BY <1>1, <1>2, <1>3, <1>4 DEF StakingTypeOK, Indexed
<1>6. unstakingKeys' \subseteq Nat \X Operators /\ pausedKeys' \subseteq Nat \X Operators
  BY <1>1, <1>2, <1>4 DEF StakingTypeOK
<1>7. \A w \in Operators \ {v}, h \in Nat :
         /\ <<h, w>> \in unstakingKeys => <<h, w>> \in unstakingKeys'
         /\ <<h, w>> \in pausedKeys => <<h, w>> \in pausedKeys'
  BY <1>4 DEF PausedKey
<1> QED
  BY <1>3, <1>4, <1>5, <1>6, <1>7, OneRecord

\* A new validator is neither paused nor unstaking.
LEMMA StakeKeepsInv ==
  ASSUME StakingInv, NEW v \in Operators, NEW signer, NEW amount, NEW cs \in CommitteeLists,
         NEW output \in Outputs, NEW delegate \in Delegations, NEW compound \in Compounding,
         Stake(v, signer, amount, cs, output, delegate, compound)
  PROVE  StakingInv'
<1> DEFINE after == [committees |-> cs, output |-> output, delegate |-> delegate,
                     compound |-> compound, maxPausedHeight |-> 0, unstakingHeight |-> 0]
<1>1. after \in Validator
  BY InputAssumption DEF Validator
<1>2. /\ validators' = [validators EXCEPT ![v] = after]
      /\ height' = height /\ phase' = phase
      /\ UNCHANGED <<unstakingKeys, pausedKeys, slashTracker, pending>>
  BY DEF Stake, byzantine, chain
<1>3. validators'[v] = after /\ unstakingKeys \subseteq Nat \X Operators
      /\ pausedKeys \subseteq Nat \X Operators
  BY <1>2 DEF StakingInv, StakingTypeOK
<1>4. Indexed(v)'
  BY <1>3 DEF Indexed
<1> QED
  BY <1>1, <1>2, <1>3, <1>4, OneRecord

\* An edit changes neither the heights of the record nor whether it delegates.
LEMMA EditStakeKeepsInv ==
  ASSUME StakingInv, NEW v \in Operators, NEW signer, NEW amount, NEW cs \in CommitteeLists,
         NEW output \in Outputs, NEW compound \in Compounding,
         EditStake(v, signer, amount, cs, output, compound)
  PROVE  StakingInv'
<1> DEFINE after == [validators[v] EXCEPT !.committees = cs, !.output = output, !.compound = compound]
<1>1. validators[v] # Nil /\ validators[v] \in Validator /\ Indexed(v)
  BY RecordType DEF EditStake, StakingInv, IndexConsistent
<1>2. /\ after \in Validator /\ after.delegate = validators[v].delegate
      /\ after.maxPausedHeight = validators[v].maxPausedHeight
      /\ after.unstakingHeight = validators[v].unstakingHeight
  BY <1>1, InputAssumption DEF Validator
<1>3. /\ validators' = [validators EXCEPT ![v] = after]
      /\ height' = height /\ phase' = phase
      /\ UNCHANGED <<unstakingKeys, pausedKeys, slashTracker, pending>>
  BY DEF EditStake, byzantine, chain
<1>4. validators'[v] = after /\ unstakingKeys \subseteq Nat \X Operators
      /\ pausedKeys \subseteq Nat \X Operators
  BY <1>3 DEF StakingInv, StakingTypeOK
<1>5. Indexed(v)'
  BY <1>1, <1>2, <1>3, <1>4 DEF Indexed
<1> QED
  BY <1>2, <1>3, <1>4, <1>5, OneRecord

\* A pause writes the key of the height it writes into the record.
LEMMA PauseKeepsInv ==
  ASSUME StakingInv, NEW v \in Operators, NEW signer, Pause(v, signer)
  PROVE  StakingInv'
<1> DEFINE until == height + Params.maxPauseBlocks
           after == [validators[v] EXCEPT !.maxPausedHeight = until]
<1>1. /\ StakingTypeOK /\ validators[v] \in Validator /\ phase = "txs"
      /\ validators[v].unstakingHeight = 0 /\ ~validators[v].delegate
  BY RecordType DEF Pause, Deliver, CanPause, StakingInv
<1>2. until \in Nat /\ until > height /\ height \in Nat
  BY <1>1, ParamsAssumption DEF StakingTypeOK
<1>3. /\ after \in Validator /\ after.maxPausedHeight = until /\ after.unstakingHeight = 0
      /\ ~after.delegate
  BY <1>1, <1>2 DEF Validator
<1>4. /\ validators' = [validators EXCEPT ![v] = after]
      /\ height' = height /\ phase' = phase
      /\ pausedKeys' = pausedKeys \cup {<<until, v>>}
      /\ UNCHANGED <<unstakingKeys, slashTracker, pending>>
  BY DEF Pause, byzantine, chain
<1>5. validators'[v] = after /\ unstakingKeys \subseteq Nat \X Operators
      /\ pausedKeys' \subseteq Nat \X Operators
  BY <1>1, <1>2, <1>4 DEF StakingTypeOK
<1>6. <<until, v>> \in pausedKeys' /\ phase' = "txs" /\ height' = height
  BY <1>1, <1>4
<1>7. Indexed(v)'
  BY <1>2, <1>3, <1>5, <1>6 DEF Indexed
<1>8. \A w \in Operators \ {v}, h \in Nat : <<h, w>> \in pausedKeys => <<h, w>> \in pausedKeys'
  BY <1>4
<1> QED
  BY <1>3, <1>4, <1>5, <1>7, <1>8, OneRecord

\* An unpause takes away the key of the height in the record.
LEMMA UnpauseKeepsInv ==
  ASSUME StakingInv, NEW v \in Operators, NEW signer, Unpause(v, signer)
  PROVE  StakingInv'
<1> DEFINE after == [validators[v] EXCEPT !.maxPausedHeight = 0]
<1>1. StakingTypeOK /\ validators[v] \in Validator /\ validators[v].unstakingHeight = 0
  BY RecordType DEF Unpause, StakingInv
<1>2. after \in Validator /\ after.maxPausedHeight = 0 /\ after.unstakingHeight = 0
  BY <1>1 DEF Validator
<1>3. /\ validators' = [validators EXCEPT ![v] = after]
      /\ height' = height /\ phase' = phase
      /\ pausedKeys' = pausedKeys \ PausedKey(v)
      /\ UNCHANGED <<unstakingKeys, slashTracker, pending>>
  BY DEF Unpause, byzantine, chain
<1>4. validators'[v] = after /\ unstakingKeys \subseteq Nat \X Operators
      /\ pausedKeys' \subseteq Nat \X Operators
  BY <1>1, <1>3 DEF StakingTypeOK
<1>5. Indexed(v)'
  BY <1>2, <1>4 DEF Indexed
<1>6. \A w \in Operators \ {v}, h \in Nat : <<h, w>> \in pausedKeys => <<h, w>> \in pausedKeys'
  BY <1>3 DEF PausedKey
<1> QED
  BY <1>2, <1>3, <1>4, <1>5, <1>6, OneRecord

\* A release takes away the record and the key of this height.
LEMMA ReleaseKeepsInv ==
  ASSUME StakingInv, NEW v \in Operators, DeleteFinishedUnstaking(v)
  PROVE  StakingInv'
<1>1. /\ validators' = [validators EXCEPT ![v] = Nil]
      /\ height' = height /\ phase' = phase
      /\ unstakingKeys' = unstakingKeys \ {<<height, v>>}
      /\ UNCHANGED <<pausedKeys, slashTracker, pending>>
  BY DEF DeleteFinishedUnstaking, byzantine, chain
<1>2. unstakingKeys' \subseteq Nat \X Operators /\ pausedKeys' \subseteq Nat \X Operators
  BY <1>1 DEF StakingInv, StakingTypeOK
<1>3. \A w \in Operators \ {v}, h \in Nat :
         /\ <<h, w>> \in unstakingKeys => <<h, w>> \in unstakingKeys'
         /\ <<h, w>> \in pausedKeys => <<h, w>> \in pausedKeys'
  BY <1>1
<1> QED
  BY <1>1, <1>2, <1>3, OneRecord

\* Whoever is still paused after the forced unstakes of a block has its key at a later height.
LEMMA ForceKeepsInv ==
  ASSUME StakingInv, ForceUnstakeMaxPaused
  PROVE  StakingInv'
<1> DEFINE finish == height + Params.unstakingBlocks
<1>1. StakingTypeOK /\ IndexConsistent
  BY DEF StakingInv
<1>2. finish \in Nat /\ finish > height /\ finish # 0 /\ height \in Nat
  BY <1>1, ParamsAssumption DEF StakingTypeOK
<1>3. /\ phase' = "unstake" /\ height' = height /\ UNCHANGED <<slashTracker, pending>>
      /\ validators' = [v \in Operators |->
           IF v \in MaxPaused THEN Unstaking(validators[v], finish) ELSE validators[v]]
      /\ unstakingKeys' = unstakingKeys \cup {<<finish, v>> : v \in MaxPaused}
      /\ pausedKeys' = {k \in pausedKeys :
           k[1] # height /\ ~(k[2] \in MaxPaused /\ k[1] = validators[k[2]].maxPausedHeight)}
  BY DEF ForceUnstakeMaxPaused, byzantine
<1>4. MaxPaused \subseteq Operators
  BY DEF MaxPaused
<1>5. ASSUME NEW v \in MaxPaused
      PROVE  /\ validators'[v] \in Validator /\ validators'[v].unstakingHeight = finish
             /\ validators'[v].maxPausedHeight = 0
  <2>1. validators[v] \in Validator
    BY <1>1, RecordType DEF MaxPaused
  <2>2. validators'[v] = Unstaking(validators[v], finish)
    BY <1>3, <1>4
  <2>3. /\ Unstaking(validators[v], finish) \in Validator
        /\ Unstaking(validators[v], finish).unstakingHeight = finish
        /\ Unstaking(validators[v], finish).maxPausedHeight = 0
    BY <1>2, <2>1 DEF Unstaking, Validator
  <2> QED
    BY <2>2, <2>3
<1>6. StakingTypeOK'
  <2>1. \A v \in Operators : validators'[v] \in Validator \cup {Nil}
    BY <1>1, <1>3, <1>5 DEF StakingTypeOK
  <2>2. validators' \in [Operators -> Validator \cup {Nil}]
    BY <1>3, <2>1
  <2>3. unstakingKeys' \subseteq Nat \X Operators /\ pausedKeys' \subseteq Nat \X Operators
    BY <1>1, <1>2, <1>3, <1>4 DEF StakingTypeOK
  <2> QED
    BY <1>1, <1>3, <2>2, <2>3 DEF StakingTypeOK
<1>7. ASSUME NEW v \in Operators, (validators[v] # Nil)'
      PROVE  Indexed(v)'
  <2>1. unstakingKeys \subseteq unstakingKeys' /\ (v \in MaxPaused => <<finish, v>> \in unstakingKeys')
    BY <1>3
  <2>2. CASE v \in MaxPaused
    <3>1. validators'[v].unstakingHeight = finish /\ validators'[v].maxPausedHeight = 0
      BY <1>5, <2>2
    <3> QED
      BY <1>2, <1>3, <2>1, <2>2, <3>1 DEF Indexed
  <2>3. CASE v \notin MaxPaused
    <3>1. validators'[v] = validators[v]
      BY <1>3, <2>3
    <3>2. validators[v] \in Validator /\ Indexed(v)
      BY <1>1, <1>7, <3>1, RecordType DEF IndexConsistent
    <3>3. ASSUME validators[v].maxPausedHeight # 0
          PROVE  /\ validators[v].maxPausedHeight > height
                 /\ <<validators[v].maxPausedHeight, v>> \in pausedKeys'
      <4>1. /\ validators[v].maxPausedHeight \in Nat /\ validators[v].maxPausedHeight >= height
            /\ <<validators[v].maxPausedHeight, v>> \in pausedKeys /\ validators[v].unstakingHeight = 0
        BY <3>2, <3>3 DEF Indexed, Validator
      <4>2. validators[v].maxPausedHeight # height
        BY <1>7, <2>3, <3>1, <4>1 DEF MaxPaused
      <4> QED
        BY <1>2, <1>3, <2>3, <4>1, <4>2
    <3>4. height' = height
      BY <1>3
    <3> QED
      BY <2>1, <3>1, <3>2, <3>3, <3>4 DEF Indexed
  <2> QED
    BY <2>2, <2>3
<1>8. SlashWithinLimit'
  BY <1>3 DEF StakingInv, SlashWithinLimit
<1> QED
  BY <1>6, <1>7, <1>8 DEF StakingInv, IndexConsistent

\* A block is committed when no unstaking key of its height is left.
LEMMA CommitKeepsInv ==
  ASSUME StakingInv, Commit
  PROVE  StakingInv'
<1>1. StakingTypeOK /\ IndexConsistent
  BY DEF StakingInv
<1>2. /\ phase = "unstake" /\ phase' = "begin" /\ height' = height + 1
      /\ \A v \in Operators : <<height, v>> \notin unstakingKeys
      /\ slashTracker' = [v \in Operators |-> [c \in Chains |-> 0]]
      /\ UNCHANGED <<validators, unstakingKeys, pausedKeys, pending>>
  BY DEF Commit, stakes
<1>3. StakingTypeOK'
  BY <1>1, <1>2 DEF StakingTypeOK
<1>4. ASSUME NEW v \in Operators, (validators[v] # Nil)'
      PROVE  Indexed(v)'
  <2>1. validators[v] \in Validator /\ Indexed(v) /\ height \in Nat
    BY <1>1, <1>2, <1>4, RecordType DEF IndexConsistent, StakingTypeOK
  <2>2. validators[v].unstakingHeight \in Nat /\ validators[v].maxPausedHeight \in Nat
    BY <2>1 DEF Validator
  <2> QED
    BY <1>2, <2>1, <2>2 DEF Indexed
<1>5. SlashWithinLimit'
  BY <1>2, ParamsAssumption DEF SlashWithinLimit
<1> QED
  BY <1>3, <1>4, <1>5 DEF StakingInv, IndexConsistent

\* Every step preserves the invariant.
LEMMA NextInv == StakingInv /\ [Next]_vars => StakingInv'
<1> SUFFICES ASSUME StakingInv, [Next]_vars PROVE StakingInv'
  OBVIOUS
<1>1. CASE BeginFirstBlock
  BY <1>1, Bystander DEF BeginFirstBlock, stakes, byzantine
<1>2. ASSUME NEW qc \in Certificates(Self, {height - 1}, height - 1), BeginBlock(qc)
      PROVE  StakingInv'
  BY <1>2, EvidenceType, CertificateKeepsInv, AddressAssumption DEF BeginBlock
<1>3. ASSUME NEW v \in Operators, SlashNonSigner(v)
      PROVE  StakingInv'
  <2>1. pending' \in [chain : Chains, nonSign : SUBSET Operators, doubleSign : SUBSET (Operators \X Nat)]
    BY <1>3 DEF SlashNonSigner, StakingInv, StakingTypeOK
  <2>2. SlashValidator(v, Params.nonSignSlash) /\ height' = height /\ phase' = phase
    BY <1>3 DEF SlashNonSigner, chain
  <2>3. Params.nonSignSlash \in Nat
    BY ParamsAssumption
  <2> QED
    BY <2>1, <2>2, <2>3, SlashKeepsInv
<1>4. ASSUME NEW e \in pending.doubleSign, SlashDoubleSigner(e)
      PROVE  StakingInv'
  <2>1. /\ pending' \in [chain : Chains, nonSign : SUBSET Operators, doubleSign : SUBSET (Operators \X Nat)]
        /\ e[1] \in Operators
    BY <1>4 DEF SlashDoubleSigner, StakingInv, StakingTypeOK
  <2>2. SlashValidator(e[1], Params.doubleSignSlash) /\ height' = height /\ phase' = phase
    BY <1>4 DEF SlashDoubleSigner, chain
  <2>3. Params.doubleSignSlash \in Nat
    BY ParamsAssumption
  <2> QED
    BY <2>1, <2>2, <2>3, SlashKeepsInv
<1>5. CASE Transaction
  <2>1. ASSUME NEW from, NEW to, NEW n, Send(from, to, n)
        PROVE  StakingInv'
    BY <2>1, Bystander DEF Send, byzantine, chain, StakingInv, StakingTypeOK
  <2>2. ASSUME NEW from, NEW c, NEW n, Subsidy(from, c, n)
        PROVE  StakingInv'
    BY <2>2, Bystander DEF Subsidy, stakes, byzantine, chain, StakingInv, StakingTypeOK
  <2>3. ASSUME NEW to, NEW n, NEW mint, DAOTransfer(to, n, mint)
        PROVE  StakingInv'
    BY <2>3, Bystander DEF DAOTransfer, byzantine, chain, StakingInv, StakingTypeOK
  <2>4. ASSUME NEW proposer, NEW c \in Chains, NEW rootHeight,
               NEW qc \in Certificates(c, 1 .. MaxChainHeight, rootHeight),
               CertificateResults(proposer, c, qc)
        PROVE  StakingInv'
    <3>1. /\ HandleCertificateResults(c, qc, committees[qc.rootHeight][c])
          /\ height' = height /\ phase' = "txs"
      BY <2>4 DEF CertificateResults, Deliver, chain
    <3> QED
      BY <3>1, EvidenceType, CertificateKeepsInv
  <2> QED
    BY <1>5, <2>1, <2>2, <2>3, <2>4, StakeKeepsInv, EditStakeKeepsInv, UnstakeKeepsInv,
       PauseKeepsInv, UnpauseKeepsInv DEF Transaction
<1>6. CASE EndBlock
  BY <1>6, Bystander DEF EndBlock, stakes, byzantine
<1>7. ASSUME NEW c, NEW a, DistributeCommitteeReward(c, a)
      PROVE  StakingInv'
  BY <1>7, Bystander DEF DistributeCommitteeReward, byzantine, chain, StakingInv, StakingTypeOK
<1>8. ASSUME NEW c, CloseRewardPool(c)
      PROVE  StakingInv'
  BY <1>8, Bystander DEF CloseRewardPool, byzantine, chain, StakingInv, StakingTypeOK
<1>9. CASE UNCHANGED vars
  BY <1>9, Bystander DEF vars, stakes, byzantine, chain, StakingInv, StakingTypeOK
<1> QED
  BY <1>1, <1>2, <1>3, <1>4, <1>5, <1>6, <1>7, <1>8, <1>9,
     ForceKeepsInv, ReleaseKeepsInv, CommitKeepsInv DEF Next, Slashing, Ending

\* The inductive invariant holds of every behaviour of the ledger.
THEOREM StakingInvHolds == Spec => []StakingInv
BY InitInv, NextInv, PTL DEF Spec

\* Every validator that unstakes or is paused has the key that ends it, at a height still to
\* come: SetValidatorUnstaking, SetValidatorPaused, SlashValidator, ForceUnstakeMaxPaused and
\* DeleteFinishedUnstaking keep records and height indexes together.
THEOREM IndexHolds == Spec => []IndexConsistent
BY StakingInvHolds, PTL DEF StakingInv

\* SlashValidator never takes more than MaxSlashPerCommittee percent of a validator for one
\* committee in one block.
THEOREM SlashLimitHolds == Spec => []SlashWithinLimit
BY StakingInvHolds, PTL DEF StakingInv

\* Type correctness of the validator records, their height indexes and the slash tracker.
THEOREM StakingTypeCorrect == Spec => []StakingTypeOK
BY StakingInvHolds, PTL DEF StakingInv

-----------------------------------------------------------------------------
(***************************************************************************)
(* Tokens.  The supply tracker agrees with what it counts, and nothing     *)
(* runs short.  Types first: those of the balances, and of the tracker     *)
(* with integers, from which the sums exclude the negative ones.           *)
(***************************************************************************)

Data == [rootHeight : Nat, chainHeight : Nat, samples : Nat, checkpoint : Nat,
         payments : [Addresses -> Nat], retired : BOOLEAN]

BalanceTypes ==
  /\ accounts \in [Addresses -> Nat] /\ pools \in [Pools -> Nat]
  /\ stakedAmount \in [Operators -> Nat]
  /\ nonSigners \in [Operators -> [counter : Nat, chains : [Chains -> Nat]]]
  /\ doubleSigners \subseteq Operators \X Nat
  /\ committeeData \in [Chains -> Data]
  /\ payouts \subseteq Chains \X Addresses /\ paid \in [Chains -> Nat]
  /\ CommitteesTyped

SupplyType ==
  supply \in [total : Int, staked : Int, delegatedOnly : Int,
              committeeStaked : [Chains -> Int], committeeDelegatedOnly : [Chains -> Int]]

\* The inductive invariant.
LedgerInv ==
  /\ StakingInv /\ BalanceTypes /\ SupplyType
  /\ SupplyConserved /\ StakedSupplyTracked /\ DelegatesCovered
  /\ RewardsCovered /\ PayoutsCovered

\* The sets that are summed over are finite.
LEMMA Finite ==
  /\ IsFiniteSet(Addresses) /\ IsFiniteSet(Chains) /\ IsFiniteSet(Operators) /\ IsFiniteSet(Pools)
  /\ Operators \subseteq Addresses /\ Self \in Pools /\ DAO \in Pools /\ DAO # Self
  /\ Chains \subseteq Pools /\ Self \in Chains
BY AddressAssumption, FS_Subset, FS_AddElement DEF Pools

\* The sum of a function to the naturals.
LEMMA TotalNat ==
  ASSUME NEW S, IsFiniteSet(S), NEW f \in [S -> Nat]
  PROVE  SumFunction(f) \in Nat /\ SumFunction(f) = SumFunctionOnSet(f, S)
<1>1. SumFunction(f) = SumFunctionOnSet(f, S)
  BY DEF SumFunction
<1> QED
  BY <1>1, SumNat

\* One value changes.
LEMMA TotalUpdate ==
  ASSUME NEW S, IsFiniteSet(S), NEW f \in [S -> Nat], NEW a \in S, NEW n \in Int
  PROVE  SumFunction([f EXCEPT ![a] = n]) = SumFunction(f) + (n - f[a])
<1>1. f \in [S -> Int]
  OBVIOUS
<1> QED
  BY <1>1, SumUpdate

\* No value exceeds the sum.
LEMMA OneOfSum ==
  ASSUME NEW S, IsFiniteSet(S), NEW f \in [S -> Nat], NEW a \in S
  PROVE  f[a] <= SumFunction(f)
<1>1. SumFunctionOnSet(f, S) = f[a] + SumFunctionOnSet(f, S \ {a})
  BY SumRemove
<1>2. SumFunctionOnSet(f, S \ {a}) \in Nat
  BY FS_RemoveElement, SumNat
<1> QED
  BY <1>1, <1>2, TotalNat

\* A percentage of a natural number, taken away.
LEMMA Reduced ==
  ASSUME NEW n \in Nat, NEW p \in Nat
  PROVE  ReducePercentage(n, p) \in Nat /\ ReducePercentage(n, p) <= n
<1>1. CASE p >= 100
  BY <1>1 DEF ReducePercentage
<1>2. CASE p < 100
  <2>1. ReducePercentage(n, p) = (n * (100 - p)) \div 100
    BY <1>2 DEF ReducePercentage
  <2>2. PICK k \in Nat : k = 100 - p /\ k <= 100
    BY <1>2
  <2>3. n * k \in Nat /\ n * k <= n * 100
    BY <2>2
  <2>4. PICK m \in Nat : m = n * k
    BY <2>3
  <2>5. m \div 100 \in Nat /\ 100 * (m \div 100) <= m
    OBVIOUS
  <2>6. m \div 100 <= n
    BY <2>3, <2>4, <2>5
  <2> QED
    BY <2>1, <2>2, <2>4, <2>5, <2>6
<1> QED
  BY <1>1, <1>2

\* The sums of the ledger are natural numbers.
LEMMA Totals ==
  ASSUME BalanceTypes
  PROVE  /\ SumFunction(accounts) \in Nat /\ SumFunction(pools) \in Nat
         /\ SumFunction(stakedAmount) \in Nat /\ SumFunction(paid) \in Nat
BY Finite, TotalNat DEF BalanceTypes

\* A step adds these to accounts, pools, stakes, payments under way and the tracker's total.
Moves(dA, dP, dS, dR, dT) ==
  /\ dA \in Int /\ dP \in Int /\ dS \in Int /\ dR \in Int /\ dT \in Int
  /\ SumFunction(accounts') = SumFunction(accounts) + dA
  /\ SumFunction(pools') = SumFunction(pools) + dP
  /\ SumFunction(stakedAmount') = SumFunction(stakedAmount) + dS
  /\ SumFunction(paid') = SumFunction(paid) + dR
  /\ supply'.total = supply.total + dT

\* What a step adds to the balances, it adds to the tracker's total.
LEMMA ConservedBy ==
  ASSUME LedgerInv, NEW dA, NEW dP, NEW dS, NEW dR, NEW dT,
         Moves(dA, dP, dS, dR, dT), dT + dR = dA + dP + dS
  PROVE  SupplyConserved'
<1>1. /\ SumFunction(accounts) \in Nat /\ SumFunction(pools) \in Nat
      /\ SumFunction(stakedAmount) \in Nat /\ SumFunction(paid) \in Nat
  BY Totals DEF LedgerInv
<1>2. supply.total \in Int
  BY DEF LedgerInv, SupplyType
<1>3. supply.total + SumFunction(paid)
        = SumFunction(accounts) + SumFunction(pools) + SumFunction(stakedAmount)
  BY DEF LedgerInv, SupplyConserved
<1>4. supply'.total + SumFunction(paid')
        = SumFunction(accounts') + SumFunction(pools') + SumFunction(stakedAmount')
  BY <1>1, <1>2, <1>3 DEF Moves
<1> QED
  BY <1>4 DEF SupplyConserved

\* The stake behind a committee, as a function of the operators, and its sum.
BehindOf(vals, stake, c) == [v \in Operators |->
  IF vals[v] # Nil /\ c \in vals[v].committees THEN stake[v] ELSE 0]

BondedOf(vals, stake, c) ==
  SumFunctionOnSet(stake, {v \in Operators : vals[v] # Nil /\ c \in vals[v].committees})

Behind(c) == BehindOf(validators, stakedAmount, c)

\* What Bonded counts over the validators of a committee is that sum.
LEMMA SumBehind ==
  ASSUME NEW vals, NEW stake \in [Operators -> Nat], NEW c
  PROVE  BondedOf(vals, stake, c) = SumFunction(BehindOf(vals, stake, c))
<1> DEFINE P == {v \in Operators : vals[v] # Nil /\ c \in vals[v].committees}
           g == BehindOf(vals, stake, c)
<1>1. P \in SUBSET Operators /\ \A v \in P : stake[v] \in Int
  OBVIOUS
<1>2. (\A v \in P : g[v] = stake[v]) /\ (\A v \in Operators \ P : g[v] = 0) /\ DOMAIN g = Operators
  BY DEF BehindOf
<1> HIDE DEF P, g
<1>3. SumFunctionOnSet(g, Operators) = SumFunctionOnSet(stake, P)
  BY <1>1, <1>2, Finite, SumOfPart
<1>4. SumFunction(g) = SumFunctionOnSet(stake, P)
  BY <1>2, <1>3 DEF SumFunction
<1> QED
  BY <1>4 DEF P, g, BondedOf

\* The stakes as functions to the naturals, and their sums.
LEMMA StakeTypes ==
  ASSUME BalanceTypes, NEW c \in Chains
  PROVE  /\ Behind(c) \in [Operators -> Nat] /\ SumFunction(Behind(c)) \in Nat
         /\ Delegated \in [Operators -> Nat] /\ SumFunction(Delegated) \in Nat
         /\ DelegatedTo(c) \in [Operators -> Nat] /\ SumFunction(DelegatedTo(c)) \in Nat
<1>1. \A v \in Operators : stakedAmount[v] \in Nat
  BY DEF BalanceTypes
<1>2. Behind(c) \in [Operators -> Nat] /\ Delegated \in [Operators -> Nat]
      /\ DelegatedTo(c) \in [Operators -> Nat]
  BY <1>1 DEF Behind, BehindOf, Delegated, DelegatedTo
<1> QED
  BY <1>2, Finite, TotalNat

\* A step changes the stake, the committees or the record of v alone, and the tracker
\* follows; what it counts as delegated may stay too high.
Restakes(v) ==
  /\ stakedAmount' = [stakedAmount EXCEPT ![v] = stakedAmount'[v]]
  /\ \A w \in Operators \ {v} : validators'[w] = validators[w]
  /\ validators'[v] = Nil => stakedAmount'[v] = 0
  /\ supply'.staked = supply.staked + (stakedAmount'[v] - stakedAmount[v])
  /\ supply'.delegatedOnly >= supply.delegatedOnly + (Delegated'[v] - Delegated[v])
  /\ \A c \in Chains :
       /\ supply'.committeeStaked[c] = supply.committeeStaked[c] + (Behind(c)'[v] - Behind(c)[v])
       /\ supply'.committeeDelegatedOnly[c]
            >= supply.committeeDelegatedOnly[c] + (DelegatedTo(c)'[v] - DelegatedTo(c)[v])

\* The sums follow.
LEMMA OneStake ==
  ASSUME LedgerInv, BalanceTypes', SupplyType', NEW v \in Operators, Restakes(v)
  PROVE  /\ StakedSupplyTracked' /\ DelegatesCovered'
         /\ SumFunction(stakedAmount') = SumFunction(stakedAmount) + (stakedAmount'[v] - stakedAmount[v])
<1>1. BalanceTypes /\ SupplyType /\ StakedSupplyTracked /\ DelegatesCovered
  BY DEF LedgerInv
<1>2. stakedAmount \in [Operators -> Nat] /\ stakedAmount' \in [Operators -> Nat]
  BY <1>1 DEF BalanceTypes
<1>3. SumFunction(stakedAmount') = SumFunction(stakedAmount) + (stakedAmount'[v] - stakedAmount[v])
  <2>1. stakedAmount'[v] \in Int /\ stakedAmount' = [stakedAmount EXCEPT ![v] = stakedAmount'[v]]
    BY <1>2 DEF Restakes
  <2>2. SumFunction([stakedAmount EXCEPT ![v] = stakedAmount'[v]])
          = SumFunction(stakedAmount) + (stakedAmount'[v] - stakedAmount[v])
    BY <1>2, <2>1, Finite, TotalUpdate
  <2> QED
    BY <2>1, <2>2
<1>4. \A w \in Operators \ {v} : validators'[w] = validators[w] /\ stakedAmount'[w] = stakedAmount[w]
  BY <1>2 DEF Restakes
<1>5. supply'.staked = SumFunction(stakedAmount')
  BY <1>1, <1>3 DEF StakedSupplyTracked, Restakes, SupplyType
<1>6. ASSUME NEW c \in Chains
      PROVE  supply'.committeeStaked[c] = Bonded(c)'
  <2>1. Behind(c) \in [Operators -> Nat] /\ SumFunction(Behind(c)) \in Nat
    BY <1>1, StakeTypes
  <2>2. Behind(c)' = [Behind(c) EXCEPT ![v] = Behind(c)'[v]] /\ Behind(c)'[v] \in Nat
    BY <1>2, <1>4 DEF Behind, BehindOf
  <2>3. SumFunction(Behind(c)') = SumFunction(Behind(c)) + (Behind(c)'[v] - Behind(c)[v])
    <3>1. PICK n \in Int : n = Behind(c)'[v]
      BY <2>2
    <3>2. SumFunction([Behind(c) EXCEPT ![v] = n]) = SumFunction(Behind(c)) + (n - Behind(c)[v])
      BY <2>1, <3>1, Finite, TotalUpdate
    <3> QED
      BY <2>2, <3>1, <3>2
  <2>4. supply.committeeStaked[c] = SumFunction(Behind(c))
    <3>1. Bonded(c) = BondedOf(validators, stakedAmount, c)
      BY DEF Bonded, BondedOf
    <3> QED
      BY <1>1, <1>2, <3>1, SumBehind DEF StakedSupplyTracked, Behind
  <2>5. Bonded(c)' = SumFunction(Behind(c)')
    <3>1. Bonded(c)' = BondedOf(validators', stakedAmount', c)
      BY DEF Bonded, BondedOf
    <3> QED
      BY <1>2, <3>1, SumBehind DEF Behind
  <2> QED
    BY <2>3, <2>4, <2>5 DEF Restakes
<1>7. \A w \in Operators : validators'[w] = Nil => stakedAmount'[w] = 0
  BY <1>1, <1>4 DEF DelegatesCovered, Restakes
<1>8. supply'.delegatedOnly >= SumFunction(Delegated')
  <2>1. Delegated \in [Operators -> Nat] /\ SumFunction(Delegated) \in Nat
    BY <1>1, Finite, StakeTypes
  <2>2. Delegated' = [Delegated EXCEPT ![v] = Delegated'[v]] /\ Delegated'[v] \in Nat
    BY <1>2, <1>4 DEF Delegated
  <2>3. PICK n \in Int : n = Delegated'[v]
    BY <2>2
  <2>4. SumFunction([Delegated EXCEPT ![v] = n]) = SumFunction(Delegated) + (n - Delegated[v])
    BY <2>1, <2>3, Finite, TotalUpdate
  <2>5. supply.delegatedOnly >= SumFunction(Delegated) /\ supply.delegatedOnly \in Int
    BY <1>1 DEF DelegatesCovered, SupplyType
  <2>6. supply'.delegatedOnly >= supply.delegatedOnly + (n - Delegated[v]) /\ supply'.delegatedOnly \in Int
    BY <2>3 DEF Restakes, SupplyType
  <2>7. SumFunction(Delegated') = SumFunction(Delegated) + (n - Delegated[v]) /\ Delegated[v] \in Int
    <3>1. Delegated' = [Delegated EXCEPT ![v] = n]
      BY <2>2, <2>3
    <3>2. Delegated[v] \in Int
      BY <2>1
    <3> QED
      BY <2>4, <3>1, <3>2
  <2>8. PICK x \in Int, y \in Int, z \in Int, old \in Int :
           /\ x = supply.delegatedOnly /\ y = supply'.delegatedOnly /\ z = SumFunction(Delegated) /\ old = Delegated[v]
    BY <2>1, <2>5, <2>6, <2>7
  <2>9. x >= z /\ y >= x + (n - old) /\ SumFunction(Delegated') = z + (n - old)
    BY <2>5, <2>6, <2>7, <2>8
  <2> QED
    BY <2>8, <2>9
<1>9. ASSUME NEW c \in Chains
      PROVE  supply'.committeeDelegatedOnly[c] >= SumFunction(DelegatedTo(c)')
  <2>1. DelegatedTo(c) \in [Operators -> Nat] /\ SumFunction(DelegatedTo(c)) \in Nat
    BY <1>1, Finite, StakeTypes
  <2>2. DelegatedTo(c)' = [DelegatedTo(c) EXCEPT ![v] = DelegatedTo(c)'[v]] /\ DelegatedTo(c)'[v] \in Nat
    BY <1>2, <1>4 DEF DelegatedTo
  <2>3. PICK n \in Int : n = DelegatedTo(c)'[v]
    BY <2>2
  <2>4. SumFunction([DelegatedTo(c) EXCEPT ![v] = n]) = SumFunction(DelegatedTo(c)) + (n - DelegatedTo(c)[v])
    BY <2>1, <2>3, Finite, TotalUpdate
  <2>5. /\ supply.committeeDelegatedOnly[c] >= SumFunction(DelegatedTo(c))
        /\ supply.committeeDelegatedOnly[c] \in Int
    BY <1>1 DEF DelegatesCovered, SupplyType
  <2>6. /\ supply'.committeeDelegatedOnly[c] >= supply.committeeDelegatedOnly[c] + (n - DelegatedTo(c)[v])
        /\ supply'.committeeDelegatedOnly[c] \in Int
    BY <2>3 DEF Restakes, SupplyType
  <2>7. /\ SumFunction(DelegatedTo(c)') = SumFunction(DelegatedTo(c)) + (n - DelegatedTo(c)[v])
        /\ DelegatedTo(c)[v] \in Int
    <3>1. DelegatedTo(c)' = [DelegatedTo(c) EXCEPT ![v] = n]
      BY <2>2, <2>3
    <3>2. DelegatedTo(c)[v] \in Int
      BY <2>1
    <3> QED
      BY <2>4, <3>1, <3>2
  <2>8. PICK x \in Int, y \in Int, z \in Int, old \in Int :
           /\ x = supply.committeeDelegatedOnly[c] /\ y = supply'.committeeDelegatedOnly[c] /\ z = SumFunction(DelegatedTo(c)) /\ old = DelegatedTo(c)[v]
    BY <2>1, <2>5, <2>6, <2>7
  <2>9. x >= z /\ y >= x + (n - old) /\ SumFunction(DelegatedTo(c)') = z + (n - old)
    BY <2>5, <2>6, <2>7, <2>8
  <2> QED
    BY <2>8, <2>9
<1> QED
  BY <1>3, <1>5, <1>6, <1>7, <1>8, <1>9 DEF StakedSupplyTracked, DelegatesCovered

\* A step keeps who has a record, for which committees and whether as a delegate.
SameStakes ==
  /\ UNCHANGED stakedAmount
  /\ \A v \in Operators :
       /\ validators'[v] = Nil <=> validators[v] = Nil
       /\ validators[v] # Nil => /\ validators'[v].committees = validators[v].committees
                                 /\ validators'[v].delegate = validators[v].delegate
  /\ supply'.staked = supply.staked /\ supply'.committeeStaked = supply.committeeStaked
  /\ supply'.delegatedOnly = supply.delegatedOnly
  /\ supply'.committeeDelegatedOnly = supply.committeeDelegatedOnly

(* A step that changes no stake and no delegation preserves the two facts
   about the staked supply. *)
LEMMA NoStake ==
  ASSUME LedgerInv, SameStakes
  PROVE  StakedSupplyTracked' /\ DelegatesCovered'
<1>1. StakedSupplyTracked /\ DelegatesCovered
  BY DEF LedgerInv
<1>2. Delegated' = Delegated
  BY DEF SameStakes, Delegated
<1>3. ASSUME NEW c \in Chains
      PROVE  DelegatedTo(c)' = DelegatedTo(c) /\ Bonded(c)' = Bonded(c)
  <2>1. DelegatedTo(c)' = DelegatedTo(c)
    BY DEF SameStakes, DelegatedTo
  <2>2. {v \in Operators : validators'[v] # Nil /\ c \in validators'[v].committees}
          = {v \in Operators : validators[v] # Nil /\ c \in validators[v].committees}
    BY DEF SameStakes
  <2> QED
    BY <2>1, <2>2 DEF SameStakes, Bonded
<1> QED
  BY <1>1, <1>2, <1>3 DEF SameStakes, StakedSupplyTracked, DelegatesCovered

-----------------------------------------------------------------------------
\* A reward is rounded down: it takes no more than its share of the pool.
LEMMA RewardFits ==
  ASSUME NEW percents \in Nat, percents > 0, NEW pool \in Nat, NEW pay \in Nat, NEW rest \in Nat,
         NEW before \in Nat, NEW reward \in Nat, reward <= (pay * pool) \div percents,
         before * percents + pool * (pay + rest) <= pool * percents
  PROVE  (before + reward) * percents + pool * rest <= pool * percents
<1>1. PICK share \in Nat : share = pay * pool
  OBVIOUS
<1>2. PICK q \in Nat : q = share \div percents
  OBVIOUS
<1>3. q * percents <= share
  BY <1>2
<1>4. reward * percents <= q * percents
  BY <1>1, <1>2
<1>5. pool * (pay + rest) = share + pool * rest
  BY <1>1
<1>6. (before + reward) * percents = before * percents + reward * percents
  OBVIOUS
<1>7. PICK a \in Nat, b \in Nat, d \in Nat, e \in Nat :
         a = before * percents /\ b = reward * percents /\ d = pool * rest /\ e = pool * percents
  OBVIOUS
<1>8. PICK x \in Nat : x = q * percents
  OBVIOUS
<1>9. b <= x /\ x <= share /\ a + (share + d) <= e
  BY <1>3, <1>4, <1>5, <1>7, <1>8
<1>10. (a + b) + d <= e
  BY <1>9
<1> QED
  BY <1>6, <1>7, <1>10

\* Dividing an inequality.
LEMMA Divided ==
  ASSUME NEW x \in Nat, NEW y \in Nat, NEW k \in Nat, k > 0, x * k <= y * k
  PROVE  x <= y
<1> SUFFICES ASSUME x > y PROVE FALSE
  OBVIOUS
<1>1. PICK d \in Nat : x = y + d /\ d >= 1
  <2>1. x - y \in Nat /\ x = y + (x - y) /\ x - y >= 1
    OBVIOUS
  <2> QED
    BY <2>1
<1>2. x * k = y * k + d * k /\ d * k >= k
  BY <1>1
<1>3. PICK a \in Nat, b \in Nat : a = y * k /\ b = d * k
  OBVIOUS
<1> QED
  BY <1>2, <1>3

\* No reward is under way.
LEMMA NonePaid ==
  ASSUME BalanceTypes', payouts' = {}, paid' = [c \in Chains |-> 0],
         \A c \in Chains :
           SumFunction(committeeData'[c].payments) <= 100 * committeeData'[c].samples
  PROVE  RewardsCovered' /\ PayoutsCovered'
<1>2. payouts' = {} /\ paid' = [c \in Chains |-> 0]
  OBVIOUS
<1>3. ASSUME NEW c \in Chains
      PROVE  /\ pools'[c] \in Nat /\ 100 * committeeData'[c].samples \in Nat /\ paid'[c] = 0
             /\ SumFunctionOnSet(committeeData'[c].payments, Due(c)') = 0
  <2>1. pools'[c] \in Nat /\ committeeData'[c].samples \in Nat
    BY Finite DEF BalanceTypes, Data
  <2>2. Due(c)' = {}
    BY <1>2 DEF Due
  <2>3. SumFunctionOnSet(committeeData'[c].payments, {}) = 0
    BY SumEmpty
  <2> QED
    BY <1>2, <2>1, <2>2, <2>3
<1>4. RewardsCovered'
  BY <1>3 DEF RewardsCovered
<1>5. ASSUME NEW c \in Chains
      PROVE  paid'[c] * (100 * committeeData'[c].samples)
               + pools'[c] * SumFunctionOnSet(committeeData'[c].payments, Due(c)')
                 <= pools'[c] * (100 * committeeData'[c].samples)
  <2>1. PICK k \in Nat, p \in Nat : k = 100 * committeeData'[c].samples /\ p = pools'[c]
    BY <1>3
  <2>2. 0 * k + p * 0 <= p * k
    OBVIOUS
  <2> QED
    BY <1>3, <2>1, <2>2
<1>6. PayoutsCovered'
  BY <1>2, <1>3, <1>5 DEF PayoutsCovered
<1> QED
  BY <1>4, <1>6

\* Outside of EndBlock none is.
LEMMA Quiet ==
  ASSUME LedgerInv, BalanceTypes', phase # "rewards", UNCHANGED rewards,
         \A c \in Chains :
           SumFunction(committeeData'[c].payments) <= 100 * committeeData'[c].samples
  PROVE  RewardsCovered' /\ PayoutsCovered'
<1>1. payouts = {} /\ paid = [c \in Chains |-> 0]
  BY DEF LedgerInv, PayoutsCovered
<1>2. payouts' = {} /\ paid' = [c \in Chains |-> 0]
  BY <1>1 DEF rewards
<1> QED
  BY <1>2, NonePaid

\* Steps that leave the rewards and the pools alone.
LEMMA SameRewards ==
  ASSUME LedgerInv, UNCHANGED <<phase, payouts, paid, committeeData, pools>>
  PROVE  RewardsCovered' /\ PayoutsCovered'
BY DEF LedgerInv, RewardsCovered, PayoutsCovered, Payable, Due

-----------------------------------------------------------------------------
(***************************************************************************)
(* Transactions.                                                           *)
(***************************************************************************)

\* What only a transaction on balances and validators may change.
Untouched == UNCHANGED <<nonSigners, doubleSigners, committeeData, payouts, paid, height, phase, committees>>

\* The types and the rewards after such a transaction.
LEMMA TransactionFrame ==
  ASSUME LedgerInv, Deliver, Untouched, accounts' \in [Addresses -> Nat], pools' \in [Pools -> Nat],
         stakedAmount' \in [Operators -> Nat]
  PROVE  BalanceTypes' /\ RewardsCovered' /\ PayoutsCovered'
<1>1. BalanceTypes /\ RewardsCovered
  BY DEF LedgerInv
<1>2. BalanceTypes'
  BY <1>1 DEF BalanceTypes, CommitteesTyped, Untouched
<1>3. phase # "rewards" /\ phase' # "rewards" /\ UNCHANGED rewards /\ UNCHANGED committeeData
  BY DEF Untouched, rewards, Deliver
<1>4. \A c \in Chains : SumFunction(committeeData'[c].payments) <= 100 * committeeData'[c].samples
  BY <1>1, <1>3 DEF RewardsCovered
<1> QED
  BY <1>2, <1>3, <1>4, Quiet

\* An account changes by n.
LEMMA AccountMoves ==
  ASSUME BalanceTypes, NEW a \in Addresses, NEW n \in Int, accounts[a] + n >= 0
  PROVE  /\ [accounts EXCEPT ![a] = accounts[a] + n] \in [Addresses -> Nat]
         /\ SumFunction([accounts EXCEPT ![a] = accounts[a] + n]) = SumFunction(accounts) + n
<1>1. accounts \in [Addresses -> Nat] /\ accounts[a] \in Nat /\ SumFunction(accounts) \in Nat
  BY Totals DEF BalanceTypes
<1>2. accounts[a] + n \in Nat
  BY <1>1
<1>3. PICK m \in Int : m = accounts[a] + n
  BY <1>1
<1>4. SumFunction([accounts EXCEPT ![a] = m]) = SumFunction(accounts) + (m - accounts[a])
  BY <1>1, Finite, TotalUpdate
<1> QED
  BY <1>1, <1>2, <1>3, <1>4

\* The fee goes to the pool of this chain.
LEMMA FeeMoves ==
  ASSUME BalanceTypes
  PROVE  /\ [pools EXCEPT ![Self] = pools[Self] + Fee] \in [Pools -> Nat] /\ Fee \in Nat
         /\ SumFunction([pools EXCEPT ![Self] = pools[Self] + Fee]) = SumFunction(pools) + Fee
<1>1. pools \in [Pools -> Nat] /\ Self \in Pools /\ SumFunction(pools) \in Nat /\ Fee \in Nat
  BY Finite, Totals, InputAssumption DEF BalanceTypes
<1>2. PICK m \in Int : m = pools[Self] + Fee
  BY <1>1
<1>3. SumFunction([pools EXCEPT ![Self] = m]) = SumFunction(pools) + (m - pools[Self])
  BY <1>1, Finite, TotalUpdate
<1> QED
  BY <1>1, <1>2, <1>3

\* A transaction that only moves tokens between accounts and pools.
LEMMA TransferInv ==
  ASSUME LedgerInv, StakingInv', Deliver, Untouched, SameStakes, SupplyType',
         accounts' \in [Addresses -> Nat], pools' \in [Pools -> Nat],
         NEW dA, NEW dP, NEW dT, Moves(dA, dP, 0, 0, dT), dT = dA + dP
  PROVE  LedgerInv'
<1>1. stakedAmount' \in [Operators -> Nat]
  BY DEF LedgerInv, BalanceTypes, SameStakes
<1>2. BalanceTypes' /\ RewardsCovered' /\ PayoutsCovered'
  BY <1>1, TransactionFrame
<1>3. StakedSupplyTracked' /\ DelegatesCovered'
  BY NoStake
<1>4. dT + 0 = dA + dP + 0
  BY DEF Moves
<1>5. SupplyConserved'
  BY <1>4, ConservedBy
<1> QED
  BY <1>2, <1>3, <1>5 DEF LedgerInv

\* Sums that do not change.
LEMMA Still ==
  ASSUME BalanceTypes
  PROVE  /\ UNCHANGED accounts => SumFunction(accounts') = SumFunction(accounts) + 0
         /\ UNCHANGED pools => SumFunction(pools') = SumFunction(pools) + 0
         /\ UNCHANGED stakedAmount => SumFunction(stakedAmount') = SumFunction(stakedAmount) + 0
         /\ UNCHANGED paid => SumFunction(paid') = SumFunction(paid) + 0
BY Totals

\* HandleMessageSend, with the faucet's mint.
LEMMA SendInv ==
  ASSUME LedgerInv, StakingInv', NEW from \in Addresses, NEW to \in Addresses, NEW n \in Amounts,
         Send(from, to, n)
  PROVE  LedgerInv'
<1>1. BalanceTypes /\ SupplyType
  BY DEF LedgerInv
<1>2. n \in Nat /\ Fee \in Nat
  BY InputAssumption
<1>3. accounts \in [Addresses -> Nat] /\ accounts[from] \in Nat
  BY <1>1 DEF BalanceTypes
<1>4. PICK topUp \in Nat : topUp = IF from = Faucet /\ accounts[from] < Fee + n
                                   THEN Fee + n - accounts[from] ELSE 0
  BY <1>2, <1>3
<1>5. /\ Deliver /\ accounts[from] + topUp >= Fee + n
      /\ accounts' = [[accounts EXCEPT ![from] = @ + topUp - Fee - n] EXCEPT ![to] = @ + n]
      /\ pools' = [pools EXCEPT ![Self] = pools[Self] + Fee]
      /\ supply' = [supply EXCEPT !.total = supply.total + topUp]
      /\ UNCHANGED <<validators, stakedAmount>> /\ Untouched
  BY <1>4 DEF Send, Untouched, byzantine, rewards, chain
<1>6. PICK funded \in [Addresses -> Nat] :
         /\ funded = [accounts EXCEPT ![from] = @ + topUp - Fee - n]
         /\ SumFunction(funded) = SumFunction(accounts) + (topUp - Fee - n)
  <2>1. PICK m \in Int : m = topUp - Fee - n
    BY <1>2
  <2>2. accounts[from] + m >= 0 /\ accounts[from] + m = accounts[from] + topUp - Fee - n
    BY <1>2, <1>3, <1>5, <2>1
  <2>3. /\ [accounts EXCEPT ![from] = accounts[from] + m] \in [Addresses -> Nat]
        /\ SumFunction([accounts EXCEPT ![from] = accounts[from] + m]) = SumFunction(accounts) + m
    BY <1>1, <2>2, AccountMoves
  <2> QED
    BY <2>1, <2>2, <2>3
<1>7. accounts' = [funded EXCEPT ![to] = funded[to] + n]
  BY <1>5, <1>6
<1>8. accounts' \in [Addresses -> Nat]
  BY <1>2, <1>7
<1>9. SumFunction(accounts') = SumFunction(accounts) + (topUp - Fee)
  <2>1. PICK m \in Int : m = funded[to] + n
    BY <1>2
  <2>2. SumFunction([funded EXCEPT ![to] = m]) = SumFunction(funded) + (m - funded[to])
    BY Finite, TotalUpdate
  <2>3. SumFunction(accounts) \in Nat /\ funded[to] \in Nat
    BY <1>1, Totals
  <2> QED
    BY <1>2, <1>6, <1>7, <2>1, <2>2, <2>3
<1>10. SupplyType' /\ supply'.total = supply.total + topUp
  BY <1>1, <1>5 DEF SupplyType
<1>11. SameStakes
  BY <1>1, <1>5 DEF SameStakes, SupplyType
<1>12. pools' \in [Pools -> Nat] /\ SumFunction(pools') = SumFunction(pools) + Fee
  BY <1>1, <1>5, FeeMoves
<1>13. Moves(topUp - Fee, Fee, 0, 0, topUp)
  BY <1>1, <1>2, <1>5, <1>9, <1>10, <1>12, Still DEF Moves, Untouched
<1>14. topUp = (topUp - Fee) + Fee
  BY <1>2
<1> QED
  BY <1>5, <1>8, <1>10, <1>11, <1>12, <1>13, <1>14, TransferInv

\* HandleMessageSubsidy: the fee and the subsidy go to pools, which may be the same.
LEMMA SubsidyInv ==
  ASSUME LedgerInv, StakingInv', NEW from \in Addresses, NEW c \in Chains, NEW n \in Amounts,
         Subsidy(from, c, n)
  PROVE  LedgerInv'
<1>1. BalanceTypes /\ SupplyType
  BY DEF LedgerInv
<1>2. n \in Nat /\ Fee \in Nat
  BY InputAssumption
<1>3. /\ Deliver /\ accounts[from] >= Fee + n
      /\ accounts' = [accounts EXCEPT ![from] = @ - Fee - n]
      /\ pools' = [p \in Pools |-> pools[p] + (IF p = Self THEN Fee ELSE 0) + (IF p = c THEN n ELSE 0)]
      /\ UNCHANGED <<validators, stakedAmount, supply>> /\ Untouched
  BY DEF Subsidy, Untouched, stakes, byzantine, rewards, chain
<1>4. accounts' \in [Addresses -> Nat] /\ SumFunction(accounts') = SumFunction(accounts) + (0 - Fee - n)
  <2>0. 0 - Fee - n \in Int
    BY <1>2
  <2>1. PICK m \in Int : m = 0 - Fee - n
    BY <2>0
  <2>2. accounts[from] \in Nat
    BY <1>1 DEF BalanceTypes
  <2>3. accounts[from] + m >= 0 /\ accounts[from] + m = accounts[from] - Fee - n
    BY <1>2, <1>3, <2>1, <2>2
  <2>4. /\ [accounts EXCEPT ![from] = accounts[from] + m] \in [Addresses -> Nat]
        /\ SumFunction([accounts EXCEPT ![from] = accounts[from] + m]) = SumFunction(accounts) + m
    BY <1>1, <2>3, AccountMoves
  <2> QED
    BY <1>3, <2>1, <2>3, <2>4
<1>5. pools' \in [Pools -> Nat] /\ SumFunction(pools') = SumFunction(pools) + (Fee + n)
  <2>1. pools \in [Pools -> Nat] /\ Self \in Pools /\ c \in Pools /\ SumFunction(pools) \in Nat
    BY <1>1, Finite, Totals DEF BalanceTypes
  <2>2. PICK charged \in [Pools -> Nat] : /\ charged = [pools EXCEPT ![Self] = pools[Self] + Fee]
                                          /\ SumFunction(charged) = SumFunction(pools) + Fee
    BY <1>1, FeeMoves
  <2>3. pools' = [charged EXCEPT ![c] = charged[c] + n]
    <3> DEFINE after == [charged EXCEPT ![c] = charged[c] + n]
    <3>1. ASSUME NEW p \in Pools
          PROVE  pools'[p] = after[p]
      <4>1. pools'[p] = pools[p] + (IF p = Self THEN Fee ELSE 0) + (IF p = c THEN n ELSE 0)
        BY <1>3
      <4>2. charged[p] = pools[p] + (IF p = Self THEN Fee ELSE 0) /\ pools[p] \in Nat
        BY <1>2, <2>1, <2>2
      <4>3. CASE p = c
        BY <1>2, <2>1, <4>1, <4>2, <4>3
      <4>4. CASE p # c
        BY <1>2, <2>1, <4>1, <4>2, <4>4
      <4> QED
        BY <4>3, <4>4
    <3>2. DOMAIN after = Pools /\ pools' = [p \in Pools |-> pools'[p]] /\ after = [p \in Pools |-> after[p]]
      BY <1>3, <2>2
    <3> HIDE DEF after
    <3>3. pools' = after
      BY <3>1, <3>2
    <3> QED
      BY <3>3 DEF after
  <2>4. PICK m \in Int : m = charged[c] + n
    BY <1>2, <2>1
  <2>5. SumFunction([charged EXCEPT ![c] = m]) = SumFunction(charged) + (m - charged[c])
    BY <2>1, Finite, TotalUpdate
  <2>6. charged[c] \in Nat
    BY <2>1
  <2>7. SumFunction(pools') = SumFunction(pools) + (Fee + n)
    BY <1>2, <2>1, <2>2, <2>3, <2>4, <2>5, <2>6
  <2> QED
    BY <1>2, <2>1, <2>3, <2>7
<1>6. SupplyType' /\ supply'.total = supply.total + 0
  BY <1>1, <1>3 DEF SupplyType
<1>7. SameStakes
  BY <1>3 DEF SameStakes
<1>8. Moves(0 - Fee - n, Fee + n, 0, 0, 0)
  BY <1>1, <1>2, <1>3, <1>4, <1>5, <1>6, Still DEF Moves, Untouched
<1>9. 0 = (0 - Fee - n) + (Fee + n)
  BY <1>2
<1> QED
  BY <1>3, <1>4, <1>5, <1>6, <1>7, <1>8, <1>9, TransferInv

\* HandleMessageDAOTransfer, with what the proposal mints.
LEMMA DAOTransferInv ==
  ASSUME LedgerInv, StakingInv', NEW to \in Addresses, NEW n \in Amounts, NEW mint \in BOOLEAN,
         DAOTransfer(to, n, mint)
  PROVE  LedgerInv'
<1>1. BalanceTypes /\ SupplyType
  BY DEF LedgerInv
<1>2. n \in Nat /\ Fee \in Nat
  BY InputAssumption
<1>3. PICK minted \in Nat : minted = IF mint THEN n ELSE 0
  BY <1>2
<1>4. /\ Deliver /\ accounts[to] >= Fee /\ pools[DAO] + minted >= n
      /\ accounts' = [accounts EXCEPT ![to] = @ - Fee + n]
      /\ pools' = [pools EXCEPT ![DAO] = @ + minted - n, ![Self] = @ + Fee]
      /\ supply' = [supply EXCEPT !.total = supply.total + minted]
      /\ UNCHANGED <<validators, stakedAmount>> /\ Untouched
  BY <1>3 DEF DAOTransfer, Untouched, byzantine, rewards, chain
<1>5. accounts' \in [Addresses -> Nat] /\ SumFunction(accounts') = SumFunction(accounts) + (n - Fee)
  <2>1. PICK m \in Int : m = n - Fee
    BY <1>2
  <2>2. accounts[to] \in Nat
    BY <1>1 DEF BalanceTypes
  <2>3. accounts[to] + m >= 0 /\ accounts[to] + m = accounts[to] - Fee + n
    BY <1>2, <1>4, <2>1, <2>2
  <2>4. /\ [accounts EXCEPT ![to] = accounts[to] + m] \in [Addresses -> Nat]
        /\ SumFunction([accounts EXCEPT ![to] = accounts[to] + m]) = SumFunction(accounts) + m
    BY <1>1, <2>3, AccountMoves
  <2> QED
    BY <1>4, <2>1, <2>3, <2>4
<1>6. pools' \in [Pools -> Nat] /\ SumFunction(pools') = SumFunction(pools) + (minted - n + Fee)
  <2>1. pools \in [Pools -> Nat] /\ Self \in Pools /\ DAO \in Pools /\ DAO # Self /\ SumFunction(pools) \in Nat
    BY <1>1, Finite, Totals DEF BalanceTypes
  <2>2. PICK charged \in [Pools -> Nat] : /\ charged = [pools EXCEPT ![Self] = pools[Self] + Fee]
                                          /\ SumFunction(charged) = SumFunction(pools) + Fee
    BY <1>1, FeeMoves
  <2>3. charged[DAO] = pools[DAO]
    BY <2>1, <2>2
  <2>4. PICK m \in Int : m = pools[DAO] + minted - n
    BY <1>2, <2>1
  <2>5. pools' = [charged EXCEPT ![DAO] = m]
    <3>1. pools' = [pools EXCEPT ![DAO] = m, ![Self] = pools[Self] + Fee]
      BY <1>4, <2>1, <2>4
    <3> QED
      BY <2>1, <2>2, <3>1
  <2>6. SumFunction([charged EXCEPT ![DAO] = m]) = SumFunction(charged) + (m - charged[DAO])
    BY <2>1, Finite, TotalUpdate
  <2>7. pools[DAO] \in Nat /\ m \in Nat
    BY <1>2, <1>4, <2>1, <2>4
  <2>8. SumFunction(pools') = SumFunction(pools) + (minted - n + Fee)
    BY <1>2, <2>1, <2>2, <2>3, <2>4, <2>5, <2>6, <2>7
  <2> QED
    BY <2>5, <2>7, <2>8
<1>7. SupplyType' /\ supply'.total = supply.total + minted
  BY <1>1, <1>4 DEF SupplyType
<1>8. SameStakes
  BY <1>1, <1>4 DEF SameStakes, SupplyType
<1>9. Moves(n - Fee, minted - n + Fee, 0, 0, minted)
  BY <1>1, <1>2, <1>4, <1>5, <1>6, <1>7, Still DEF Moves, Untouched
<1>10. minted = (n - Fee) + (minted - n + Fee)
  BY <1>2
<1> QED
  BY <1>4, <1>5, <1>6, <1>7, <1>8, <1>9, <1>10, TransferInv

\* What a signer spends beyond its fee, and the fee.
LEMMA SpendMoves ==
  ASSUME BalanceTypes, NEW signer \in Addresses, NEW n \in Nat, Spend(signer, n),
         accounts' = [accounts EXCEPT ![signer] = @ - Fee - n]
  PROVE  /\ accounts' \in [Addresses -> Nat] /\ SumFunction(accounts') = SumFunction(accounts) + (0 - Fee - n)
         /\ pools' \in [Pools -> Nat] /\ SumFunction(pools') = SumFunction(pools) + Fee /\ Fee \in Nat
<1>1. Fee \in Nat /\ accounts[signer] \in Nat
  BY InputAssumption DEF BalanceTypes
<1>0. 0 - Fee - n \in Int
  BY <1>1
<1>2. PICK m \in Int : m = 0 - Fee - n
  BY <1>0
<1>3. accounts[signer] + m >= 0 /\ accounts[signer] + m = accounts[signer] - Fee - n
  BY <1>1, <1>2 DEF Spend
<1>4. /\ [accounts EXCEPT ![signer] = accounts[signer] + m] \in [Addresses -> Nat]
      /\ SumFunction([accounts EXCEPT ![signer] = accounts[signer] + m]) = SumFunction(accounts) + m
  BY <1>3, AccountMoves
<1>5. accounts' \in [Addresses -> Nat] /\ SumFunction(accounts') = SumFunction(accounts) + (0 - Fee - n)
  BY <1>2, <1>3, <1>4
<1>6. pools' = [pools EXCEPT ![Self] = pools[Self] + Fee]
  BY DEF Spend
<1> QED
  BY <1>1, <1>5, <1>6, FeeMoves

\* A fee alone.
LEMMA FeeOnly ==
  ASSUME LedgerInv, StakingInv', Deliver, Untouched, SameStakes, UNCHANGED supply,
         NEW signer \in Addresses, ChargeFee(signer)
  PROVE  LedgerInv'
<1>1. BalanceTypes /\ SupplyType
  BY DEF LedgerInv
<1>2. Fee \in Nat /\ accounts[signer] \in Nat
  BY <1>1, InputAssumption DEF BalanceTypes
<1>3. Spend(signer, 0) /\ accounts' = [accounts EXCEPT ![signer] = @ - Fee - 0]
  <2>1. accounts[signer] - Fee - 0 = accounts[signer] - Fee
    BY <1>2
  <2>2. accounts' = [accounts EXCEPT ![signer] = accounts[signer] - Fee]
    BY DEF ChargeFee
  <2> QED
    BY <2>1, <2>2 DEF ChargeFee
<1>4. /\ accounts' \in [Addresses -> Nat] /\ SumFunction(accounts') = SumFunction(accounts) + (0 - Fee - 0)
      /\ pools' \in [Pools -> Nat] /\ SumFunction(pools') = SumFunction(pools) + Fee
  BY <1>1, <1>3, SpendMoves
<1>5. SupplyType' /\ supply'.total = supply.total + 0
  BY <1>1 DEF SupplyType
<1>6. UNCHANGED stakedAmount /\ UNCHANGED paid
  BY DEF SameStakes, Untouched
<1>7. Moves(0 - Fee - 0, Fee, 0, 0, 0)
  BY <1>1, <1>2, <1>4, <1>5, <1>6, Still DEF Moves
<1>8. 0 = (0 - Fee - 0) + Fee
  BY <1>2
<1> QED
  BY <1>4, <1>5, <1>7, <1>8, TransferInv

\* Unstaking and pausing keep the stake where it is.
LEMMA UnstakePauseInv ==
  ASSUME LedgerInv, StakingInv', NEW v \in Operators, NEW signer \in Addresses,
         Unstake(v, signer) \/ Pause(v, signer) \/ Unpause(v, signer)
  PROVE  LedgerInv'
<1>1. validators \in [Operators -> Validator \cup {Nil}] /\ validators[v] # Nil /\ validators[v] \in Validator
      /\ height \in Nat /\ Nil \notin Validator
  BY RecordType, AddressAssumption DEF LedgerInv, StakingInv, StakingTypeOK, Unstake, Pause, Unpause, CanPause
<1>2. PICK val \in Validator : /\ validators' = [validators EXCEPT ![v] = val]
                               /\ val.committees = validators[v].committees
                               /\ val.delegate = validators[v].delegate
  <2>1. StakingTypeOK'
    BY DEF StakingInv
  <2>2. CASE Unstake(v, signer)
    <3> DEFINE val == Unstaking(validators[v], height + UnstakingBlocks(validators[v]))
    <3>1. UnstakingBlocks(validators[v]) \in Nat
      BY ParamsAssumption DEF UnstakingBlocks
    <3>2. /\ val \in Validator
          /\ val.committees = validators[v].committees /\ val.delegate = validators[v].delegate
      <4>1. PICK finish \in Nat : finish = height + UnstakingBlocks(validators[v])
        BY <1>1, <3>1
      <4>2. val = [validators[v] EXCEPT !.unstakingHeight = finish, !.maxPausedHeight = 0]
        BY <4>1 DEF Unstaking
      <4> HIDE DEF val
      <4>3. val \in Validator
        BY <1>1, <4>2 DEF Validator
      <4>4. val.committees = validators[v].committees
        BY <1>1, <4>2 DEF Validator
      <4>5. val.delegate = validators[v].delegate
        BY <1>1, <4>2 DEF Validator
      <4> QED
        BY <4>3, <4>4, <4>5
    <3>3. validators' = [validators EXCEPT ![v] = val]
      BY <2>2 DEF Unstake
    <3> QED
      BY <3>2, <3>3
  <2>3. CASE Pause(v, signer)
    <3> DEFINE val == [validators[v] EXCEPT !.maxPausedHeight = height + Params.maxPauseBlocks]
    <3>1. Params.maxPauseBlocks \in Nat
      BY ParamsAssumption
    <3>2. /\ val \in Validator
          /\ val.committees = validators[v].committees /\ val.delegate = validators[v].delegate
      BY <1>1, <3>1 DEF Validator
    <3>3. validators' = [validators EXCEPT ![v] = val]
      BY <2>3 DEF Pause
    <3> QED
      BY <3>2, <3>3
  <2>4. CASE Unpause(v, signer)
    <3> DEFINE val == [validators[v] EXCEPT !.maxPausedHeight = 0]
    <3>1. /\ val \in Validator
          /\ val.committees = validators[v].committees /\ val.delegate = validators[v].delegate
      BY <1>1 DEF Validator
    <3>2. validators' = [validators EXCEPT ![v] = val]
      BY <2>4 DEF Unpause
    <3> QED
      BY <3>1, <3>2
  <2> QED
    BY <2>2, <2>3, <2>4
<1>3. /\ Deliver /\ Untouched /\ ChargeFee(signer) /\ UNCHANGED <<supply, stakedAmount>>
  BY DEF Unstake, Pause, Unpause, Untouched, byzantine, rewards, chain
<1>4. SameStakes
  BY <1>1, <1>2, <1>3 DEF SameStakes
<1> QED
  BY <1>3, <1>4, FeeOnly

\* What UpdateCommittees adds to the stake of a committee.
Moved(c, old, oldCs, new, newCs) ==
  (IF c \in newCs THEN new ELSE 0) - (IF c \in oldCs THEN old ELSE 0)

\* UpdateCommittees, committee by committee.
LEMMA RecommittedType ==
  ASSUME NEW staked \in [Chains -> Int], NEW old \in Nat, NEW oldCs, NEW new \in Nat, NEW newCs
  PROVE  /\ Recommitted(staked, old, oldCs, new, newCs) \in [Chains -> Int]
         /\ \A c \in Chains :
              /\ Moved(c, old, oldCs, new, newCs) \in Int
              /\ Recommitted(staked, old, oldCs, new, newCs)[c] = staked[c] + Moved(c, old, oldCs, new, newCs)
BY DEF Recommitted, Moved

\* The supply tracker after UpdateValidatorStake, field by field.
LEMMA StakeSupply ==
  ASSUME SupplyType, NEW val, NEW stake \in Nat, NEW cs, NEW n \in Nat, NEW new \in Nat, new = stake + n,
         supply' = SupplyAfterStake(val, stake, cs, n)
  PROVE  /\ SupplyType' /\ supply'.total = supply.total /\ supply'.staked = supply.staked + n
         /\ supply'.delegatedOnly = supply.delegatedOnly + (IF val.delegate THEN n ELSE 0)
         /\ \A c \in Chains :
              /\ supply'.committeeStaked[c]
                   = supply.committeeStaked[c] + Moved(c, stake, val.committees, new, cs)
              /\ supply'.committeeDelegatedOnly[c]
                   = supply.committeeDelegatedOnly[c]
                       + (IF val.delegate THEN Moved(c, stake, val.committees, new, cs) ELSE 0)
<1>1. /\ supply.total \in Int /\ supply.staked \in Int /\ supply.delegatedOnly \in Int
      /\ supply.committeeStaked \in [Chains -> Int] /\ supply.committeeDelegatedOnly \in [Chains -> Int]
  BY DEF SupplyType
<1>2. PICK f \in [Chains -> Int] :
         /\ f = Recommitted(supply.committeeStaked, stake, val.committees, new, cs)
         /\ \A c \in Chains : f[c] = supply.committeeStaked[c] + Moved(c, stake, val.committees, new, cs)
  <2>1. /\ Recommitted(supply.committeeStaked, stake, val.committees, new, cs) \in [Chains -> Int]
        /\ \A c \in Chains : Recommitted(supply.committeeStaked, stake, val.committees, new, cs)[c]
              = supply.committeeStaked[c] + Moved(c, stake, val.committees, new, cs)
    <3>1. PICK d \in [Chains -> Int] : d = supply.committeeStaked
      BY <1>1
    <3>2. /\ Recommitted(d, stake, val.committees, new, cs) \in [Chains -> Int]
          /\ \A c \in Chains : Recommitted(d, stake, val.committees, new, cs)[c]
                = d[c] + Moved(c, stake, val.committees, new, cs)
      BY RecommittedType
    <3> QED
      BY <3>1, <3>2
  <2> QED
    BY <2>1
<1>3. PICK g \in [Chains -> Int] :
         /\ g = IF val.delegate
                THEN Recommitted(supply.committeeDelegatedOnly, stake, val.committees, new, cs)
                ELSE supply.committeeDelegatedOnly
         /\ \A c \in Chains : g[c] = supply.committeeDelegatedOnly[c]
              + (IF val.delegate THEN Moved(c, stake, val.committees, new, cs) ELSE 0)
  <2>1. CASE val.delegate
    <3>1. /\ Recommitted(supply.committeeDelegatedOnly, stake, val.committees, new, cs) \in [Chains -> Int]
          /\ \A c \in Chains : Recommitted(supply.committeeDelegatedOnly, stake, val.committees, new, cs)[c]
                = supply.committeeDelegatedOnly[c] + Moved(c, stake, val.committees, new, cs)
      <4>1. PICK d \in [Chains -> Int] : d = supply.committeeDelegatedOnly
        BY <1>1
      <4>2. /\ Recommitted(d, stake, val.committees, new, cs) \in [Chains -> Int]
            /\ \A c \in Chains : Recommitted(d, stake, val.committees, new, cs)[c]
                  = d[c] + Moved(c, stake, val.committees, new, cs)
        BY DEF Recommitted, Moved
      <4> QED
        BY <4>1, <4>2
    <3> QED
      BY <2>1, <3>1
  <2>2. CASE ~val.delegate
    BY <1>1, <2>2
  <2> QED
    BY <2>1, <2>2
<1>4. PICK s \in Int, d \in Int : /\ s = supply.staked + n
                                  /\ d = supply.delegatedOnly + (IF val.delegate THEN n ELSE 0)
  BY <1>1
<1>5. supply' = [supply EXCEPT !.staked = s, !.delegatedOnly = d, !.committeeStaked = f,
                               !.committeeDelegatedOnly = g]
  <2>1. supply' = [supply EXCEPT
          !.staked = supply.staked + n,
          !.delegatedOnly = IF val.delegate THEN supply.delegatedOnly + n ELSE supply.delegatedOnly,
          !.committeeStaked =
             Recommitted(supply.committeeStaked, stake, val.committees, new, cs),
          !.committeeDelegatedOnly =
             IF val.delegate
             THEN Recommitted(supply.committeeDelegatedOnly, stake, val.committees, new, cs)
             ELSE supply.committeeDelegatedOnly]
    BY DEF SupplyAfterStake, SupplyType
  <2>2. d = IF val.delegate THEN supply.delegatedOnly + n ELSE supply.delegatedOnly
    BY <1>1, <1>4
  <2> QED
    BY <1>2, <1>3, <1>4, <2>1, <2>2
<1>6. /\ supply'.total = supply.total /\ supply'.staked = s /\ supply'.delegatedOnly = d
      /\ supply'.committeeStaked = f /\ supply'.committeeDelegatedOnly = g
  BY <1>5 DEF SupplyType
<1>7. SupplyType'
  BY <1>5 DEF SupplyType
<1> QED
  BY <1>2, <1>3, <1>4, <1>6, <1>7

\* A transaction that stakes n more of the signer's tokens for v.
LEMMA RestakeInv ==
  ASSUME LedgerInv, StakingInv', Deliver, Untouched, NEW v \in Operators, Restakes(v), SupplyType',
         supply'.total = supply.total, NEW signer \in Addresses, NEW n \in Nat, Spend(signer, n),
         accounts' = [accounts EXCEPT ![signer] = @ - Fee - n],
         stakedAmount' = [stakedAmount EXCEPT ![v] = stakedAmount[v] + n]
  PROVE  LedgerInv'
<1>1. BalanceTypes /\ SupplyType
  BY DEF LedgerInv
<1>2. stakedAmount[v] \in Nat /\ stakedAmount' \in [Operators -> Nat] /\ stakedAmount'[v] = stakedAmount[v] + n
  BY <1>1 DEF BalanceTypes
<1>3. /\ accounts' \in [Addresses -> Nat] /\ SumFunction(accounts') = SumFunction(accounts) + (0 - Fee - n)
      /\ pools' \in [Pools -> Nat] /\ SumFunction(pools') = SumFunction(pools) + Fee /\ Fee \in Nat
  BY <1>1, SpendMoves
<1>4. BalanceTypes' /\ RewardsCovered' /\ PayoutsCovered'
  BY <1>2, <1>3, TransactionFrame
<1>5. /\ StakedSupplyTracked' /\ DelegatesCovered'
      /\ SumFunction(stakedAmount') = SumFunction(stakedAmount) + (stakedAmount'[v] - stakedAmount[v])
  BY <1>4, OneStake
<1>6. stakedAmount'[v] - stakedAmount[v] = n
  BY <1>2
<1>7. supply'.total = supply.total + 0
  BY <1>1 DEF SupplyType
<1>8. Moves(0 - Fee - n, Fee, n, 0, 0)
  BY <1>1, <1>3, <1>5, <1>6, <1>7, Still DEF Moves, Untouched
<1>9. 0 + 0 = (0 - Fee - n) + Fee + n
  BY <1>3
<1>10. SupplyConserved'
  BY <1>8, <1>9, ConservedBy
<1> QED
  BY <1>4, <1>5, <1>10 DEF LedgerInv

\* HandleMessageStake
LEMMA StakeInv ==
  ASSUME LedgerInv, StakingInv', NEW v \in Operators, NEW signer \in Addresses, NEW n \in Amounts,
         NEW cs \in CommitteeLists, NEW output \in Outputs, NEW delegate \in Delegations,
         NEW compound \in Compounding, Stake(v, signer, n, cs, output, delegate, compound)
  PROVE  LedgerInv'
<1> DEFINE after == [committees |-> cs, output |-> output, delegate |-> delegate,
                     compound |-> compound, maxPausedHeight |-> 0, unstakingHeight |-> 0]
<1>1. BalanceTypes /\ SupplyType /\ validators \in [Operators -> Validator \cup {Nil}]
  BY DEF LedgerInv, StakingInv, StakingTypeOK
<1>2. n \in Nat /\ after \in Validator /\ after # Nil /\ delegate \in BOOLEAN
  BY InputAssumption, AddressAssumption DEF Validator
<1>3. /\ Deliver /\ Untouched /\ validators[v] = Nil /\ Spend(signer, n)
      /\ accounts' = [accounts EXCEPT ![signer] = @ - Fee - n]
      /\ supply' = SupplyAfterStake(after, 0, cs, n)
      /\ validators' = [validators EXCEPT ![v] = after]
      /\ stakedAmount' = [stakedAmount EXCEPT ![v] = n]
  BY DEF Stake, Untouched, byzantine, rewards, chain
<1>4. stakedAmount[v] = 0 /\ stakedAmount \in [Operators -> Nat]
  BY <1>1, <1>3 DEF LedgerInv, DelegatesCovered, BalanceTypes
<1>5. /\ after.committees = cs /\ after.delegate = delegate
  OBVIOUS
<1> HIDE DEF after
<1>6. /\ SupplyType' /\ supply'.total = supply.total /\ supply'.staked = supply.staked + n
      /\ supply'.delegatedOnly = supply.delegatedOnly + (IF delegate THEN n ELSE 0)
      /\ \A c \in Chains :
           /\ supply'.committeeStaked[c] = supply.committeeStaked[c] + Moved(c, 0, cs, n, cs)
           /\ supply'.committeeDelegatedOnly[c]
                = supply.committeeDelegatedOnly[c] + (IF delegate THEN Moved(c, 0, cs, n, cs) ELSE 0)
  <2>1. PICK zero \in Nat, new \in Nat : zero = 0 /\ new = zero + n
    BY <1>2
  <2>4. new = n
    BY <1>2, <2>1
  <2>2. supply' = SupplyAfterStake(after, zero, cs, n)
    BY <1>3, <2>1
  <2>3. /\ SupplyType' /\ supply'.total = supply.total /\ supply'.staked = supply.staked + n
        /\ supply'.delegatedOnly = supply.delegatedOnly + (IF after.delegate THEN n ELSE 0)
        /\ \A c \in Chains :
             /\ supply'.committeeStaked[c] = supply.committeeStaked[c] + Moved(c, zero, after.committees, new, cs)
             /\ supply'.committeeDelegatedOnly[c]
                  = supply.committeeDelegatedOnly[c]
                      + (IF after.delegate THEN Moved(c, zero, after.committees, new, cs) ELSE 0)
    BY <1>1, <1>2, <2>1, <2>2, StakeSupply
  <2> QED
    BY <1>5, <2>1, <2>3, <2>4
<1>7. validators'[v] = after /\ stakedAmount'[v] = n
  BY <1>1, <1>3, <1>4
<1>8. /\ Delegated[v] = 0 /\ Delegated'[v] = IF delegate THEN n ELSE 0
      /\ \A c \in Chains : /\ Behind(c)[v] = 0 /\ Behind(c)'[v] = IF c \in cs THEN n ELSE 0
                           /\ DelegatedTo(c)[v] = 0
                           /\ DelegatedTo(c)'[v] = IF delegate /\ c \in cs THEN n ELSE 0
  BY <1>2, <1>3, <1>5, <1>7 DEF Delegated, DelegatedTo, Behind, BehindOf
<1>9. Restakes(v)
  <2>1. /\ supply.staked \in Int /\ supply.delegatedOnly \in Int
        /\ \A c \in Chains : supply.committeeStaked[c] \in Int /\ supply.committeeDelegatedOnly[c] \in Int
    BY <1>1 DEF SupplyType
  <2>2. stakedAmount' = [stakedAmount EXCEPT ![v] = stakedAmount'[v]]
    BY <1>3, <1>7
  <2>3. \A w \in Operators \ {v} : validators'[w] = validators[w]
    BY <1>1, <1>3
  <2>4. supply'.staked = supply.staked + (stakedAmount'[v] - stakedAmount[v])
    BY <1>2, <1>4, <1>6, <1>7, <2>1
  <2>5. supply'.delegatedOnly >= supply.delegatedOnly + (Delegated'[v] - Delegated[v])
    BY <1>2, <1>6, <1>8, <2>1
  <2>6. ASSUME NEW c \in Chains
        PROVE  supply'.committeeStaked[c] = supply.committeeStaked[c] + (Behind(c)'[v] - Behind(c)[v])
    BY <1>2, <1>6, <1>8, <2>1 DEF Moved
  <2>7. ASSUME NEW c \in Chains
        PROVE  supply'.committeeDelegatedOnly[c]
                 >= supply.committeeDelegatedOnly[c] + (DelegatedTo(c)'[v] - DelegatedTo(c)[v])
    BY <1>2, <1>6, <1>8, <2>1 DEF Moved
  <2> QED
    BY <1>2, <1>7, <2>2, <2>3, <2>4, <2>5, <2>6, <2>7 DEF Restakes
<1>10. stakedAmount' = [stakedAmount EXCEPT ![v] = stakedAmount[v] + n]
  <2>1. stakedAmount[v] + n = n
    BY <1>2, <1>4
  <2> QED
    BY <1>3, <2>1
<1> QED
  BY <1>2, <1>3, <1>6, <1>9, <1>10, RestakeInv

\* HandleMessageEditStake: the stake moves to the new committees and may grow.
LEMMA EditStakeInv ==
  ASSUME LedgerInv, StakingInv', NEW v \in Operators, NEW signer \in Addresses, NEW n \in Amounts,
         NEW cs \in CommitteeLists, NEW output \in Outputs, NEW compound \in Compounding,
         EditStake(v, signer, n, cs, output, compound)
  PROVE  LedgerInv'
<1> DEFINE val == validators[v]
           after == [val EXCEPT !.committees = cs, !.output = output, !.compound = compound]
<1>1. BalanceTypes /\ SupplyType /\ validators \in [Operators -> Validator \cup {Nil}]
  BY DEF LedgerInv, StakingInv, StakingTypeOK
<1>2. stakedAmount \in [Operators -> Nat] /\ stakedAmount[v] \in Nat /\ n \in Nat
  BY <1>1, InputAssumption DEF BalanceTypes
<1>3. PICK added \in Nat : added = IF n <= stakedAmount[v] THEN 0 ELSE n - stakedAmount[v]
  BY <1>2
<1>4. /\ Deliver /\ Untouched /\ val # Nil /\ Spend(signer, added)
      /\ accounts' = [accounts EXCEPT ![signer] = @ - Fee - added]
      /\ supply' = SupplyAfterStake(val, stakedAmount[v], cs, added)
      /\ validators' = [validators EXCEPT ![v] = after]
      /\ stakedAmount' = [stakedAmount EXCEPT ![v] = stakedAmount[v] + added]
  BY <1>3 DEF EditStake, Untouched, byzantine, rewards, chain
<1>5. val \in Validator /\ Nil \notin Validator
  BY <1>1, <1>4, AddressAssumption
<1>6. after.committees = cs
  BY <1>5 DEF Validator
<1>7. after.delegate = val.delegate
  BY <1>5 DEF Validator
<1>8. val.delegate \in BOOLEAN
  BY <1>5 DEF Validator
<1>9. PICK new \in Nat :
        /\ new = stakedAmount[v] + added
        /\ SupplyType' /\ supply'.total = supply.total /\ supply'.staked = supply.staked + added
        /\ supply'.delegatedOnly = supply.delegatedOnly + (IF val.delegate THEN added ELSE 0)
        /\ \A c \in Chains :
             LET more == Moved(c, stakedAmount[v], val.committees, new, cs)
             IN  /\ supply'.committeeStaked[c] = supply.committeeStaked[c] + more
                 /\ supply'.committeeDelegatedOnly[c]
                      = supply.committeeDelegatedOnly[c] + (IF val.delegate THEN more ELSE 0)
  <2>1. PICK new \in Nat : new = stakedAmount[v] + added
    BY <1>2
  <2> QED
    BY <1>1, <1>2, <1>4, <2>1, StakeSupply
<1>10. validators'[v] = after /\ stakedAmount'[v] = stakedAmount[v] + added
  BY <1>1, <1>2, <1>4
<1>11. after \in Validator
  <2>1. val \in Validator
    BY <1>5
  <2> QED
    BY <2>1, InputAssumption DEF Validator
<1>12. /\ Delegated[v] = (IF val.delegate THEN stakedAmount[v] ELSE 0)
       /\ Delegated'[v] = (IF val.delegate THEN new ELSE 0)
  BY <1>4, <1>5, <1>7, <1>9, <1>10, <1>11 DEF Delegated
<1>13. ASSUME NEW c \in Chains
       PROVE  /\ Behind(c)[v] = (IF c \in val.committees THEN stakedAmount[v] ELSE 0)
              /\ Behind(c)'[v] = (IF c \in cs THEN new ELSE 0)
              /\ DelegatedTo(c)[v] = (IF val.delegate /\ c \in val.committees THEN stakedAmount[v] ELSE 0)
              /\ DelegatedTo(c)'[v] = (IF val.delegate /\ c \in cs THEN new ELSE 0)
  BY <1>4, <1>5, <1>6, <1>7, <1>9, <1>10, <1>11 DEF DelegatedTo, Behind, BehindOf
<1> HIDE DEF after, val
<1>14. Restakes(v)
  <2>1. /\ supply.staked \in Int /\ supply.delegatedOnly \in Int
        /\ \A c \in Chains : supply.committeeStaked[c] \in Int /\ supply.committeeDelegatedOnly[c] \in Int
    BY <1>1 DEF SupplyType
  <2>2. stakedAmount' = [stakedAmount EXCEPT ![v] = stakedAmount'[v]]
    BY <1>4, <1>10
  <2>3. \A w \in Operators \ {v} : validators'[w] = validators[w]
    BY <1>1, <1>4
  <2>4. supply'.staked = supply.staked + (stakedAmount'[v] - stakedAmount[v])
    BY <1>2, <1>9, <1>10, <2>1
  <2>5. supply'.delegatedOnly >= supply.delegatedOnly + (Delegated'[v] - Delegated[v])
    BY <1>2, <1>9, <1>12, <2>1
  <2>6. ASSUME NEW c \in Chains
        PROVE  supply'.committeeStaked[c] = supply.committeeStaked[c] + (Behind(c)'[v] - Behind(c)[v])
    BY <1>2, <1>9, <1>13, <2>1 DEF Moved
  <2>7. ASSUME NEW c \in Chains
        PROVE  supply'.committeeDelegatedOnly[c]
                 >= supply.committeeDelegatedOnly[c] + (DelegatedTo(c)'[v] - DelegatedTo(c)[v])
    BY <1>2, <1>9, <1>13, <2>1 DEF Moved
  <2> QED
    BY <1>5, <1>10, <1>11, <2>2, <2>3, <2>4, <2>5, <2>6, <2>7 DEF Restakes
<1> QED
  BY <1>3, <1>4, <1>9, <1>14, RestakeInv

-----------------------------------------------------------------------------
(***************************************************************************)
(* Slashes, and the return of a stake.                                     *)
(***************************************************************************)

\* The supply tracker after DeleteValidator, field by field.
LEMMA DeleteSupply ==
  ASSUME SupplyType, NEW val, NEW stake \in Nat, NEW S, S = SupplyAfterDelete(val, stake)
  PROVE  /\ S \in [total : Int, staked : Int, delegatedOnly : Int,
                   committeeStaked : [Chains -> Int], committeeDelegatedOnly : [Chains -> Int]]
         /\ S.total = supply.total /\ S.staked = supply.staked - stake
         /\ S.delegatedOnly = supply.delegatedOnly - (IF val.delegate THEN stake ELSE 0)
         /\ \A c \in Chains :
              /\ S.committeeStaked[c]
                   = supply.committeeStaked[c] - (IF c \in val.committees THEN stake ELSE 0)
              /\ S.committeeDelegatedOnly[c]
                   = supply.committeeDelegatedOnly[c]
                       - (IF val.delegate /\ c \in val.committees THEN stake ELSE 0)
<1>1. /\ supply.total \in Int /\ supply.staked \in Int /\ supply.delegatedOnly \in Int
      /\ supply.committeeStaked \in [Chains -> Int] /\ supply.committeeDelegatedOnly \in [Chains -> Int]
  BY DEF SupplyType
<1>3. PICK f \in [Chains -> Int] :
         /\ f = Recommitted(supply.committeeStaked, stake, val.committees, 0, {})
         /\ \A c \in Chains : f[c] = supply.committeeStaked[c] - (IF c \in val.committees THEN stake ELSE 0)
  <2>1. PICK old \in [Chains -> Int] : old = supply.committeeStaked
    BY <1>1
  <2>2. /\ Recommitted(old, stake, val.committees, 0, {}) \in [Chains -> Int]
        /\ \A c \in Chains : Recommitted(old, stake, val.committees, 0, {})[c]
              = old[c] - (IF c \in val.committees THEN stake ELSE 0)
    BY DEF Recommitted
  <2> QED
    BY <2>1, <2>2
<1>4. PICK g \in [Chains -> Int] :
         /\ g = IF val.delegate
                THEN Recommitted(supply.committeeDelegatedOnly, stake, val.committees, 0, {})
                ELSE supply.committeeDelegatedOnly
         /\ \A c \in Chains : g[c] = supply.committeeDelegatedOnly[c]
              - (IF val.delegate /\ c \in val.committees THEN stake ELSE 0)
  <2>1. PICK old \in [Chains -> Int] : old = supply.committeeDelegatedOnly
    BY <1>1
  <2>2. /\ Recommitted(old, stake, val.committees, 0, {}) \in [Chains -> Int]
        /\ \A c \in Chains : Recommitted(old, stake, val.committees, 0, {})[c]
              = old[c] - (IF c \in val.committees THEN stake ELSE 0)
    BY DEF Recommitted
  <2>3. CASE val.delegate
    BY <2>1, <2>2, <2>3
  <2>4. CASE ~val.delegate
    BY <1>1, <2>4
  <2> QED
    BY <2>3, <2>4
<1>5. PICK s \in Int, d \in Int : /\ s = supply.staked - stake
                                  /\ d = supply.delegatedOnly - (IF val.delegate THEN stake ELSE 0)
  BY <1>1
<1>6. S = [supply EXCEPT !.staked = s, !.delegatedOnly = d, !.committeeStaked = f,
                         !.committeeDelegatedOnly = g]
  <2>1. S = [supply EXCEPT
          !.staked = supply.staked - stake,
          !.delegatedOnly = IF val.delegate THEN supply.delegatedOnly - stake ELSE supply.delegatedOnly,
          !.committeeStaked = Recommitted(supply.committeeStaked, stake, val.committees, 0, {}),
          !.committeeDelegatedOnly =
             IF val.delegate
             THEN Recommitted(supply.committeeDelegatedOnly, stake, val.committees, 0, {})
             ELSE supply.committeeDelegatedOnly]
    BY DEF SupplyAfterDelete, SupplyType
  <2>2. d = IF val.delegate THEN supply.delegatedOnly - stake ELSE supply.delegatedOnly
    BY <1>1, <1>5
  <2> QED
    BY <1>3, <1>4, <1>5, <2>1, <2>2
<1>7. /\ S.total = supply.total /\ S.staked = s /\ S.delegatedOnly = d
      /\ S.committeeStaked = f /\ S.committeeDelegatedOnly = g
  BY <1>6 DEF SupplyType
<1>8. S \in [total : Int, staked : Int, delegatedOnly : Int,
             committeeStaked : [Chains -> Int], committeeDelegatedOnly : [Chains -> Int]]
  BY <1>6 DEF SupplyType
<1> QED
  BY <1>3, <1>4, <1>5, <1>7, <1>8

\* The record of v is deleted, and the tracker follows.
LEMMA DeletedRestakes ==
  ASSUME LedgerInv, NEW v \in Operators, validators[v] # Nil,
         validators' = [validators EXCEPT ![v] = Nil], stakedAmount' = [stakedAmount EXCEPT ![v] = 0],
         NEW S, S = SupplyAfterDelete(validators[v], stakedAmount[v]),
         supply'.staked = S.staked, supply'.delegatedOnly = S.delegatedOnly,
         supply'.committeeStaked = S.committeeStaked,
         supply'.committeeDelegatedOnly = S.committeeDelegatedOnly
  PROVE  Restakes(v)
<1> DEFINE val == validators[v]
<1>1. /\ SupplyType /\ stakedAmount \in [Operators -> Nat] /\ stakedAmount[v] \in Nat
      /\ validators \in [Operators -> Validator \cup {Nil}]
  BY DEF LedgerInv, StakingInv, StakingTypeOK, BalanceTypes
<1>2. /\ S.staked = supply.staked - stakedAmount[v]
      /\ S.delegatedOnly = supply.delegatedOnly - (IF val.delegate THEN stakedAmount[v] ELSE 0)
      /\ \A c \in Chains :
           /\ S.committeeStaked[c]
                = supply.committeeStaked[c] - (IF c \in val.committees THEN stakedAmount[v] ELSE 0)
           /\ S.committeeDelegatedOnly[c]
                = supply.committeeDelegatedOnly[c]
                    - (IF val.delegate /\ c \in val.committees THEN stakedAmount[v] ELSE 0)
  BY <1>1, DeleteSupply
<1>3. validators'[v] = Nil /\ stakedAmount'[v] = 0
  BY <1>1
<1>4. /\ Delegated[v] = (IF val.delegate THEN stakedAmount[v] ELSE 0)
      /\ Delegated'[v] = 0
  BY <1>3 DEF Delegated
<1>5. ASSUME NEW c \in Chains
      PROVE  /\ Behind(c)[v] = (IF c \in val.committees THEN stakedAmount[v] ELSE 0)
             /\ Behind(c)'[v] = 0
             /\ DelegatedTo(c)[v] = (IF val.delegate /\ c \in val.committees THEN stakedAmount[v] ELSE 0)
             /\ DelegatedTo(c)'[v] = 0
  BY <1>3 DEF DelegatedTo, Behind, BehindOf
<1> HIDE DEF val
<1>6. /\ supply.staked \in Int /\ supply.delegatedOnly \in Int
      /\ \A c \in Chains : supply.committeeStaked[c] \in Int /\ supply.committeeDelegatedOnly[c] \in Int
  BY <1>1 DEF SupplyType
<1>7. stakedAmount' = [stakedAmount EXCEPT ![v] = stakedAmount'[v]]
  BY <1>3
<1>8. \A w \in Operators \ {v} : validators'[w] = validators[w]
  BY <1>1
<1>9. supply'.staked = supply.staked + (stakedAmount'[v] - stakedAmount[v])
  BY <1>1, <1>2, <1>3, <1>6
<1>10. supply'.delegatedOnly >= supply.delegatedOnly + (Delegated'[v] - Delegated[v])
  BY <1>1, <1>2, <1>4, <1>6
<1>11. ASSUME NEW c \in Chains
      PROVE  supply'.committeeStaked[c] = supply.committeeStaked[c] + (Behind(c)'[v] - Behind(c)[v])
  BY <1>1, <1>2, <1>5, <1>6
<1>12. ASSUME NEW c \in Chains
      PROVE  supply'.committeeDelegatedOnly[c]
               >= supply.committeeDelegatedOnly[c] + (DelegatedTo(c)'[v] - DelegatedTo(c)[v])
  BY <1>1, <1>2, <1>5, <1>6
<1> QED
  BY <1>3, <1>7, <1>8, <1>9, <1>10, <1>11, <1>12 DEF Restakes

\* Steps that burn or return the stake of v, and change no other balance than an account.
LEMMA StakeLeaves ==
  ASSUME LedgerInv, StakingInv', SupplyType', NEW v \in Operators, Restakes(v),
         UNCHANGED <<pools, nonSigners, doubleSigners, committeeData, payouts, paid, height, phase, committees>>,
         accounts' \in [Addresses -> Nat], stakedAmount' \in [Operators -> Nat],
         NEW dA, NEW dS, NEW dT, dA \in Int, dT \in Int, dS = stakedAmount'[v] - stakedAmount[v],
         SumFunction(accounts') = SumFunction(accounts) + dA,
         supply'.total = supply.total + dT, dT = dA + dS
  PROVE  LedgerInv'
<1>1. BalanceTypes
  BY DEF LedgerInv
<1>2. BalanceTypes'
  BY <1>1 DEF BalanceTypes, CommitteesTyped
<1>3. RewardsCovered' /\ PayoutsCovered'
  BY SameRewards
<1>4. /\ StakedSupplyTracked' /\ DelegatesCovered'
      /\ SumFunction(stakedAmount') = SumFunction(stakedAmount) + dS
  BY <1>2, OneStake
<1>5. dS \in Int
  BY <1>1 DEF BalanceTypes
<1>6. Moves(dA, 0, dS, 0, dT)
  BY <1>1, <1>4, <1>5, Still DEF Moves
<1>7. dT + 0 = dA + 0 + dS
  BY <1>5
<1>8. SupplyConserved'
  BY <1>6, <1>7, ConservedBy
<1> QED
  BY <1>2, <1>3, <1>4, <1>8 DEF LedgerInv

\* A slash burns a part of the stake, or all of it with the record.
LEMMA SlashInv ==
  ASSUME LedgerInv, StakingInv', NEW v \in Operators, NEW percent \in Nat, SlashValidator(v, percent),
         UNCHANGED <<balances, nonSigners, doubleSigners, committeeData, rewards, chain>>
  PROVE  LedgerInv'
<1> DEFINE c0 == pending.chain
           val == validators[v]
<1>1. /\ StakingInv /\ BalanceTypes /\ SupplyType /\ stakedAmount \in [Operators -> Nat]
      /\ validators \in [Operators -> Validator \cup {Nil}] /\ c0 \in Chains
      /\ slashTracker[v][c0] \in Nat /\ Params.maxSlash \in Nat
  BY ParamsAssumption DEF LedgerInv, StakingInv, StakingTypeOK, BalanceTypes
<1>2. UNCHANGED <<accounts, pools, nonSigners, doubleSigners, committeeData, payouts, paid, height, phase,
                  committees>>
  BY DEF balances, rewards, chain
<1>3. SumFunction(accounts') = SumFunction(accounts) + 0 /\ accounts' \in [Addresses -> Nat]
  BY <1>1, <1>2, Still DEF BalanceTypes
<1>4. CASE SlashAway(v, c0, percent)
  <2>1. val # Nil
    BY <1>4 DEF SlashAway, Spared
  <2>2. PICK S : S = SupplyAfterDelete(val, stakedAmount[v])
    OBVIOUS
  <2>3. /\ S \in [total : Int, staked : Int, delegatedOnly : Int,
                  committeeStaked : [Chains -> Int], committeeDelegatedOnly : [Chains -> Int]]
        /\ S.total = supply.total
    BY <1>1, <2>2, DeleteSupply
  <2>4. /\ supply' = [S EXCEPT !.total = S.total - stakedAmount[v]]
        /\ validators' = [validators EXCEPT ![v] = Nil]
        /\ stakedAmount' = [stakedAmount EXCEPT ![v] = 0]
    BY <1>4, <2>2, <2>3 DEF SlashAway
  <2>5. /\ supply'.total = S.total - stakedAmount[v]
        /\ supply'.staked = S.staked /\ supply'.delegatedOnly = S.delegatedOnly
        /\ supply'.committeeStaked = S.committeeStaked
        /\ supply'.committeeDelegatedOnly = S.committeeDelegatedOnly
    BY <2>3, <2>4
  <2>6. Restakes(v)
    BY <2>1, <2>2, <2>4, <2>5, DeletedRestakes
  <2>7. SupplyType'
    BY <1>1, <2>3, <2>4 DEF SupplyType
  <2>8. stakedAmount' \in [Operators -> Nat] /\ stakedAmount'[v] = 0 /\ stakedAmount[v] \in Nat
    BY <1>1, <2>4
  <2>9. PICK d \in Int : d = stakedAmount'[v] - stakedAmount[v]
    BY <2>8
  <2>10. supply'.total = supply.total + d /\ d = 0 + d
    BY <1>1, <2>3, <2>5, <2>8, <2>9 DEF SupplyType
  <2> QED
    BY <1>2, <1>3, <2>6, <2>7, <2>8, <2>9, <2>10, StakeLeaves
<1>5. CASE SlashPart(v, c0, percent)
  <2>1. val # Nil /\ ~Spared(v, c0) /\ val \in Validator
    BY <1>1, <1>5 DEF SlashPart, Spared
  <2>2. SlashPercent(v, c0, percent) \in Nat
    BY <1>1, <2>1 DEF SlashPercent, AtLimit, Spared
  <2>3. PICK after \in Nat : after = StakeAfterSlash(v, c0, percent) /\ after <= stakedAmount[v]
    BY <1>1, <2>2, Reduced DEF StakeAfterSlash
  <2>4. PICK cs \in SUBSET Chains : cs = CommitteesAfterSlash(v, c0, percent) /\ cs \subseteq val.committees
    BY <2>1 DEF CommitteesAfterSlash, Validator
  <2>5. PICK r \in Validator : validators' = [validators EXCEPT ![v] = r]
                               /\ r.committees = cs /\ r.delegate = val.delegate
    <3> DEFINE slashed == [val EXCEPT !.committees = cs]
               finish == height + UnstakingBlocks(val)
    <3>1. slashed \in Validator /\ slashed.committees = cs /\ slashed.delegate = val.delegate
      BY <2>1, <2>4 DEF Validator
    <3>2. finish \in Nat
      BY <1>1, ParamsAssumption DEF UnstakingBlocks, StakingInv, StakingTypeOK
    <3>3. \/ validators' = [validators EXCEPT ![v] = slashed]
          \/ validators' = [validators EXCEPT ![v] = Unstaking(slashed, finish)]
      BY <1>5, <2>4 DEF SlashPart
    <3> HIDE DEF slashed, finish
    <3>4. Unstaking(slashed, finish) \in Validator
      BY <3>1, <3>2 DEF Unstaking, Validator
    <3>5. Unstaking(slashed, finish).committees = slashed.committees
      BY <3>1, <3>2 DEF Unstaking, Validator
    <3>6. Unstaking(slashed, finish).delegate = slashed.delegate
      BY <3>1, <3>2 DEF Unstaking, Validator
    <3> QED
      BY <3>1, <3>3, <3>4, <3>5, <3>6
  <2>6. /\ supply' = [supply EXCEPT
             !.total = @ - (stakedAmount[v] - after), !.staked = @ - (stakedAmount[v] - after),
             !.committeeStaked = Recommitted(@, stakedAmount[v], val.committees, after, cs)]
        /\ stakedAmount' = [stakedAmount EXCEPT ![v] = after]
    <3>1. [val EXCEPT !.committees = cs].committees = cs
      BY <2>1 DEF Validator
    <3> QED
      BY <1>5, <2>3, <2>4, <3>1 DEF SlashPart
  <2>7. stakedAmount' \in [Operators -> Nat] /\ stakedAmount'[v] = after /\ stakedAmount[v] \in Nat
    BY <1>1, <2>6
  <2>8. PICK d \in Int : d = after - stakedAmount[v]
    BY <2>7
  <2>9. PICK f \in [Chains -> Int] :
          /\ f = Recommitted(supply.committeeStaked, stakedAmount[v], val.committees, after, cs)
          /\ \A c \in Chains : f[c] = supply.committeeStaked[c]
               + ((IF c \in cs THEN after ELSE 0) - (IF c \in val.committees THEN stakedAmount[v] ELSE 0))
    <3>1. PICK old \in [Chains -> Int], stake \in Nat, oldCs \in {val.committees} :
             old = supply.committeeStaked /\ stake = stakedAmount[v] /\ oldCs = val.committees
      BY <1>1, <2>7 DEF SupplyType
    <3>2. /\ Recommitted(old, stake, oldCs, after, cs) \in [Chains -> Int]
          /\ \A c \in Chains : Recommitted(old, stake, oldCs, after, cs)[c]
               = old[c] + ((IF c \in cs THEN after ELSE 0) - (IF c \in oldCs THEN stake ELSE 0))
      BY DEF Recommitted
    <3> QED
      BY <3>1, <3>2
  <2>10. supply' = [supply EXCEPT !.total = supply.total + d, !.staked = supply.staked + d,
                                  !.committeeStaked = f]
    <3>1. /\ supply.total - (stakedAmount[v] - after) = supply.total + d
          /\ supply.staked - (stakedAmount[v] - after) = supply.staked + d
      BY <1>1, <2>7, <2>8 DEF SupplyType
    <3>2. supply' = [supply EXCEPT
             !.total = supply.total - (stakedAmount[v] - after),
             !.staked = supply.staked - (stakedAmount[v] - after),
             !.committeeStaked = Recommitted(supply.committeeStaked, stakedAmount[v], val.committees, after, cs)]
      BY <1>1, <2>6 DEF SupplyType
    <3> QED
      BY <2>9, <3>1, <3>2
  <2>11. SupplyType' /\ supply'.total = supply.total + d /\ supply'.staked = supply.staked + d
         /\ supply'.committeeStaked = f
    <3>1. PICK x \in Int, y \in Int : x = supply.total + d /\ y = supply.staked + d
      BY <1>1 DEF SupplyType
    <3>2. supply' = [supply EXCEPT !.total = x, !.staked = y, !.committeeStaked = f]
      BY <2>10, <3>1
    <3>3. SupplyType'
      BY <1>1, <3>2 DEF SupplyType
    <3>4. supply'.total = x /\ supply'.staked = y /\ supply'.committeeStaked = f
      BY <1>1, <3>2 DEF SupplyType
    <3> QED
      BY <3>1, <3>3, <3>4
  <2>12. /\ supply'.delegatedOnly = supply.delegatedOnly
         /\ supply'.committeeDelegatedOnly = supply.committeeDelegatedOnly
    BY <1>1, <2>10 DEF SupplyType
  <2>13. Restakes(v)
    <3>1. validators'[v] = r /\ r # Nil
      BY <1>1, <2>5, AddressAssumption
    <3>2. /\ Delegated[v] = (IF val.delegate THEN stakedAmount[v] ELSE 0)
          /\ Delegated'[v] = (IF val.delegate THEN after ELSE 0)
      BY <2>1, <2>5, <2>7, <3>1 DEF Delegated
    <3>3. ASSUME NEW c \in Chains
          PROVE  /\ Behind(c)[v] = (IF c \in val.committees THEN stakedAmount[v] ELSE 0)
                 /\ Behind(c)'[v] = (IF c \in cs THEN after ELSE 0)
                 /\ DelegatedTo(c)[v] = (IF val.delegate /\ c \in val.committees THEN stakedAmount[v] ELSE 0)
                 /\ DelegatedTo(c)'[v] = (IF val.delegate /\ c \in cs THEN after ELSE 0)
      BY <2>1, <2>5, <2>7, <3>1 DEF DelegatedTo, Behind, BehindOf
    <3>4. /\ supply.staked \in Int /\ supply.delegatedOnly \in Int
          /\ \A c \in Chains : supply.committeeStaked[c] \in Int /\ supply.committeeDelegatedOnly[c] \in Int
      BY <1>1 DEF SupplyType
    <3> HIDE DEF val
    <3>5. stakedAmount' = [stakedAmount EXCEPT ![v] = stakedAmount'[v]]
      BY <2>6, <2>7
    <3>6. \A w \in Operators \ {v} : validators'[w] = validators[w]
      BY <1>1, <2>5
    <3>7. supply'.staked = supply.staked + (stakedAmount'[v] - stakedAmount[v])
      BY <2>7, <2>8, <2>11
    <3>8. supply'.delegatedOnly >= supply.delegatedOnly + (Delegated'[v] - Delegated[v])
      BY <2>3, <2>7, <2>12, <3>2, <3>4
    <3>9. ASSUME NEW c \in Chains
          PROVE  supply'.committeeStaked[c] = supply.committeeStaked[c] + (Behind(c)'[v] - Behind(c)[v])
      BY <2>7, <2>9, <2>11, <3>3, <3>4
    <3>10. ASSUME NEW c \in Chains
           PROVE  supply'.committeeDelegatedOnly[c]
                    >= supply.committeeDelegatedOnly[c] + (DelegatedTo(c)'[v] - DelegatedTo(c)[v])
      BY <2>3, <2>4, <2>7, <2>12, <3>3, <3>4
    <3> QED
      BY <3>1, <3>5, <3>6, <3>7, <3>8, <3>9, <3>10 DEF Restakes
  <2>14. d = stakedAmount'[v] - stakedAmount[v] /\ d = 0 + d
    BY <2>7, <2>8
  <2> QED
    BY <1>2, <1>3, <2>7, <2>11, <2>13, <2>14, StakeLeaves
<1>6. CASE Spared(v, c0) /\ UNCHANGED <<stakes, slashTracker>>
  <2>1. UNCHANGED <<validators, stakedAmount, supply>>
    BY <1>6 DEF stakes
  <2>2. BalanceTypes' /\ SupplyType'
    BY <1>1, <1>2, <2>1 DEF BalanceTypes, CommitteesTyped, SupplyType
  <2>3. RewardsCovered' /\ PayoutsCovered'
    BY <1>2, SameRewards
  <2>4. SameStakes
    BY <2>1 DEF SameStakes
  <2>5. StakedSupplyTracked' /\ DelegatesCovered'
    BY <2>4, NoStake
  <2>6. SupplyConserved'
    BY <1>2, <2>1 DEF LedgerInv, SupplyConserved
  <2> QED
    BY <2>2, <2>3, <2>5, <2>6 DEF LedgerInv
<1> QED
  BY <1>4, <1>5, <1>6 DEF SlashValidator

\* DeleteFinishedUnstaking returns the stake to the output address.
LEMMA ReleaseInv ==
  ASSUME LedgerInv, StakingInv', NEW v \in Operators, DeleteFinishedUnstaking(v)
  PROVE  LedgerInv'
<1> DEFINE val == validators[v]
<1>1. /\ BalanceTypes /\ SupplyType /\ stakedAmount \in [Operators -> Nat] /\ stakedAmount[v] \in Nat
      /\ validators \in [Operators -> Validator \cup {Nil}]
  BY DEF LedgerInv, StakingInv, StakingTypeOK, BalanceTypes
<1>2. /\ val # Nil
      /\ accounts' = [accounts EXCEPT ![val.output] = @ + stakedAmount[v]]
      /\ supply' = SupplyAfterDelete(val, stakedAmount[v])
      /\ validators' = [validators EXCEPT ![v] = Nil]
      /\ stakedAmount' = [stakedAmount EXCEPT ![v] = 0]
      /\ UNCHANGED <<pools, nonSigners, doubleSigners, committeeData, payouts, paid, height, phase, committees>>
  BY DEF DeleteFinishedUnstaking, byzantine, rewards, chain
<1>3. PICK S : S = SupplyAfterDelete(val, stakedAmount[v])
  OBVIOUS
<1>4. SupplyType' /\ supply' = S /\ S.total = supply.total /\ supply.total \in Int
  BY <1>1, <1>2, <1>3, DeleteSupply DEF SupplyType
<1>5. Restakes(v)
  BY <1>2, <1>3, <1>4, DeletedRestakes
<1>6. PICK out \in Addresses : out = val.output
  BY <1>1, <1>2 DEF Validator
<1>7. PICK m \in Int : m = stakedAmount[v] /\ accounts[out] + m >= 0
  BY <1>1 DEF BalanceTypes
<1>8. accounts' \in [Addresses -> Nat] /\ SumFunction(accounts') = SumFunction(accounts) + m
  BY <1>1, <1>2, <1>6, <1>7, AccountMoves
<1>9. stakedAmount' \in [Operators -> Nat] /\ stakedAmount'[v] = 0
  BY <1>1, <1>2
<1>10. PICK d \in Int, zero \in Int : d = stakedAmount'[v] - stakedAmount[v] /\ zero = 0
  BY <1>1, <1>9
<1>11. supply'.total = supply.total + zero /\ zero = m + d
  BY <1>1, <1>4, <1>7, <1>9, <1>10
<1> QED
  BY <1>2, <1>4, <1>5, <1>8, <1>9, <1>10, <1>11, StakeLeaves

-----------------------------------------------------------------------------
(***************************************************************************)
(* Certificate results, and what a block mints.                            *)
(***************************************************************************)

\* A power of two, as the number of subsets of an interval.
LEMMA PowerOfTwo == ASSUME NEW n \in Nat PROVE 2^n \in Nat /\ 2^n > 0
<1>1. IsFiniteSet(1 .. n) /\ Cardinality(1 .. n) = n
  BY FS_Interval
<1>2. IsFiniteSet(SUBSET (1 .. n)) /\ Cardinality(SUBSET (1 .. n)) = 2^n
  BY <1>1, FS_SUBSET
<1>3. SUBSET (1 .. n) # {}
  OBVIOUS
<1>4. Cardinality(SUBSET (1 .. n)) \in Nat /\ Cardinality(SUBSET (1 .. n)) # 0
  BY <1>2, <1>3, FS_CardinalityType, FS_EmptySet
<1>5. PICK k \in Nat : k = Cardinality(SUBSET (1 .. n)) /\ k # 0
  BY <1>4
<1> QED
  BY <1>2, <1>5

\* A quotient of natural numbers.
LEMMA Quotient ==
  ASSUME NEW n \in Nat, NEW k \in Nat, k > 0
  PROVE  n \div k \in Nat
OBVIOUS

\* FundCommitteeRewardPools mints natural numbers.
LEMMA MintType == ASSUME LedgerInv PROVE BlockMint \in [Pools -> Nat]
<1>1. height \in Nat
  BY DEF LedgerInv, StakingInv, StakingTypeOK
<1>2. PICK halvings \in Nat : halvings = height \div Params.blocksPerHalvening
  <2>1. Params.blocksPerHalvening \in Nat /\ Params.blocksPerHalvening > 0
    BY ParamsAssumption
  <2> QED
    BY <1>1, <2>1, Quotient
<1>3. PICK divisor \in Nat : divisor = 2^halvings /\ divisor > 0
  BY PowerOfTwo
<1>4. PICK total \in Nat : total = Params.tokensPerBlock \div 2^(height \div Params.blocksPerHalvening)
  <2>1. Params.tokensPerBlock \in Nat
    BY ParamsAssumption
  <2>2. Params.tokensPerBlock \div divisor \in Nat
    BY <1>3, <2>1, Quotient
  <2> QED
    BY <1>2, <1>3, <2>2
<1>5. PICK afterDAO \in Nat : afterDAO = ReducePercentage(total, Params.daoPercent) /\ afterDAO <= total
  <2>1. Params.daoPercent \in Nat
    BY ParamsAssumption
  <2>2. ReducePercentage(total, Params.daoPercent) \in Nat /\ ReducePercentage(total, Params.daoPercent) <= total
    BY <2>1, Reduced
  <2> QED
    BY <2>2
<1>6. PICK n \in Nat : n = Cardinality(SubsidizedCommittees) /\ n > 0
  <2>1. SubsidizedCommittees \subseteq Chains /\ Self \in SubsidizedCommittees
    BY Finite DEF SubsidizedCommittees
  <2>2. IsFiniteSet(SubsidizedCommittees)
    BY <2>1, Finite, FS_Subset
  <2>3. Cardinality(SubsidizedCommittees) \in Nat /\ Cardinality(SubsidizedCommittees) # 0
    BY <2>1, <2>2, FS_CardinalityType, FS_EmptySet
  <2> QED
    BY <2>3
<1>7. PICK share \in Nat : share = afterDAO \div Cardinality(SubsidizedCommittees)
  BY <1>6, Quotient
<1>8. total - afterDAO \in Nat
  BY <1>5
<1>9. BlockMint = [p \in Pools |-> CASE p = DAO -> total - afterDAO
                                     [] p \in SubsidizedCommittees -> share
                                     [] OTHER -> 0]
  BY <1>4, <1>5, <1>7 DEF BlockMint
<1> QED
  BY <1>8, <1>9

\* A percentage of a whole.
LEMMA PercentType ==
  ASSUME NEW n \in Nat, NEW k \in Nat
  PROVE  PercentageDiv(n, k) \in Nat
<1>1. CASE k = 0
  BY <1>1 DEF PercentageDiv
<1>2. CASE k # 0
  <2>1. PICK m \in Nat : m = n * 100
    OBVIOUS
  <2>2. m \div k \in Nat
    BY <1>2, Quotient
  <2> QED
    BY <1>2, <2>1, <2>2 DEF PercentageDiv
<1> QED
  BY <1>1, <1>2

\* What certificates bring.
LEMMA CertificateType ==
  ASSUME NEW c, NEW heights \in SUBSET Nat, NEW rootHeight \in Nat,
         NEW qc \in Certificates(c, heights, rootHeight)
  PROVE  /\ qc.height \in Nat /\ qc.rootHeight \in Nat /\ qc.checkpoint \in Nat /\ qc.retired \in BOOLEAN
         /\ qc.payments \in [Addresses -> 0 .. 100] /\ SumFunction(qc.payments) <= 100
         /\ qc.doubleSigners \subseteq Operators \X Nat
<1>1. qc.doubleSigners \subseteq Operators \X Nat
  BY EvidenceType
<1>2. /\ qc.height \in heights /\ qc.rootHeight = rootHeight /\ qc.checkpoint \in Checkpoints
      /\ qc.retired \in Retirements /\ qc.payments \in Payments
  BY DEF Certificates
<1> QED
  BY <1>1, <1>2, InputAssumption

\* HandleCertificateResults: the payments of one more sample, counters and pauses.
LEMMA ResultsData ==
  ASSUME LedgerInv, NEW c \in Chains, NEW heights \in SUBSET Nat, NEW rootHeight \in Nat,
         NEW qc \in Certificates(c, heights, rootHeight), NEW power \in [Operators -> Nat],
         HandleCertificateResults(c, qc, power)
  PROVE  /\ committeeData' \in [Chains -> Data]
         /\ \A d \in Chains : SumFunction(committeeData'[d].payments) <= 100 * committeeData'[d].samples
<1>1. BalanceTypes /\ RewardsCovered /\ committeeData \in [Chains -> Data] /\ committeeData[c] \in Data
  BY DEF LedgerInv, BalanceTypes
<1>2. /\ qc.height \in Nat /\ qc.rootHeight \in Nat /\ qc.checkpoint \in Nat /\ qc.retired \in BOOLEAN
      /\ qc.payments \in [Addresses -> 0 .. 100] /\ SumFunction(qc.payments) <= 100
  BY CertificateType
<1> DEFINE absent == NonSignersOf(power, qc.signers)
           percent == PercentageDiv(SumFunctionOnSet(power, absent), SumFunction(power))
<1>3. percent \in Nat
  <2>1. absent \subseteq Operators /\ \A v \in absent : power[v] \in Nat
    BY DEF NonSignersOf
  <2>2. IsFiniteSet(absent)
    BY <2>1, Finite, FS_Subset
  <2>3. SumFunctionOnSet(power, absent) \in Nat /\ SumFunction(power) \in Nat
    BY <2>1, <2>2, Finite, SumNat, TotalNat
  <2> QED
    BY <2>3, PercentType
<1>4. committeeData' = [committeeData EXCEPT ![c] = CombinedData(c, qc, percent)]
  BY DEF HandleCertificateResults
<1> HIDE DEF percent
<1>5. PICK reduced \in [Addresses -> Nat] :
         \A a \in Addresses : /\ reduced[a] = ReducePercentage(qc.payments[a], percent)
                              /\ reduced[a] <= qc.payments[a]
  <2> DEFINE reduced == [a \in Addresses |-> ReducePercentage(qc.payments[a], percent)]
  <2>1. ASSUME NEW a \in Addresses
        PROVE  reduced[a] \in Nat /\ reduced[a] <= qc.payments[a]
    <3>1. qc.payments[a] \in Nat
      BY <1>2
    <3> QED
      BY <1>3, <3>1, Reduced
  <2>2. reduced \in [Addresses -> Nat]
    BY <2>1
  <2> QED
    BY <2>1, <2>2
<1>6. PICK old \in [Addresses -> Nat] : old = committeeData[c].payments
  BY <1>1 DEF Data
<1>7. PICK new \in [Addresses -> Nat] : \A a \in Addresses : new[a] = old[a] + reduced[a]
  <2>1. [a \in Addresses |-> old[a] + reduced[a]] \in [Addresses -> Nat]
    OBVIOUS
  <2> QED
    BY <2>1
<1>8. SumFunction(new) = SumFunction(old) + SumFunction(reduced)
  <2>1. SumFunctionOnSet(new, Addresses) = SumFunctionOnSet(old, Addresses) + SumFunctionOnSet(reduced, Addresses)
    BY <1>7, Finite, SumPlus
  <2> QED
    BY <2>1, Finite, TotalNat
<1>9. SumFunction(reduced) <= 100 /\ SumFunction(reduced) \in Nat
  <2>0. qc.payments \in [Addresses -> Nat] /\ \A a \in Addresses : qc.payments[a] \in Nat
    BY <1>2
  <2>1. SumFunctionOnSet(reduced, Addresses) <= SumFunctionOnSet(qc.payments, Addresses)
    BY <1>5, <2>0, Finite, SumMonotone
  <2>2. SumFunction(qc.payments) = SumFunctionOnSet(qc.payments, Addresses) /\ SumFunction(qc.payments) \in Nat
    BY <2>0, Finite, TotalNat
  <2>3. SumFunction(reduced) = SumFunctionOnSet(reduced, Addresses) /\ SumFunction(reduced) \in Nat
    BY Finite, TotalNat
  <2>4. PICK x \in Nat, y \in Nat : x = SumFunction(qc.payments) /\ y = SumFunction(reduced)
    BY <2>2, <2>3
  <2> QED
    BY <1>2, <2>1, <2>2, <2>3, <2>4
<1>10. PICK checkpoint \in Nat : checkpoint = IF qc.checkpoint # 0 THEN qc.checkpoint ELSE committeeData[c].checkpoint
  BY <1>1, <1>2 DEF Data
<1>11. PICK retired \in BOOLEAN : retired = (committeeData[c].retired \/ (qc.retired /\ c # Self))
  OBVIOUS
<1>12. PICK samples \in Nat : samples = committeeData[c].samples + 1
  BY <1>1 DEF Data
<1>13. CombinedData(c, qc, percent)
         = [committeeData[c] EXCEPT !.rootHeight = qc.rootHeight, !.chainHeight = qc.height,
              !.samples = samples, !.payments = new, !.checkpoint = checkpoint, !.retired = retired]
  <2>1. new = [a \in Addresses |-> committeeData[c].payments[a] + ReducePercentage(qc.payments[a], percent)]
    BY <1>5, <1>6, <1>7
  <2>2. CombinedData(c, qc, percent)
          = [committeeData[c] EXCEPT
               !.rootHeight = qc.rootHeight, !.chainHeight = qc.height,
               !.samples = committeeData[c].samples + 1,
               !.payments = [a \in Addresses |->
                  committeeData[c].payments[a] + ReducePercentage(qc.payments[a], percent)],
               !.checkpoint = IF qc.checkpoint # 0 THEN qc.checkpoint ELSE committeeData[c].checkpoint,
               !.retired = committeeData[c].retired \/ (qc.retired /\ c # Self)]
    BY <1>1 DEF CombinedData, Data
  <2> QED
    BY <1>10, <1>11, <1>12, <2>1, <2>2
<1>14. PICK data : data = CombinedData(c, qc, percent)
  OBVIOUS
<1>15. data \in Data
  BY <1>1, <1>2, <1>13, <1>14 DEF Data
<1>16. data.payments = new /\ data.samples = samples
  BY <1>1, <1>2, <1>13, <1>14 DEF Data
<1>17. committeeData' = [committeeData EXCEPT ![c] = data]
  BY <1>4, <1>14
<1>18. SumFunction(data.payments) <= 100 * data.samples
  <2>1. SumFunction(old) <= 100 * committeeData[c].samples
    BY <1>1, <1>6 DEF RewardsCovered
  <2>2. PICK s \in Nat, x \in Nat, y \in Nat :
           s = committeeData[c].samples /\ x = SumFunction(old) /\ y = SumFunction(reduced)
    BY <1>1, <1>9, Finite, TotalNat DEF Data
  <2>3. x <= 100 * s /\ y <= 100 /\ samples = s + 1 /\ SumFunction(new) = x + y
    BY <1>8, <1>9, <1>12, <2>1, <2>2
  <2>4. x + y <= 100 * samples
    BY <2>3
  <2> QED
    BY <1>16, <2>3, <2>4
<1> QED
  BY <1>1, <1>15, <1>17, <1>18 DEF RewardsCovered

\* The counters and pauses of HandleCertificateResults.
LEMMA ResultsValidators ==
  ASSUME LedgerInv, NEW c \in Chains, NEW heights \in SUBSET Nat, NEW rootHeight \in Nat,
         NEW qc \in Certificates(c, heights, rootHeight), NEW power \in [Operators -> Nat],
         HandleCertificateResults(c, qc, power)
  PROVE  /\ nonSigners' \in [Operators -> [counter : Nat, chains : [Chains -> Nat]]]
         /\ doubleSigners' \subseteq Operators \X Nat
         /\ \A v \in Operators :
              /\ validators'[v] = Nil <=> validators[v] = Nil
              /\ validators[v] # Nil => /\ validators'[v].committees = validators[v].committees
                                        /\ validators'[v].delegate = validators[v].delegate
<1>1. /\ nonSigners \in [Operators -> [counter : Nat, chains : [Chains -> Nat]]]
      /\ doubleSigners \subseteq Operators \X Nat /\ StakingTypeOK /\ height \in Nat
      /\ validators \in [Operators -> Validator \cup {Nil}]
  BY DEF LedgerInv, StakingInv, StakingTypeOK, BalanceTypes
<1>2. doubleSigners' \subseteq Operators \X Nat
  BY <1>1, CertificateType DEF HandleCertificateResults
<1>3. PICK absent : nonSigners' = NonSignersAfter(c, absent)
  BY DEF HandleCertificateResults
<1>4. ASSUME NEW v \in Operators
      PROVE  nonSigners'[v] \in [counter : Nat, chains : [Chains -> Nat]]
  <2>1. PICK counted \in [counter : Nat, chains : [Chains -> Nat]] :
           counted = IF WindowEnds THEN [counter |-> 0, chains |-> [d \in Chains |-> 0]] ELSE nonSigners[v]
    <3>1. [counter |-> 0, chains |-> [d \in Chains |-> 0]] \in [counter : Nat, chains : [Chains -> Nat]]
      OBVIOUS
    <3>2. nonSigners[v] \in [counter : Nat, chains : [Chains -> Nat]]
      BY <1>1
    <3> QED
      BY <3>1, <3>2
  <2>2. nonSigners'[v] = IF v \in absent
                         THEN [counter |-> counted.counter + 1,
                               chains |-> [counted.chains EXCEPT ![c] = @ + 1]]
                         ELSE counted
    BY <1>3, <2>1 DEF NonSignersAfter
  <2>3. /\ counted.counter + 1 \in Nat /\ counted.chains \in [Chains -> Nat]
        /\ [counted.chains EXCEPT ![c] = @ + 1] \in [Chains -> Nat]
    OBVIOUS
  <2> QED
    BY <2>2, <2>3
<1>5. nonSigners' \in [Operators -> [counter : Nat, chains : [Chains -> Nat]]]
  BY <1>3, <1>4 DEF NonSignersAfter
<1>6. ASSUME NEW v \in Operators
      PROVE  /\ validators'[v] = Nil <=> validators[v] = Nil
             /\ validators[v] # Nil => /\ validators'[v].committees = validators[v].committees
                                       /\ validators'[v].delegate = validators[v].delegate
  <2>1. PICK until \in Nat : until = height + Params.maxPauseBlocks
    BY <1>1, ParamsAssumption
  <2>2. validators'[v] = IF v \in AutoPaused(c) THEN [validators[v] EXCEPT !.maxPausedHeight = until]
                                                ELSE validators[v]
    BY <2>1 DEF HandleCertificateResults
  <2>3. CASE v \in AutoPaused(c)
    <3>1. validators[v] # Nil /\ validators[v] \in Validator
      BY <1>1, <2>3 DEF AutoPaused, CanPause
    <3>2. PICK val : val = [validators[v] EXCEPT !.maxPausedHeight = until]
      OBVIOUS
    <3>3. /\ val \in Validator /\ val.committees = validators[v].committees
          /\ val.delegate = validators[v].delegate
      BY <3>1, <3>2 DEF Validator
    <3>4. val # Nil
      BY <3>3, AddressAssumption
    <3> QED
      BY <2>2, <2>3, <3>1, <3>2, <3>3, <3>4
  <2>4. CASE v \notin AutoPaused(c)
    BY <2>2, <2>4
  <2> QED
    BY <2>3, <2>4
<1> QED
  BY <1>2, <1>5, <1>6

\* BeginBlock mints to the pools, in both places, and handles the last certificate.
LEMMA BeginBlockInv ==
  ASSUME LedgerInv, StakingInv', NEW qc \in Certificates(Self, {height - 1}, height - 1), BeginBlock(qc)
  PROVE  LedgerInv'
<1>1. BalanceTypes /\ SupplyType /\ height \in Nat /\ height > 1 /\ Self \in Chains
  BY Finite DEF LedgerInv, StakingInv, StakingTypeOK, BeginBlock
<1>2. PICK last \in Nat : last = height - 1 /\ last \in 1 .. height
  BY <1>1
<1>3. PICK power \in [Operators -> Nat] : power = committees[height - 1][Self]
  BY <1>1, <1>2 DEF BalanceTypes, CommitteesTyped
<1>4. HandleCertificateResults(Self, qc, power) /\ qc \in Certificates(Self, {last}, last)
  BY <1>2, <1>3 DEF BeginBlock
<1>5. {last} \in SUBSET Nat
  OBVIOUS
<1>6. /\ committeeData' \in [Chains -> Data]
      /\ \A d \in Chains : SumFunction(committeeData'[d].payments) <= 100 * committeeData'[d].samples
  BY <1>1, <1>4, <1>5, ResultsData
<1>7. /\ nonSigners' \in [Operators -> [counter : Nat, chains : [Chains -> Nat]]]
      /\ doubleSigners' \subseteq Operators \X Nat
      /\ \A v \in Operators :
           /\ validators'[v] = Nil <=> validators[v] = Nil
           /\ validators[v] # Nil => /\ validators'[v].committees = validators[v].committees
                                     /\ validators'[v].delegate = validators[v].delegate
  BY <1>1, <1>4, <1>5, ResultsValidators
<1>8. PICK mint \in [Pools -> Nat] : mint = BlockMint
  BY MintType
<1>9. /\ pools' = [p \in Pools |-> pools[p] + mint[p]]
      /\ supply' = [supply EXCEPT !.total = supply.total + SumFunction(mint)]
      /\ phase = "begin" /\ phase' = "txs"
      /\ UNCHANGED <<accounts, payouts, paid, height, committees>>
  BY <1>8 DEF BeginBlock, rewards
<1>10. UNCHANGED stakedAmount
  BY <1>4 DEF HandleCertificateResults
<1>11. pools' \in [Pools -> Nat] /\ SumFunction(pools') = SumFunction(pools) + SumFunction(mint)
       /\ SumFunction(mint) \in Nat
  <2>1. pools \in [Pools -> Nat]
    BY <1>1 DEF BalanceTypes
  <2>2. pools' \in [Pools -> Nat]
    BY <1>9, <2>1
  <2>3. SumFunctionOnSet(pools', Pools) = SumFunctionOnSet(pools, Pools) + SumFunctionOnSet(mint, Pools)
    BY <1>9, <2>1, Finite, SumPlus
  <2> QED
    BY <2>1, <2>2, <2>3, Finite, TotalNat
<1>12. PICK minted \in Nat : minted = SumFunction(mint)
  BY <1>11
<1>13. SupplyType' /\ supply'.total = supply.total + minted
  BY <1>1, <1>9, <1>12 DEF SupplyType
<1>14. SameStakes
  BY <1>1, <1>7, <1>9, <1>10 DEF SameStakes, SupplyType
<1>15. StakedSupplyTracked' /\ DelegatesCovered'
  BY <1>14, NoStake
<1>16. BalanceTypes'
  BY <1>1, <1>6, <1>7, <1>9, <1>10, <1>11 DEF BalanceTypes, CommitteesTyped
<1>17. RewardsCovered' /\ PayoutsCovered'
  BY <1>6, <1>9, <1>16, Quiet DEF rewards
<1>18. Moves(0, minted, 0, 0, minted)
  BY <1>1, <1>9, <1>10, <1>11, <1>12, <1>13, Still DEF Moves
<1>19. minted + 0 = 0 + minted + 0
  OBVIOUS
<1>20. SupplyConserved'
  BY <1>18, <1>19, ConservedBy
<1> QED
  BY <1>13, <1>15, <1>16, <1>17, <1>20 DEF LedgerInv

\* The results of another committee, for a fee.
LEMMA ResultsInv ==
  ASSUME LedgerInv, StakingInv', NEW proposer \in Operators, NEW c \in Chains, NEW rootHeight \in 1 .. height,
         NEW qc \in Certificates(c, 1 .. MaxChainHeight, rootHeight), CertificateResults(proposer, c, qc)
  PROVE  LedgerInv'
<1>1. BalanceTypes /\ SupplyType /\ height \in Nat /\ rootHeight \in Nat /\ proposer \in Addresses
  BY Finite DEF LedgerInv, StakingInv, StakingTypeOK
<1>2. qc.rootHeight = rootHeight
  BY DEF Certificates
<1>3. PICK power \in [Operators -> Nat] : power = committees[qc.rootHeight][c]
  BY <1>1, <1>2 DEF BalanceTypes, CommitteesTyped
<1>4. /\ HandleCertificateResults(c, qc, power) /\ ChargeFee(proposer) /\ phase = "txs"
      /\ UNCHANGED <<supply, payouts, paid, height, phase, committees>>
  BY <1>3 DEF CertificateResults, Deliver, rewards, chain
<1>5. PICK heights \in SUBSET Nat : heights = 1 .. MaxChainHeight
  BY InputAssumption
<1>6. /\ committeeData' \in [Chains -> Data]
      /\ \A d \in Chains : SumFunction(committeeData'[d].payments) <= 100 * committeeData'[d].samples
  BY <1>1, <1>4, <1>5, ResultsData
<1>7. /\ nonSigners' \in [Operators -> [counter : Nat, chains : [Chains -> Nat]]]
      /\ doubleSigners' \subseteq Operators \X Nat
      /\ \A v \in Operators :
           /\ validators'[v] = Nil <=> validators[v] = Nil
           /\ validators[v] # Nil => /\ validators'[v].committees = validators[v].committees
                                     /\ validators'[v].delegate = validators[v].delegate
  BY <1>1, <1>4, <1>5, ResultsValidators
<1>8. UNCHANGED stakedAmount
  BY <1>4 DEF HandleCertificateResults
<1>9. SameStakes
  BY <1>4, <1>7, <1>8 DEF SameStakes
<1>10. StakedSupplyTracked' /\ DelegatesCovered'
  BY <1>9, NoStake
<1>11. Spend(proposer, 0) /\ accounts' = [accounts EXCEPT ![proposer] = @ - Fee - 0]
  <2>1. accounts[proposer] - Fee - 0 = accounts[proposer] - Fee
    BY <1>1, InputAssumption DEF BalanceTypes
  <2>2. accounts' = [accounts EXCEPT ![proposer] = accounts[proposer] - Fee] /\ Spend(proposer, 0)
    BY <1>4 DEF ChargeFee
  <2> QED
    BY <2>1, <2>2
<1>12. /\ accounts' \in [Addresses -> Nat] /\ SumFunction(accounts') = SumFunction(accounts) + (0 - Fee - 0)
       /\ pools' \in [Pools -> Nat] /\ SumFunction(pools') = SumFunction(pools) + Fee /\ Fee \in Nat
  BY <1>1, <1>11, SpendMoves
<1>13. SupplyType' /\ supply'.total = supply.total + 0
  BY <1>1, <1>4 DEF SupplyType
<1>14. BalanceTypes'
  BY <1>1, <1>4, <1>6, <1>7, <1>8, <1>12 DEF BalanceTypes, CommitteesTyped
<1>15. RewardsCovered' /\ PayoutsCovered'
  BY <1>4, <1>6, <1>14, Quiet DEF rewards
<1>16. Moves(0 - Fee - 0, Fee, 0, 0, 0)
  BY <1>1, <1>4, <1>8, <1>12, <1>13, Still DEF Moves
<1>17. 0 + 0 = (0 - Fee - 0) + Fee + 0
  BY <1>12
<1>18. SupplyConserved'
  BY <1>16, <1>17, ConservedBy
<1> QED
  BY <1>10, <1>13, <1>14, <1>15, <1>18 DEF LedgerInv

-----------------------------------------------------------------------------
(***************************************************************************)
(* EndBlock.                                                               *)
(***************************************************************************)

\* EndBlock lists the rewards to pay: together no more than the pool.
LEMMA EndBlockInv ==
  ASSUME LedgerInv, StakingInv', EndBlock
  PROVE  LedgerInv'
<1>1. BalanceTypes /\ SupplyType /\ RewardsCovered
  BY DEF LedgerInv
<1>2. /\ phase = "txs" /\ phase' = "rewards"
      /\ payouts' = {ca \in Chains \X Addresses : committeeData[ca[1]].payments[ca[2]] > 0}
      /\ paid' = [c \in Chains |-> 0]
      /\ UNCHANGED <<accounts, pools, validators, stakedAmount, supply, nonSigners, doubleSigners,
                     committeeData, height, committees>>
  BY DEF EndBlock, Deliver, balances, stakes, byzantine
<1>3. UNCHANGED paid
  BY <1>2 DEF LedgerInv, PayoutsCovered
<1>4. BalanceTypes' /\ SupplyType'
  BY <1>1, <1>2 DEF BalanceTypes, CommitteesTyped, SupplyType
<1>5. SameStakes
  BY <1>2 DEF SameStakes
<1>6. StakedSupplyTracked' /\ DelegatesCovered'
  BY <1>5, NoStake
<1>7. SupplyConserved'
  BY <1>2, <1>3 DEF LedgerInv, SupplyConserved
<1>8. RewardsCovered'
  BY <1>1, <1>2, <1>3 DEF RewardsCovered
<1>9. ASSUME NEW c \in Chains
      PROVE  paid'[c] * (100 * committeeData'[c].samples)
               + pools'[c] * SumFunctionOnSet(committeeData'[c].payments, Due(c)')
                 <= pools'[c] * (100 * committeeData'[c].samples)
  <2>1. PICK pay \in [Addresses -> Nat] : pay = committeeData[c].payments
    BY <1>1 DEF BalanceTypes, Data
  <2>2. PICK due \in SUBSET Addresses : due = Due(c)' /\ due = {a \in Addresses : pay[a] > 0}
    BY <1>2, <2>1 DEF Due
  <2>3. \A a \in Addresses \ due : pay[a] = 0
    BY <2>2
  <2>4. SumFunctionOnSet(pay, Addresses) = SumFunctionOnSet(pay, due)
    BY <2>3, Finite, SumOfPart
  <2>5. SumFunction(pay) = SumFunctionOnSet(pay, Addresses) /\ SumFunction(pay) \in Nat
    BY Finite, TotalNat
  <2>6. PICK x \in Nat, y \in Nat, p \in Nat :
           x = SumFunctionOnSet(pay, due) /\ y = 100 * committeeData[c].samples /\ p = pools[c]
    <3>1. pools[c] \in Nat /\ committeeData[c].samples \in Nat
      BY <1>1, Finite DEF BalanceTypes, Data
    <3> QED
      BY <2>4, <2>5, <3>1
  <2>7. x <= y
    BY <1>1, <2>1, <2>4, <2>5, <2>6 DEF RewardsCovered
  <2>8. p * x <= p * y /\ 0 * y + p * x = p * x
    BY <2>7
  <2> QED
    BY <1>2, <2>1, <2>2, <2>6, <2>8
<1>10. PayoutsCovered'
  BY <1>2, <1>9 DEF PayoutsCovered
<1> QED
  BY <1>4, <1>6, <1>7, <1>8, <1>10 DEF LedgerInv

\* A reward that is due, of a committee with samples.
LEMMA RewardDue ==
  ASSUME LedgerInv, NEW c \in Chains, NEW a \in Addresses, <<c, a>> \in payouts
  PROVE  /\ FullReward(c, a) \in Nat /\ committeeData[c].samples \in Nat /\ committeeData[c].samples > 0
         /\ committeeData[c].payments[a] > 0
<1>1. PICK pay \in [Addresses -> Nat], samples \in Nat, pool \in Nat :
         pay = committeeData[c].payments /\ samples = committeeData[c].samples /\ pool = pools[c]
  BY Finite DEF LedgerInv, BalanceTypes, Data
<1>2. pay[a] > 0
  BY <1>1 DEF LedgerInv, PayoutsCovered
<1>3. PICK sum \in Nat : sum = SumFunction(pay) /\ pay[a] <= sum
  BY Finite, TotalNat, OneOfSum
<1>4. sum <= 100 * samples
  BY <1>1, <1>3 DEF LedgerInv, RewardsCovered
<1>5. samples > 0 /\ samples * 100 \in Nat /\ samples * 100 > 0
  BY <1>2, <1>3, <1>4
<1>6. pay[a] * pool \in Nat
  OBVIOUS
<1>7. (pay[a] * pool) \div (samples * 100) \in Nat
  BY <1>5, <1>6, Quotient
<1> QED
  BY <1>1, <1>2, <1>5, <1>7 DEF FullReward

\* Paying it, or less, leaves the others covered.
LEMMA RewardPaid ==
  ASSUME LedgerInv, NEW c \in Chains, NEW a \in Addresses, <<c, a>> \in payouts, phase = "rewards",
         NEW r \in Nat, r <= FullReward(c, a), paid' = [paid EXCEPT ![c] = paid[c] + r],
         payouts' = payouts \ {<<c, a>>}, UNCHANGED <<pools, committeeData, phase>>
  PROVE  /\ RewardsCovered' /\ PayoutsCovered' /\ paid' \in [Chains -> Nat]
         /\ payouts' \subseteq Chains \X Addresses /\ SumFunction(paid') = SumFunction(paid) + r
<1>1. BalanceTypes /\ RewardsCovered /\ PayoutsCovered /\ paid \in [Chains -> Nat]
  BY DEF LedgerInv, BalanceTypes
<1>2. paid'[c] = paid[c] + r /\ \A d \in Chains \ {c} : paid'[d] = paid[d]
  BY <1>1
<1>3. paid' \in [Chains -> Nat] /\ payouts' \subseteq Chains \X Addresses
  BY <1>1 DEF BalanceTypes
<1>4. SumFunction(paid') = SumFunction(paid) + r
  <2>1. PICK m \in Int : m = paid[c] + r
    BY <1>1
  <2>2. SumFunction([paid EXCEPT ![c] = m]) = SumFunction(paid) + (m - paid[c])
    BY <1>1, Finite, TotalUpdate
  <2>3. paid[c] \in Nat /\ SumFunction(paid) \in Nat
    BY <1>1, Totals
  <2>4. m - paid[c] = r
    BY <2>1, <2>3
  <2> QED
    BY <2>1, <2>2, <2>4
<1>5. PICK pay \in [Addresses -> Nat], samples \in Nat, pool \in Nat, before \in Nat :
         /\ pay = committeeData[c].payments /\ samples = committeeData[c].samples /\ pool = pools[c]
         /\ before = paid[c] /\ samples > 0 /\ pay[a] > 0
  <2>1. /\ committeeData[c].payments \in [Addresses -> Nat] /\ pools[c] \in Nat /\ paid[c] \in Nat
    BY <1>1, Finite DEF BalanceTypes, Data
  <2>2. /\ committeeData[c].samples \in Nat /\ committeeData[c].samples > 0
        /\ committeeData[c].payments[a] > 0
    BY RewardDue
  <2> QED
    BY <2>1, <2>2
<1>6. PICK percents \in Nat : percents = 100 * samples /\ percents = samples * 100 /\ percents > 0
  <2>1. 100 * samples \in Nat /\ 100 * samples = samples * 100 /\ 100 * samples > 0
    BY <1>5
  <2> QED
    BY <2>1
<1>7. PICK due \in SUBSET Addresses : due = Due(c) /\ a \in due
  BY DEF Due
<1>8. Due(c)' = due \ {a} /\ \A d \in Chains \ {c} : Due(d)' = Due(d)
  BY <1>7 DEF Due
<1>9. IsFiniteSet(due) /\ IsFiniteSet(due \ {a})
  BY Finite, FS_Subset
<1>10. PICK rest \in Nat : rest = SumFunctionOnSet(pay, due \ {a})
  BY <1>9, SumNat
<1>11. SumFunctionOnSet(pay, due) = pay[a] + rest
  BY <1>7, <1>9, <1>10, SumRemove
<1>12. before * percents + pool * (pay[a] + rest) <= pool * percents
  BY <1>1, <1>5, <1>6, <1>7, <1>11 DEF PayoutsCovered
<1>13. r <= (pay[a] * pool) \div percents
  BY <1>5, <1>6 DEF FullReward
<1>14. (before + r) * percents + pool * rest <= pool * percents
  <2>1. PICK p \in Nat : p = pay[a]
    OBVIOUS
  <2>2. r <= (p * pool) \div percents /\ before * percents + pool * (p + rest) <= pool * percents
    BY <1>12, <1>13, <2>1
  <2> QED
    BY <1>6, <2>2, RewardFits
<1>15. before + r <= pool
  <2>1. PICK x \in Nat, y \in Nat, z \in Nat :
           x = (before + r) * percents /\ y = pool * rest /\ z = pool * percents
    OBVIOUS
  <2>2. x <= z
    BY <1>14, <2>1
  <2>3. before + r \in Nat
    OBVIOUS
  <2> QED
    BY <1>6, <2>1, <2>2, <2>3, Divided
<1>16. RewardsCovered'
  BY <1>1, <1>2, <1>5, <1>15 DEF RewardsCovered
<1>17. PayoutsCovered'
  <2>1. \A ca \in payouts' : committeeData'[ca[1]].payments[ca[2]] > 0
    BY <1>1 DEF PayoutsCovered
  <2>2. ASSUME NEW d \in Chains
        PROVE  paid'[d] * (100 * committeeData'[d].samples)
                 + pools'[d] * SumFunctionOnSet(committeeData'[d].payments, Due(d)')
                   <= pools'[d] * (100 * committeeData'[d].samples)
    <3>1. CASE d = c
      BY <1>2, <1>5, <1>6, <1>8, <1>10, <1>14, <3>1
    <3>2. CASE d # c
      <4>1. paid'[d] = paid[d] /\ Due(d)' = Due(d)
        BY <1>2, <1>8, <3>2
      <4> QED
        BY <1>1, <4>1 DEF PayoutsCovered
    <3> QED
      BY <3>1, <3>2
  <2>3. ASSUME NEW d \in Chains, paid'[d] # 0
        PROVE  d \in Payable'
    <3>1. CASE d = c
      BY <1>5, <3>1 DEF Payable
    <3>2. CASE d # c
      BY <1>1, <1>2, <2>3, <3>2 DEF PayoutsCovered, Payable
    <3> QED
      BY <3>1, <3>2
  <2> QED
    BY <2>1, <2>2, <2>3 DEF PayoutsCovered
<1> QED
  BY <1>3, <1>4, <1>16, <1>17

\* The reward of a compounding validator becomes its stake; any other is paid out.
LEMMA DistributeInv ==
  ASSUME LedgerInv, StakingInv', NEW c \in Chains, NEW a \in Addresses, DistributeCommitteeReward(c, a)
  PROVE  LedgerInv'
<1>1. /\ BalanceTypes /\ SupplyType /\ stakedAmount \in [Operators -> Nat]
      /\ validators \in [Operators -> Validator \cup {Nil}] /\ accounts \in [Addresses -> Nat]
  BY DEF LedgerInv, StakingInv, StakingTypeOK, BalanceTypes
<1>2. /\ phase = "rewards" /\ <<c, a>> \in payouts /\ payouts' = payouts \ {<<c, a>>}
      /\ UNCHANGED <<pools, validators, nonSigners, doubleSigners, committeeData, height, phase, committees>>
  BY DEF DistributeCommitteeReward, byzantine, chain
<1>3. PICK full \in Nat : full = FullReward(c, a)
  BY <1>2, RewardDue
<1>4. CASE Compounds(a)
  <2>1. /\ supply' = SupplyAfterStake(validators[a], stakedAmount[a], validators[a].committees, full)
        /\ stakedAmount' = [stakedAmount EXCEPT ![a] = stakedAmount[a] + full]
        /\ paid' = [paid EXCEPT ![c] = paid[c] + full]
        /\ UNCHANGED accounts
    BY <1>3, <1>4 DEF DistributeCommitteeReward
  <2>2. a \in Operators /\ validators[a] # Nil /\ validators[a] \in Validator
    BY <1>1, <1>4 DEF Compounds, IsValidator
  <2>3. /\ RewardsCovered' /\ PayoutsCovered' /\ paid' \in [Chains -> Nat]
        /\ payouts' \subseteq Chains \X Addresses /\ SumFunction(paid') = SumFunction(paid) + full
    <3>1. full <= FullReward(c, a)
      BY <1>3
    <3> QED
      BY <1>2, <2>1, <3>1, RewardPaid
  <2>4. PICK val \in Validator, stake \in Nat, new \in Nat :
           val = validators[a] /\ stake = stakedAmount[a] /\ new = stake + full
    BY <1>1, <2>2
  <2>5. /\ SupplyType' /\ supply'.total = supply.total /\ supply'.staked = supply.staked + full
        /\ supply'.delegatedOnly = supply.delegatedOnly + (IF val.delegate THEN full ELSE 0)
        /\ \A d \in Chains :
             /\ supply'.committeeStaked[d]
                  = supply.committeeStaked[d] + Moved(d, stake, val.committees, new, val.committees)
             /\ supply'.committeeDelegatedOnly[d]
                  = supply.committeeDelegatedOnly[d]
                      + (IF val.delegate THEN Moved(d, stake, val.committees, new, val.committees) ELSE 0)
    <3>1. PICK cs : cs = val.committees
      OBVIOUS
    <3>2. supply' = SupplyAfterStake(val, stake, cs, full)
      BY <2>1, <2>4, <3>1
    <3>3. /\ SupplyType' /\ supply'.total = supply.total /\ supply'.staked = supply.staked + full
          /\ supply'.delegatedOnly = supply.delegatedOnly + (IF val.delegate THEN full ELSE 0)
          /\ \A d \in Chains :
               /\ supply'.committeeStaked[d]
                    = supply.committeeStaked[d] + Moved(d, stake, val.committees, new, cs)
               /\ supply'.committeeDelegatedOnly[d]
                    = supply.committeeDelegatedOnly[d]
                        + (IF val.delegate THEN Moved(d, stake, val.committees, new, cs) ELSE 0)
      BY <1>1, <2>4, <3>2, StakeSupply
    <3> QED
      BY <3>1, <3>3
  <2>6. stakedAmount' \in [Operators -> Nat] /\ stakedAmount'[a] = new
    BY <1>1, <2>1, <2>2, <2>4
  <2>7. BalanceTypes'
    BY <1>1, <1>2, <2>1, <2>3, <2>6 DEF BalanceTypes, CommitteesTyped
  <2>8. Restakes(a)
    <3>1. /\ Delegated[a] = (IF val.delegate THEN stake ELSE 0)
          /\ Delegated'[a] = (IF val.delegate THEN new ELSE 0)
      BY <1>2, <2>2, <2>4, <2>6 DEF Delegated
    <3>2. ASSUME NEW d \in Chains
          PROVE  /\ Behind(d)[a] = (IF d \in val.committees THEN stake ELSE 0)
                 /\ Behind(d)'[a] = (IF d \in val.committees THEN new ELSE 0)
                 /\ DelegatedTo(d)[a] = (IF val.delegate /\ d \in val.committees THEN stake ELSE 0)
                 /\ DelegatedTo(d)'[a] = (IF val.delegate /\ d \in val.committees THEN new ELSE 0)
      BY <1>2, <2>2, <2>4, <2>6 DEF DelegatedTo, Behind, BehindOf
    <3>3. /\ supply.staked \in Int /\ supply.delegatedOnly \in Int
          /\ \A d \in Chains : supply.committeeStaked[d] \in Int /\ supply.committeeDelegatedOnly[d] \in Int
      BY <1>1 DEF SupplyType
    <3>4. stakedAmount' = [stakedAmount EXCEPT ![a] = stakedAmount'[a]]
      BY <2>1, <2>4, <2>6
    <3>5. \A w \in Operators \ {a} : validators'[w] = validators[w]
      BY <1>2
    <3>6. supply'.staked = supply.staked + (stakedAmount'[a] - stakedAmount[a])
      BY <2>4, <2>5, <2>6, <3>3
    <3>7. supply'.delegatedOnly >= supply.delegatedOnly + (Delegated'[a] - Delegated[a])
      BY <2>4, <2>5, <3>1, <3>3
    <3>8. ASSUME NEW d \in Chains
          PROVE  supply'.committeeStaked[d] = supply.committeeStaked[d] + (Behind(d)'[a] - Behind(d)[a])
      BY <2>4, <2>5, <3>2, <3>3 DEF Moved
    <3>9. ASSUME NEW d \in Chains
          PROVE  supply'.committeeDelegatedOnly[d]
                   >= supply.committeeDelegatedOnly[d] + (DelegatedTo(d)'[a] - DelegatedTo(d)[a])
      BY <2>4, <2>5, <3>2, <3>3 DEF Moved
    <3>10. validators'[a] # Nil
      BY <1>2, <2>2
    <3> QED
      BY <3>4, <3>5, <3>6, <3>7, <3>8, <3>9, <3>10 DEF Restakes
  <2>9. /\ StakedSupplyTracked' /\ DelegatesCovered'
        /\ SumFunction(stakedAmount') = SumFunction(stakedAmount) + (stakedAmount'[a] - stakedAmount[a])
    BY <2>2, <2>5, <2>7, <2>8, OneStake
  <2>10. stakedAmount'[a] - stakedAmount[a] = full
    BY <2>4, <2>6
  <2>11. supply'.total = supply.total + 0
    BY <1>1, <2>5 DEF SupplyType
  <2>12. Moves(0, 0, full, full, 0)
    BY <1>1, <1>2, <2>1, <2>3, <2>9, <2>10, <2>11, Still DEF Moves
  <2>13. 0 + full = 0 + 0 + full
    OBVIOUS
  <2>14. SupplyConserved'
    BY <2>12, <2>13, ConservedBy
  <2> QED
    BY <2>3, <2>5, <2>7, <2>9, <2>14 DEF LedgerInv
<1>5. CASE ~Compounds(a)
  <2>1. PICK early \in Nat : /\ early = ReducePercentage(full, Params.earlyWithdrawalPenalty)
                             /\ early <= full
    <3>1. Params.earlyWithdrawalPenalty \in Nat
      BY ParamsAssumption
    <3>2. /\ ReducePercentage(full, Params.earlyWithdrawalPenalty) \in Nat
          /\ ReducePercentage(full, Params.earlyWithdrawalPenalty) <= full
      BY <3>1, Reduced
    <3> QED
      BY <3>2
  <2>2. PICK receiver \in Addresses : receiver = IF IsValidator(a) THEN validators[a].output ELSE a
    BY <1>1 DEF IsValidator, Validator
  <2>3. /\ accounts' = [accounts EXCEPT ![receiver] = accounts[receiver] + early]
        /\ paid' = [paid EXCEPT ![c] = paid[c] + early]
        /\ UNCHANGED <<supply, stakedAmount>>
    BY <1>3, <1>5, <2>1, <2>2 DEF DistributeCommitteeReward
  <2>4. /\ RewardsCovered' /\ PayoutsCovered' /\ paid' \in [Chains -> Nat]
        /\ payouts' \subseteq Chains \X Addresses /\ SumFunction(paid') = SumFunction(paid) + early
    BY <1>2, <1>3, <2>1, <2>3, RewardPaid
  <2>5. PICK m \in Int : m = early /\ accounts[receiver] + m >= 0
    BY <1>1
  <2>6. accounts' \in [Addresses -> Nat] /\ SumFunction(accounts') = SumFunction(accounts) + early
    BY <1>1, <2>3, <2>5, AccountMoves
  <2>7. BalanceTypes' /\ SupplyType'
    BY <1>1, <1>2, <2>3, <2>4, <2>6 DEF BalanceTypes, CommitteesTyped, SupplyType
  <2>8. SameStakes
    BY <1>2, <2>3 DEF SameStakes
  <2>9. StakedSupplyTracked' /\ DelegatesCovered'
    BY <2>8, NoStake
  <2>10. supply'.total = supply.total + 0
    BY <1>1, <2>3 DEF SupplyType
  <2>11. Moves(early, 0, 0, early, 0)
    BY <1>1, <1>2, <2>3, <2>4, <2>6, <2>10, Still DEF Moves
  <2>12. 0 + early = early + 0 + 0
    OBVIOUS
  <2>13. SupplyConserved'
    BY <2>11, <2>12, ConservedBy
  <2> QED
    BY <2>4, <2>7, <2>9, <2>13 DEF LedgerInv
<1> QED
  BY <1>4, <1>5

\* A sum of zeros.
LEMMA SumOfZeros ==
  ASSUME NEW S, IsFiniteSet(S)
  PROVE  SumFunction([x \in S |-> 0]) = 0
<1> DEFINE zeros == [x \in S |-> 0]
<1>1. \A x \in S \ {} : zeros[x] = 0
  OBVIOUS
<1>2. {} \in SUBSET S /\ (\A x \in {} : zeros[x] \in Int) /\ (\A x \in {} : zeros[x] = zeros[x])
  OBVIOUS
<1>3. DOMAIN zeros = S
  OBVIOUS
<1> HIDE DEF zeros
<1>4. SumFunctionOnSet(zeros, S) = SumFunctionOnSet(zeros, {})
  BY <1>1, <1>2, SumOfPart
<1>5. SumFunction(zeros) = 0
  BY <1>3, <1>4, SumEmpty DEF SumFunction
<1> QED
  BY <1>5 DEF zeros

\* A pool is closed: what was not paid is burned, and its payments start anew.
LEMMA ClosePoolInv ==
  ASSUME LedgerInv, StakingInv', NEW c \in Chains, CloseRewardPool(c)
  PROVE  LedgerInv'
<1>1. /\ BalanceTypes /\ SupplyType /\ RewardsCovered /\ PayoutsCovered
      /\ pools \in [Pools -> Nat] /\ paid \in [Chains -> Nat] /\ committeeData \in [Chains -> Data]
      /\ payouts \subseteq Chains \X Addresses
  BY DEF LedgerInv, BalanceTypes
<1>2. /\ phase = "rewards" /\ \A next \in payouts : c < next[1]
      /\ supply' = [supply EXCEPT !.total = supply.total - (pools[c] - paid[c])]
      /\ pools' = [pools EXCEPT ![c] = 0] /\ paid' = [paid EXCEPT ![c] = 0]
      /\ committeeData' = [committeeData EXCEPT ![c].payments = [a \in Addresses |-> 0], ![c].samples = 0]
      /\ UNCHANGED <<accounts, validators, stakedAmount, nonSigners, doubleSigners, payouts, height, phase,
                     committees>>
  BY <1>1 DEF CloseRewardPool, byzantine, chain, SupplyType
<1>3. c \in Pools /\ c \in Nat /\ IsFiniteSet(Pools) /\ IsFiniteSet(Chains) /\ pools[c] \in Nat /\ paid[c] \in Nat
  BY <1>1, Finite, AddressAssumption
<1>4. PICK zeros \in [Addresses -> Nat] : zeros = [a \in Addresses |-> 0] /\ SumFunction(zeros) = 0
  <2>1. [a \in Addresses |-> 0] \in [Addresses -> Nat] /\ SumFunction([a \in Addresses |-> 0]) = 0
    BY Finite, SumOfZeros
  <2> QED
    BY <2>1
<1>5. PICK data \in Data : /\ committeeData' = [committeeData EXCEPT ![c] = data]
                           /\ data.payments = zeros /\ data.samples = 0
  <2>1. PICK data : data = [committeeData[c] EXCEPT !.payments = zeros, !.samples = 0]
    OBVIOUS
  <2>2. committeeData[c] \in Data
    BY <1>1
  <2>3. data \in Data
    BY <2>1, <2>2 DEF Data
  <2>4. data.payments = zeros /\ data.samples = 0
    BY <2>1, <2>2 DEF Data
  <2>5. committeeData' = [committeeData EXCEPT ![c] = data]
    BY <1>1, <1>2, <1>4, <2>1, <2>2 DEF Data
  <2> QED
    BY <2>3, <2>4, <2>5
<1>6. /\ committeeData' \in [Chains -> Data] /\ committeeData'[c] = data
      /\ \A d \in Chains \ {c} : committeeData'[d] = committeeData[d]
  BY <1>1, <1>5
<1>7. /\ pools' \in [Pools -> Nat] /\ paid' \in [Chains -> Nat] /\ pools'[c] = 0 /\ paid'[c] = 0
      /\ \A d \in Chains \ {c} : pools'[d] = pools[d] /\ paid'[d] = paid[d]
  BY <1>1, <1>2, <1>3, Finite
<1>8. BalanceTypes'
  BY <1>1, <1>2, <1>6, <1>7 DEF BalanceTypes, CommitteesTyped
<1>9. SupplyType' /\ supply'.total = supply.total + (paid[c] - pools[c])
  <2>1. supply.total - (pools[c] - paid[c]) = supply.total + (paid[c] - pools[c]) /\ supply.total \in Int
    BY <1>1, <1>3 DEF SupplyType
  <2>2. PICK m \in Int : m = supply.total - (pools[c] - paid[c])
    BY <1>3, <2>1
  <2>3. supply' = [supply EXCEPT !.total = m]
    BY <1>2, <2>2
  <2>4. SupplyType' /\ supply'.total = m
    BY <1>1, <2>3 DEF SupplyType
  <2> QED
    BY <2>1, <2>2, <2>4
<1>10. SameStakes
  BY <1>1, <1>2 DEF SameStakes, SupplyType
<1>11. StakedSupplyTracked' /\ DelegatesCovered'
  BY <1>10, NoStake
<1>12. SumFunction(pools') = SumFunction(pools) + (0 - pools[c])
  <2>1. PICK zero \in Int : zero = 0
    OBVIOUS
  <2>2. SumFunction([pools EXCEPT ![c] = zero]) = SumFunction(pools) + (zero - pools[c])
    BY <1>1, <1>3, TotalUpdate
  <2> QED
    BY <1>2, <2>1, <2>2
<1>13. SumFunction(paid') = SumFunction(paid) + (0 - paid[c])
  <2>1. PICK zero \in Int : zero = 0
    OBVIOUS
  <2>2. SumFunction([paid EXCEPT ![c] = zero]) = SumFunction(paid) + (zero - paid[c])
    BY <1>1, <1>3, TotalUpdate
  <2> QED
    BY <1>2, <2>1, <2>2
<1>14. Moves(0, 0 - pools[c], 0, 0 - paid[c], paid[c] - pools[c])
  <2>1. 0 - pools[c] \in Int /\ 0 - paid[c] \in Int /\ paid[c] - pools[c] \in Int
    BY <1>3
  <2> QED
    BY <1>1, <1>2, <1>9, <1>12, <1>13, <2>1, Still DEF Moves
<1>15. (paid[c] - pools[c]) + (0 - paid[c]) = 0 + (0 - pools[c]) + 0
  BY <1>3
<1>16. SupplyConserved'
  BY <1>14, <1>15, ConservedBy
<1>17. RewardsCovered'
  <2>1. ASSUME NEW d \in Chains
        PROVE  /\ SumFunction(committeeData'[d].payments) <= 100 * committeeData'[d].samples
               /\ paid'[d] <= pools'[d]
    <3>1. CASE d = c
      BY <1>4, <1>5, <1>6, <1>7, <3>1
    <3>2. CASE d # c
      BY <1>1, <1>6, <1>7, <3>2 DEF RewardsCovered
    <3> QED
      BY <3>1, <3>2
  <2> QED
    BY <2>1 DEF RewardsCovered
<1>18. PayoutsCovered'
  <2>1. \A ca \in payouts : ca[1] \in Chains /\ ca[1] # c
    BY <1>1, <1>2, <1>3
  <2>2. \A ca \in payouts' : committeeData'[ca[1]].payments[ca[2]] > 0
    BY <1>1, <1>2, <1>6, <2>1 DEF PayoutsCovered
  <2>3. \A d \in Chains : Due(d)' = Due(d)
    BY <1>2 DEF Due
  <2>4. Due(c) = {}
    BY <2>1 DEF Due
  <2>5. ASSUME NEW d \in Chains
        PROVE  paid'[d] * (100 * committeeData'[d].samples)
                 + pools'[d] * SumFunctionOnSet(committeeData'[d].payments, Due(d)')
                   <= pools'[d] * (100 * committeeData'[d].samples)
    <3>1. CASE d = c
      <4>1. SumFunctionOnSet(committeeData'[c].payments, {}) = 0
        BY SumEmpty
      <4> QED
        <5>1. /\ paid'[d] = 0 /\ pools'[d] = 0 /\ committeeData'[d].samples = 0
              /\ SumFunctionOnSet(committeeData'[d].payments, Due(d)') = 0
          BY <1>5, <1>6, <1>7, <2>3, <2>4, <3>1, <4>1
        <5>2. 0 * (100 * 0) + 0 * 0 <= 0 * (100 * 0)
          OBVIOUS
        <5> QED
          BY <5>1, <5>2
    <3>2. CASE d # c
      <4>1. paid'[d] = paid[d] /\ Due(d)' = Due(d) /\ pools'[d] = pools[d] /\ committeeData'[d] = committeeData[d]
        BY <1>6, <1>7, <2>3, <3>2
      <4> QED
        BY <1>1, <4>1 DEF PayoutsCovered
    <3> QED
      BY <3>1, <3>2
  <2>6. ASSUME NEW d \in Chains, paid'[d] # 0
        PROVE  d \in Payable'
    <3>1. d # c
      BY <1>7, <2>6
    <3>2. paid[d] # 0 /\ committeeData'[d] = committeeData[d]
      BY <1>6, <1>7, <2>6, <3>1
    <3> QED
      BY <1>1, <3>2 DEF PayoutsCovered, Payable
  <2> QED
    BY <1>2, <2>2, <2>5, <2>6 DEF PayoutsCovered
<1> QED
  BY <1>8, <1>9, <1>11, <1>16, <1>17, <1>18 DEF LedgerInv

\* Steps that change neither balances nor stakes, with no reward under way afterwards.
LEMMA IdleInv ==
  ASSUME LedgerInv, StakingInv', BalanceTypes', SameStakes, payouts = {}, paid = [c \in Chains |-> 0],
         UNCHANGED <<accounts, pools, supply, payouts, paid, committeeData>>
  PROVE  LedgerInv'
<1>1. StakedSupplyTracked' /\ DelegatesCovered'
  BY NoStake
<1>2. SupplyConserved' /\ SupplyType'
  BY DEF LedgerInv, SupplyConserved, SupplyType, SameStakes
<1>3. RewardsCovered' /\ PayoutsCovered'
  <2>1. \A c \in Chains : SumFunction(committeeData'[c].payments) <= 100 * committeeData'[c].samples
    BY DEF LedgerInv, RewardsCovered
  <2> QED
    BY <2>1, NonePaid
<1> QED
  BY <1>1, <1>2, <1>3 DEF LedgerInv

\* ForceUnstakeMaxPaused comes after every pool is closed.
LEMMA ForceInv ==
  ASSUME LedgerInv, StakingInv', ForceUnstakeMaxPaused
  PROVE  LedgerInv'
<1>1. /\ BalanceTypes /\ PayoutsCovered /\ validators \in [Operators -> Validator \cup {Nil}] /\ height \in Nat
      /\ payouts \subseteq Chains \X Addresses /\ paid \in [Chains -> Nat]
  BY DEF LedgerInv, StakingInv, StakingTypeOK, BalanceTypes
<1>2. PICK finish \in Nat : finish = height + Params.unstakingBlocks
  BY <1>1, ParamsAssumption
<1>3. /\ Payable = {}
      /\ validators' = [v \in Operators |->
           IF v \in MaxPaused THEN Unstaking(validators[v], finish) ELSE validators[v]]
      /\ UNCHANGED <<accounts, pools, supply, payouts, paid, committeeData, stakedAmount, nonSigners,
                     doubleSigners, height, committees>>
  BY <1>2 DEF ForceUnstakeMaxPaused, balances, byzantine, rewards
<1>4. payouts = {}
  <2>1. ASSUME NEW ca \in payouts PROVE FALSE
    <3>1. ca[1] \in Chains /\ ca[2] \in Addresses /\ committeeData[ca[1]].payments[ca[2]] > 0
      BY <1>1 DEF PayoutsCovered
    <3> QED
      BY <1>3, <3>1 DEF Payable
  <2> QED
    BY <2>1
<1>5. paid = [c \in Chains |-> 0]
  <2>1. \A c \in Chains : paid[c] = 0
    BY <1>1, <1>3 DEF PayoutsCovered
  <2> QED
    BY <1>1, <2>1
<1>6. SameStakes
  <2>1. ASSUME NEW v \in Operators
        PROVE  /\ validators'[v] = Nil <=> validators[v] = Nil
               /\ validators[v] # Nil => /\ validators'[v].committees = validators[v].committees
                                         /\ validators'[v].delegate = validators[v].delegate
    <3>1. CASE v \in MaxPaused
      <4>1. validators[v] # Nil /\ validators[v] \in Validator
        BY <1>1, <3>1 DEF MaxPaused
      <4>2. PICK val : val = Unstaking(validators[v], finish)
        OBVIOUS
      <4>3. val \in Validator
        BY <4>1, <4>2 DEF Unstaking, Validator
      <4>4. val.committees = validators[v].committees
        BY <4>1, <4>2 DEF Unstaking, Validator
      <4>5. val.delegate = validators[v].delegate
        BY <4>1, <4>2 DEF Unstaking, Validator
      <4>6. val # Nil
        BY <4>3, AddressAssumption
      <4> QED
        BY <1>3, <3>1, <4>1, <4>2, <4>4, <4>5, <4>6
    <3>2. CASE v \notin MaxPaused
      BY <1>3, <3>2
    <3> QED
      BY <3>1, <3>2
  <2> QED
    BY <1>3, <2>1 DEF SameStakes
<1>7. BalanceTypes'
  BY <1>1, <1>3 DEF BalanceTypes, CommitteesTyped
<1> QED
  BY <1>3, <1>4, <1>5, <1>6, <1>7, IdleInv

\* The voting powers of a committee are natural numbers.
LEMMA PowersType ==
  ASSUME NEW vals, NEW stake \in [Operators -> Nat]
  PROVE  AllCommittees(vals, stake) \in [Chains -> [Operators -> Nat]]
<1>1. ASSUME NEW c \in Chains
      PROVE  CommitteeMembers(c, vals, stake) \in [Operators -> Nat]
  BY DEF CommitteeMembers
<1> QED
  BY <1>1 DEF AllCommittees

\* The block is committed, and the first block begins.
LEMMA CommitInv ==
  ASSUME LedgerInv, StakingInv', Commit \/ BeginFirstBlock
  PROVE  LedgerInv'
<1>1. /\ BalanceTypes /\ PayoutsCovered /\ height \in Nat /\ stakedAmount \in [Operators -> Nat]
      /\ committees \in [1 .. height -> [Chains -> [Operators -> Nat]]]
  BY DEF LedgerInv, StakingInv, StakingTypeOK, BalanceTypes, CommitteesTyped
<1>2. /\ phase # "rewards"
      /\ UNCHANGED <<accounts, pools, supply, payouts, paid, committeeData, validators, stakedAmount, nonSigners,
                     doubleSigners>>
  BY DEF Commit, BeginFirstBlock, balances, stakes, byzantine, rewards
<1>3. payouts = {} /\ paid = [c \in Chains |-> 0]
  BY <1>1, <1>2 DEF PayoutsCovered
<1>4. SameStakes
  BY <1>2 DEF SameStakes
<1>5. CommitteesTyped'
  <2>1. CASE Commit
    <3>1. PICK now \in [Chains -> [Operators -> Nat]] : now = AllCommittees(validators, stakedAmount)
      BY <1>1, PowersType
    <3>2. /\ height' = height + 1
          /\ committees' = [h \in 1 .. height + 1 |-> IF h = height + 1 THEN now ELSE committees[h]]
      BY <2>1, <3>1 DEF Commit
    <3>3. \A h \in 1 .. height + 1 : h # height + 1 => h \in 1 .. height
      BY <1>1
    <3> QED
      BY <1>1, <3>2, <3>3 DEF CommitteesTyped
  <2>2. CASE BeginFirstBlock
    BY <1>1, <2>2 DEF BeginFirstBlock, CommitteesTyped
  <2> QED
    BY <2>1, <2>2
<1>6. BalanceTypes'
  BY <1>1, <1>2, <1>5 DEF BalanceTypes
<1> QED
  BY <1>2, <1>3, <1>4, <1>6, IdleInv

-----------------------------------------------------------------------------
(***************************************************************************)
(* The theorems.                                                           *)
(***************************************************************************)

\* The supply tracker of the genesis file.
LEMMA InitSupply ==
  ASSUME Init
  PROVE  supply = [total |-> SumFunction(accounts) + SumFunction(stakedAmount),
                   staked |-> SumFunction(stakedAmount),
                   delegatedOnly |-> SumFunction(Delegated),
                   committeeStaked |-> [c \in Chains |-> SumFunction(Behind(c))],
                   committeeDelegatedOnly |-> [c \in Chains |-> SumFunction(DelegatedTo(c))]]
<1>1. /\ stakedAmount \in [Operators -> Nat]
      /\ \A v \in Operators : validators[v] = Nil => stakedAmount[v] = 0
  BY InputAssumption DEF Init
<1>2. [v \in Operators |-> IF validators[v] # Nil /\ TRUE THEN stakedAmount[v] ELSE 0] = stakedAmount
  BY <1>1
<1>3. supply = [total |-> SumFunction(accounts) + SumFunction([v \in Operators |->
                            IF validators[v] # Nil /\ TRUE THEN stakedAmount[v] ELSE 0]),
                staked |-> SumFunction([v \in Operators |->
                            IF validators[v] # Nil /\ TRUE THEN stakedAmount[v] ELSE 0]),
                delegatedOnly |-> SumFunction(Delegated),
                committeeStaked |-> [c \in Chains |-> SumFunction(Behind(c))],
                committeeDelegatedOnly |-> [c \in Chains |-> SumFunction(DelegatedTo(c))]]
  BY DEF Init, Delegated, DelegatedTo, Behind, BehindOf
<1> QED
  BY <1>2, <1>3

\* The invariant holds of the genesis state.
LEMMA InitLedger == Init => LedgerInv
<1> SUFFICES ASSUME Init PROVE LedgerInv
  OBVIOUS
<1>1. StakingInv
  BY InitInv
<1>2. /\ accounts \in [Addresses -> Nat] /\ stakedAmount \in [Operators -> Nat]
      /\ pools = [p \in Pools |-> 0] /\ payouts = {} /\ paid = [c \in Chains |-> 0] /\ height = 1
      /\ committees = [h \in {1} |-> AllCommittees(validators, stakedAmount)]
      /\ committeeData = [c \in Chains |->
           [rootHeight |-> 0, chainHeight |-> 0, samples |-> 0, checkpoint |-> 0,
            payments |-> [a \in Addresses |-> 0], retired |-> FALSE]]
      /\ nonSigners = [v \in Operators |-> [counter |-> 0, chains |-> [c \in Chains |-> 0]]]
      /\ doubleSigners = {}
  BY InputAssumption DEF Init
<1>3. BalanceTypes
  <2>1. committeeData \in [Chains -> Data]
    BY <1>2 DEF Data
  <2>2. CommitteesTyped
    <3>1. 1 .. height = {1}
      BY <1>2
    <3> QED
      BY <1>2, <3>1, PowersType DEF CommitteesTyped
  <2> QED
    BY <1>2, <2>1, <2>2 DEF BalanceTypes
<1>4. SumFunction(accounts) \in Nat /\ SumFunction(stakedAmount) \in Nat
  BY <1>3, Totals
<1>5. \A c \in Chains : /\ SumFunction(Behind(c)) \in Nat /\ SumFunction(Delegated) \in Nat
                        /\ SumFunction(DelegatedTo(c)) \in Nat
  BY <1>3, StakeTypes
<1>6. SumFunction(Delegated) \in Nat
  BY <1>5, Finite
<1>7. /\ supply.total = SumFunction(accounts) + SumFunction(stakedAmount)
      /\ supply.staked = SumFunction(stakedAmount) /\ supply.delegatedOnly = SumFunction(Delegated)
      /\ supply.committeeStaked = [c \in Chains |-> SumFunction(Behind(c))]
      /\ supply.committeeDelegatedOnly = [c \in Chains |-> SumFunction(DelegatedTo(c))]
  BY InitSupply
<1>8. SupplyType
  BY <1>4, <1>5, <1>6, InitSupply DEF SupplyType
<1>9. SupplyConserved
  <2>1. SumFunction(pools) = 0 /\ SumFunction(paid) = 0
    BY <1>2, Finite, SumOfZeros
  <2> QED
    BY <1>4, <1>7, <2>1 DEF SupplyConserved
<1>10. StakedSupplyTracked
  <2>1. ASSUME NEW c \in Chains PROVE Bonded(c) = SumFunction(Behind(c))
    <3>1. Bonded(c) = BondedOf(validators, stakedAmount, c)
      BY DEF Bonded, BondedOf
    <3> QED
      BY <1>2, <3>1, SumBehind DEF Behind
  <2> QED
    BY <1>7, <2>1 DEF StakedSupplyTracked
<1>11. DelegatesCovered
  <2>1. \A v \in Operators : validators[v] = Nil => stakedAmount[v] = 0
    BY InputAssumption DEF Init
  <2>2. SumFunction(Delegated) >= SumFunction(Delegated)
    BY <1>6
  <2>3. \A c \in Chains : SumFunction(DelegatedTo(c)) >= SumFunction(DelegatedTo(c))
    BY <1>5
  <2> QED
    BY <1>7, <2>1, <2>2, <2>3 DEF DelegatesCovered
<1>12. ASSUME NEW c \in Chains
       PROVE  /\ committeeData[c].payments = [a \in Addresses |-> 0] /\ committeeData[c].samples = 0
              /\ SumFunction([a \in Addresses |-> 0]) = 0 /\ paid[c] = 0 /\ pools[c] = 0
              /\ SumFunctionOnSet(committeeData[c].payments, Due(c)) = 0
  <2>1. SumFunction([a \in Addresses |-> 0]) = 0
    BY Finite, SumOfZeros
  <2>2. Due(c) = {}
    BY <1>2 DEF Due
  <2>3. SumFunctionOnSet(committeeData[c].payments, {}) = 0
    BY SumEmpty
  <2> QED
    BY <1>2, <2>1, <2>2, <2>3, Finite
<1>13. RewardsCovered
  <2>1. 0 <= 100 * 0
    OBVIOUS
  <2> QED
    BY <1>12, <2>1 DEF RewardsCovered
<1>14. PayoutsCovered
  <2>1. 0 * (100 * 0) + 0 * 0 <= 0 * (100 * 0)
    OBVIOUS
  <2>2. \A c \in Chains : paid[c] * (100 * committeeData[c].samples)
                            + pools[c] * SumFunctionOnSet(committeeData[c].payments, Due(c))
                              <= pools[c] * (100 * committeeData[c].samples)
    BY <1>12, <2>1
  <2> QED
    BY <1>2, <1>12, <2>2 DEF PayoutsCovered
<1> QED
  BY <1>1, <1>3, <1>8, <1>9, <1>10, <1>11, <1>13, <1>14 DEF LedgerInv

\* Every step preserves it.
LEMMA NextLedger == LedgerInv /\ [Next]_vars => LedgerInv'
<1> SUFFICES ASSUME LedgerInv, [Next]_vars PROVE LedgerInv'
  OBVIOUS
<1>1. StakingInv'
  BY NextInv DEF LedgerInv
<1>2. ASSUME NEW v \in Operators, SlashNonSigner(v)
      PROVE  LedgerInv'
  <2>1. /\ SlashValidator(v, Params.nonSignSlash)
        /\ UNCHANGED <<balances, nonSigners, doubleSigners, committeeData, rewards, chain>>
    BY <1>2 DEF SlashNonSigner
  <2>2. PICK percent \in Nat : percent = Params.nonSignSlash
    BY ParamsAssumption
  <2> QED
    BY <1>1, <2>1, <2>2, SlashInv
<1>3. ASSUME NEW e \in pending.doubleSign, SlashDoubleSigner(e)
      PROVE  LedgerInv'
  <2>1. /\ SlashValidator(e[1], Params.doubleSignSlash) /\ e[1] \in Operators
        /\ UNCHANGED <<balances, nonSigners, doubleSigners, committeeData, rewards, chain>>
    BY <1>3 DEF SlashDoubleSigner, LedgerInv, StakingInv, StakingTypeOK
  <2>2. PICK percent \in Nat : percent = Params.doubleSignSlash
    BY ParamsAssumption
  <2> QED
    BY <1>1, <2>1, <2>2, SlashInv
<1>4. CASE Transaction
  <2>1. ASSUME NEW v \in Operators, NEW signer \in Addresses, NEW output \in Outputs, NEW n \in Amounts,
               NEW cs \in CommitteeLists, NEW compound \in Compounding, NEW delegate \in Delegations,
               Stake(v, signer, n, cs, output, delegate, compound)
        PROVE  LedgerInv'
    BY <1>1, <2>1, StakeInv
  <2>2. ASSUME NEW v \in Operators, NEW signer \in Addresses, NEW output \in Outputs, NEW n \in Amounts,
               NEW cs \in CommitteeLists, NEW compound \in Compounding,
               EditStake(v, signer, n, cs, output, compound)
        PROVE  LedgerInv'
    BY <1>1, <2>2, EditStakeInv
  <2>3. ASSUME NEW v \in Operators, NEW signer \in Addresses,
               Unstake(v, signer) \/ Pause(v, signer) \/ Unpause(v, signer)
        PROVE  LedgerInv'
    BY <1>1, <2>3, UnstakePauseInv
  <2>4. ASSUME NEW from \in Addresses, NEW to \in Addresses, NEW n \in Amounts, Send(from, to, n)
        PROVE  LedgerInv'
    BY <1>1, <2>4, SendInv
  <2>5. ASSUME NEW from \in Addresses, NEW c \in Chains, NEW n \in Amounts, Subsidy(from, c, n)
        PROVE  LedgerInv'
    BY <1>1, <2>5, SubsidyInv
  <2>6. ASSUME NEW to \in Addresses, NEW n \in Amounts, NEW mint \in BOOLEAN, DAOTransfer(to, n, mint)
        PROVE  LedgerInv'
    BY <1>1, <2>6, DAOTransferInv
  <2>7. ASSUME NEW proposer \in Operators, NEW c \in Chains, NEW rootHeight \in 1 .. height,
               NEW qc \in Certificates(c, 1 .. MaxChainHeight, rootHeight), CertificateResults(proposer, c, qc)
        PROVE  LedgerInv'
    BY <1>1, <2>7, ResultsInv
  <2> QED
    BY <1>4, <2>1, <2>2, <2>3, <2>4, <2>5, <2>6, <2>7 DEF Transaction
<1>5. CASE Ending
  BY <1>1, <1>5, EndBlockInv, DistributeInv, ClosePoolInv, ForceInv, ReleaseInv, CommitInv DEF Ending
<1>6. CASE UNCHANGED vars
  <2>1. UNCHANGED <<accounts, pools, validators, stakedAmount, supply, nonSigners, doubleSigners, committeeData,
                    payouts, paid, height, phase, committees>>
    BY <1>6 DEF vars, balances, stakes, byzantine, rewards, chain
  <2>2. BalanceTypes' /\ SupplyType' /\ SupplyConserved'
    BY <2>1 DEF LedgerInv, BalanceTypes, CommitteesTyped, SupplyType, SupplyConserved
  <2>3. SameStakes
    BY <2>1 DEF SameStakes
  <2> QED
    BY <1>1, <2>1, <2>2, <2>3, NoStake, SameRewards DEF LedgerInv
<1>7. ASSUME NEW qc \in Certificates(Self, {height - 1}, height - 1), BeginBlock(qc)
      PROVE  LedgerInv'
  BY <1>1, <1>7, BeginBlockInv
<1>8. CASE BeginFirstBlock
  BY <1>1, <1>8, CommitInv
<1> QED
  BY <1>2, <1>3, <1>4, <1>5, <1>6, <1>7, <1>8 DEF Next, Slashing

\* The inductive invariant of the ledger holds of every behaviour.
THEOREM LedgerInvHolds == Spec => []LedgerInv
BY InitLedger, NextLedger, PTL DEF Spec

\* Whatever is minted, burned, slashed, paid or returned, the supply tracker's total is what
\* accounts, pools and stakes hold, and its staked amounts are those of the validator records,
\* in total and per committee (MintToPool, SlashValidator, DistributeCommitteeRewards,
\* UpdateCommittees, DeleteValidator).
THEOREM SupplyTrackedHolds == Spec => []SupplyTracked
<1>1. LedgerInv => SupplyTracked
  BY DEF LedgerInv, SupplyTracked
<1> QED
  BY <1>1, LedgerInvHolds, PTL

\* The sums exclude negative numbers: what is paid is within the pools.
LEMMA LedgerCovered == LedgerInv => BalancesCovered
<1> SUFFICES ASSUME LedgerInv PROVE BalancesCovered
  OBVIOUS
<1>1. /\ StakingTypeOK /\ BalanceTypes /\ SupplyType /\ SupplyConserved /\ StakedSupplyTracked
      /\ DelegatesCovered /\ RewardsCovered /\ PayoutsCovered
  BY DEF LedgerInv, StakingInv
<1>2. supply.total \in Nat
  <2>1. pools \in [Pools -> Nat] /\ paid \in [Chains -> Nat]
    BY <1>1 DEF BalanceTypes
  <2>2. PICK spent \in [Pools -> Nat] : \A p \in Pools : spent[p] = IF p \in Chains THEN paid[p] ELSE 0
    <3>1. [p \in Pools |-> IF p \in Chains THEN paid[p] ELSE 0] \in [Pools -> Nat]
      BY <2>1
    <3> QED
      BY <3>1
  <2>3. \A p \in Pools : spent[p] \in Int /\ pools[p] \in Int /\ spent[p] <= pools[p]
    BY <1>1, <2>1, <2>2 DEF RewardsCovered
  <2>4. SumFunctionOnSet(spent, Pools) <= SumFunctionOnSet(pools, Pools)
    BY <2>3, Finite, SumMonotone
  <2>5. /\ Chains \in SUBSET Pools /\ (\A p \in Chains : paid[p] \in Int /\ spent[p] = paid[p])
        /\ \A p \in Pools \ Chains : spent[p] = 0
    BY <2>1, <2>2, Finite
  <2>6. SumFunctionOnSet(spent, Pools) = SumFunctionOnSet(paid, Chains)
    BY <2>5, Finite, SumOfPart
  <2>7. /\ SumFunction(paid) = SumFunctionOnSet(paid, Chains) /\ SumFunction(pools) = SumFunctionOnSet(pools, Pools)
    BY <2>1, Finite, TotalNat
  <2>8. PICK a \in Nat, p \in Nat, s \in Nat, r \in Nat, t \in Int :
           /\ a = SumFunction(accounts) /\ p = SumFunction(pools) /\ s = SumFunction(stakedAmount)
           /\ r = SumFunction(paid) /\ t = supply.total
    BY <1>1, Totals DEF SupplyType
  <2>9. t + r = a + p + s /\ r <= p
    BY <1>1, <2>4, <2>6, <2>7, <2>8 DEF SupplyConserved
  <2>10. t \in Nat
    BY <2>9
  <2> QED
    BY <2>8, <2>10
<1>3. supply.staked \in Nat
  BY <1>1, Totals DEF StakedSupplyTracked
<1>4. ASSUME NEW c \in Chains
      PROVE  supply.committeeStaked[c] \in Nat /\ supply.committeeDelegatedOnly[c] \in Nat
             /\ supply.delegatedOnly \in Nat
  <2>1. /\ SumFunction(Behind(c)) \in Nat /\ SumFunction(Delegated) \in Nat
        /\ SumFunction(DelegatedTo(c)) \in Nat
    BY <1>1, StakeTypes
  <2>2. Bonded(c) = BondedOf(validators, stakedAmount, c) /\ stakedAmount \in [Operators -> Nat]
    BY <1>1 DEF Bonded, BondedOf, BalanceTypes
  <2>3. supply.committeeStaked[c] = SumFunction(Behind(c))
    BY <1>1, <2>2, SumBehind DEF StakedSupplyTracked, Behind
  <2>4. PICK x \in Int, y \in Int, d \in Nat, e \in Nat :
           /\ x = supply.delegatedOnly /\ y = supply.committeeDelegatedOnly[c]
           /\ d = SumFunction(Delegated) /\ e = SumFunction(DelegatedTo(c))
    BY <1>1, <2>1 DEF SupplyType
  <2>5. x >= d /\ y >= e
    BY <1>1, <2>4 DEF DelegatesCovered
  <2>6. x \in Nat /\ y \in Nat
    BY <2>5
  <2> QED
    BY <2>1, <2>3, <2>4, <2>6
<1>5. supply \in [total : Nat, staked : Nat, delegatedOnly : Nat,
                  committeeStaked : [Chains -> Nat], committeeDelegatedOnly : [Chains -> Nat]]
  <2>1. supply.delegatedOnly \in Nat
    BY <1>4, Finite
  <2>2. supply.committeeStaked \in [Chains -> Nat]
    BY <1>1, <1>4 DEF SupplyType
  <2>3. supply.committeeDelegatedOnly \in [Chains -> Nat]
    BY <1>1, <1>4 DEF SupplyType
  <2> QED
    BY <1>1, <1>2, <1>3, <2>1, <2>2, <2>3 DEF SupplyType
<1>6. TypeOK
  BY <1>1, <1>5 DEF TypeOK, BalanceTypes, Data
<1> QED
  BY <1>1, <1>6 DEF BalancesCovered, BalanceTypes

\* No subtraction of the ledger runs short: every account, pool and supply counter stays a
\* natural number, no reward exceeds its pool, and the delegated supply covers the delegates
\* (AccountSub, PoolSub, SubFromTotalSupply, DistributeCommitteeRewards, DeleteValidator).
THEOREM BalancesCoveredHolds == Spec => []BalancesCovered
BY LedgerInvHolds, LedgerCovered, PTL
=============================================================================
