------------------------------- MODULE Ledger -------------------------------
(***************************************************************************)
(* The token ledger of the root chain (package fsm): accounts, reward      *)
(* pools, validators and the supply tracker, over the blocks that change   *)
(* them.  A block is BeginBlock, any number of transactions, and EndBlock. *)
(*                                                                         *)
(* The state machine is sequential.  The loops of the code are unrolled    *)
(* into steps that nothing can come between: the slashes of a certificate  *)
(* are pending and are applied one by one before the next transaction, the *)
(* rewards of a block are paid one by one and then each pool is closed,    *)
(* and the validators due at a height are released one by one.  Where the  *)
(* order within a loop is left open, its iterations commute.               *)
(*                                                                         *)
(* A transaction that fails is rolled back with the slash tracker          *)
(* (ApplyTransactions), so only those that succeed are steps.  Errors of   *)
(* BeginBlock and EndBlock fail the block: no step is enabled.  A          *)
(* certificate here carries no swap orders and no DEX batch, and sends     *)
(* carry no vesting schedule.                                              *)
(***************************************************************************)
EXTENDS Integers, FiniteSets, Functions

CONSTANTS
  Addresses,       \* addresses, as the numbers their bytes are
  Operators,       \* those that may be validators
  Chains,          \* committee ids
  Self,            \* the chain id of this chain
  DAO,             \* the id of the DAO pool
  Nil,             \* no validator
  Params,          \* the governance parameters and the chain's configuration
  CommitteeScoped, \* IsFeatureEnabled(2)
  Fee,             \* the fee of every transaction
  Faucet,          \* the faucet address, or Nil
  GenesisAccounts, GenesisValidators, GenesisStake, \* the genesis file
  Amounts, CommitteeLists, Outputs, Delegations, Compounding, \* what messages draw from
  Equivocators, EvidenceHeights,                              \* who double-signs, and when
  Payments, Checkpoints, Retirements,                         \* what certificates draw from
  MaxHeight, MaxSupply, MaxChainHeight                        \* bounds of the exploration

Pools == Chains \cup {DAO}
\* A validator record; its staked amount is kept apart, in stakedAmount.
Validator == [committees : SUBSET Chains, output : Addresses, delegate : BOOLEAN,
              compound : BOOLEAN, maxPausedHeight : Nat, unstakingHeight : Nat]

ASSUME AddressAssumption ==
  /\ Operators \subseteq Addresses /\ Addresses \subseteq Nat
  /\ Chains \subseteq Nat /\ Self \in Chains /\ DAO \notin Chains
  /\ Nil \notin Validator
  /\ IsFiniteSet(Addresses) /\ IsFiniteSet(Chains)
\* ValidatorParams.Check
ASSUME ParamsAssumption ==
  /\ Params.unstakingBlocks \in Nat \ {0} /\ Params.maxPauseBlocks \in Nat \ {0}
  /\ Params.delegateUnstakingBlocks \in Nat \ {0, 1}
  /\ Params.nonSignWindow \in Nat \ {0} /\ Params.maxNonSign \in 0 .. Params.nonSignWindow
  /\ Params.nonSignSlash \in 0 .. 100 /\ Params.doubleSignSlash \in 0 .. 100
  /\ Params.maxSlash \in 1 .. 100 /\ Params.earlyWithdrawalPenalty \in 0 .. 100
  /\ Params.minimumStake \in Nat /\ Params.minimumDelegateStake \in Nat
  /\ Params.maxCommitteeSize \in Nat \ {0}
  /\ Params.subsidizedPercent \in 1 .. 100 /\ Params.daoPercent \in 0 .. 100
  /\ Params.tokensPerBlock \in Nat /\ Params.blocksPerHalvening \in Nat \ {0}
  /\ CommitteeScoped \in BOOLEAN
ASSUME InputAssumption ==
  /\ Amounts \subseteq Nat \ {0} /\ Fee \in Nat \ {0}
  /\ CommitteeLists \subseteq SUBSET Chains \ {{}}
  /\ Outputs \subseteq Addresses
  /\ Delegations \subseteq BOOLEAN /\ Compounding \subseteq BOOLEAN
  /\ Equivocators \subseteq Operators /\ EvidenceHeights \subseteq Nat
  /\ \A p \in Payments : p \in [Addresses -> 0 .. 100] /\ SumFunction(p) <= 100
  /\ GenesisAccounts \in [Addresses -> Nat]
  /\ GenesisValidators \in [Operators -> Validator \cup {Nil}]
  /\ GenesisStake \in [Operators -> Nat]
  /\ \A v \in Operators : GenesisValidators[v] # Nil =>
       GenesisValidators[v].maxPausedHeight = 0 /\ GenesisValidators[v].unstakingHeight = 0
  /\ \A v \in Operators : GenesisValidators[v] = Nil => GenesisStake[v] = 0
  /\ Checkpoints \subseteq Nat /\ Retirements \subseteq BOOLEAN
  /\ MaxHeight \in Nat /\ MaxChainHeight \in Nat

VARIABLES
  height, phase,   \* the block being applied and how far: begin, txs, rewards, unstake
  accounts, pools, \* balances
  validators,      \* the validator records
  stakedAmount,    \* their StakedAmount; 0 without a record
  supply,          \* the supply tracker
  unstakingKeys,   \* keys <<height, operator>> under the unstaking prefix
  pausedKeys,      \* keys <<height, operator>> under the paused prefix
  nonSigners,      \* non-signer counters of the window, in total and per chain
  doubleSigners,   \* double signs already punished, <<operator, height>>
  slashTracker,    \* percent slashed in this block, per validator and committee
  committeeData,   \* per committee: its last certificate, payments, checkpoint, retirement
  committees,      \* voting powers of each committee at the start of every block so far
  pending,         \* the slashes of the certificate being handled
  payouts, paid    \* the rewards still to pay in this EndBlock, and the total per pool

balances == <<accounts, pools>>
stakes == <<validators, stakedAmount, supply, unstakingKeys, pausedKeys>>
byzantine == <<nonSigners, doubleSigners, slashTracker, pending>>
rewards == <<payouts, paid>>
chain == <<height, phase, committees>>
vars == <<balances, stakes, byzantine, rewards, chain, committeeData>>

-----------------------------------------------------------------------------
(***************************************************************************)
(* Arithmetic and committees.                                              *)
(***************************************************************************)

\* What is left of an amount after a percentage is taken away, rounded down.
ReducePercentage(amount, percent) ==
  IF percent >= 100 THEN 0 ELSE (amount * (100 - percent)) \div 100

PercentageDiv(dividend, divisor) ==
  IF divisor = 0 THEN 0
  ELSE LET p == (dividend * 100) \div divisor IN IF p > 100 THEN 100 ELSE p

\* The validators that pass the filter of getValidatorSet for chain c.
Eligible(c, vals) ==
  {v \in Operators : /\ vals[v] # Nil
                     /\ ~vals[v].delegate /\ c \in vals[v].committees
                     /\ vals[v].unstakingHeight = 0 /\ vals[v].maxPausedHeight = 0}

\* Sorted by stake, then by address, highest first.
Outranks(v, w, stake) == stake[v] > stake[w] \/ (stake[v] = stake[w] /\ v > w)

\* The committee of c as voting powers; an operator that is not a member has none.
CommitteeMembers(c, vals, stake) ==
  [v \in Operators |->
     LET all == Eligible(c, vals)
     IN  IF /\ v \in all
            /\ Cardinality({w \in all : Outranks(w, v, stake)}) < Params.maxCommitteeSize
         THEN stake[v] ELSE 0]

AllCommittees(vals, stake) == [c \in Chains |-> CommitteeMembers(c, vals, stake)]

\* A certificate is signed by members with +2/3 of the power.
Maj23(power, signers) ==
  /\ \A v \in signers : power[v] > 0
  /\ SumFunctionOnSet(power, signers) >= (2 * SumFunction(power)) \div 3 + 1

NonSignersOf(power, signers) == {v \in Operators : power[v] > 0} \ signers

-----------------------------------------------------------------------------
(***************************************************************************)
(* The supply tracker and the validator record.                            *)
(***************************************************************************)

\* Wrong: the new stake goes to the old committees.
RecommittedInPlace(staked, old, oldCommittees, new, newCommittees) ==
  [c \in Chains |-> staked[c] + (IF c \in oldCommittees THEN new - old ELSE 0)
                              + (IF c \in newCommittees /\ old = 0 THEN new ELSE 0)]

\* UpdateCommittees: the stake of a validator moves from its old committees to the new.
Recommitted(staked, old, oldCommittees, new, newCommittees) ==
  [c \in Chains |-> staked[c] - (IF c \in oldCommittees THEN old ELSE 0)
                              + (IF c \in newCommittees THEN new ELSE 0)]

\* UpdateValidatorStake, on the supply tracker: amount is added to the stake of val.
SupplyAfterStake(val, stake, newCommittees, amount) ==
  [supply EXCEPT
     !.staked = @ + amount,
     !.delegatedOnly = IF val.delegate THEN @ + amount ELSE @,
     !.committeeStaked = Recommitted(@, stake, val.committees, stake + amount, newCommittees),
     !.committeeDelegatedOnly =
        IF val.delegate THEN Recommitted(@, stake, val.committees, stake + amount, newCommittees)
        ELSE @]

\* DeleteValidator, on the supply tracker.
SupplyAfterDelete(val, stake) ==
  [supply EXCEPT
     !.staked = @ - stake,
     !.delegatedOnly = IF val.delegate THEN @ - stake ELSE @,
     !.committeeStaked = Recommitted(@, stake, val.committees, 0, {}),
     !.committeeDelegatedOnly =
        IF val.delegate THEN Recommitted(@, stake, val.committees, 0, {}) ELSE @]

UnstakingBlocks(val) ==
  IF val.delegate THEN Params.delegateUnstakingBlocks ELSE Params.unstakingBlocks

\* Wrong: the record stays paused.
UnstakingPaused(val, finishHeight) == [val EXCEPT !.unstakingHeight = finishHeight]

\* SetValidatorUnstaking: the record of a validator that starts to unstake is not paused.
Unstaking(val, finishHeight) ==
  [val EXCEPT !.unstakingHeight = finishHeight, !.maxPausedHeight = 0]

\* SetValidatorUnpaused deletes the key of the record's own max paused height.
PausedKey(v) == {<<validators[v].maxPausedHeight, v>>}

CanPause(v) == /\ validators[v] # Nil
               /\ validators[v].maxPausedHeight = 0 /\ validators[v].unstakingHeight = 0
               /\ ~validators[v].delegate

Init ==
  /\ height = 1 /\ phase = "begin"
  /\ accounts = GenesisAccounts /\ pools = [p \in Pools |-> 0]
  /\ validators = GenesisValidators /\ stakedAmount = GenesisStake
  /\ LET Bonded(P(_)) == SumFunction([v \in Operators |->
           IF validators[v] # Nil /\ P(validators[v]) THEN stakedAmount[v] ELSE 0])
     IN  supply = [total |-> SumFunction(accounts) + Bonded(LAMBDA x : TRUE),
                   staked |-> Bonded(LAMBDA x : TRUE),
                   delegatedOnly |-> Bonded(LAMBDA x : x.delegate),
                   committeeStaked |-> [c \in Chains |-> Bonded(LAMBDA x : c \in x.committees)],
                   committeeDelegatedOnly |->
                     [c \in Chains |-> Bonded(LAMBDA x : x.delegate /\ c \in x.committees)]]
  /\ unstakingKeys = {} /\ pausedKeys = {}
  /\ nonSigners = [v \in Operators |-> [counter |-> 0, chains |-> [c \in Chains |-> 0]]]
  /\ doubleSigners = {}
  /\ slashTracker = [v \in Operators |-> [c \in Chains |-> 0]]
  /\ committeeData = [c \in Chains |->
       [rootHeight |-> 0, chainHeight |-> 0, samples |-> 0, checkpoint |-> 0,
        payments |-> [a \in Addresses |-> 0], retired |-> FALSE]]
  /\ committees = [h \in {1} |-> AllCommittees(validators, stakedAmount)]
  /\ pending = [chain |-> Self, nonSign |-> {}, doubleSign |-> {}]
  /\ payouts = {} /\ paid = [c \in Chains |-> 0]

-----------------------------------------------------------------------------
(***************************************************************************)
(* Certificate results, and the slashes they bring.                        *)
(***************************************************************************)

\* LoadMinimumEvidenceHeight, of the state at height h.
MinimumEvidenceHeight(h) == IF h < Params.unstakingBlocks THEN 0 ELSE h - Params.unstakingBlocks

\* ProcessDSE: the double signs of members of committee c that replicas accept.  The
\* minimum height is asked of the state at the height of the evidence itself.
DoubleSigns(c, rootHeight) ==
  {e \in Equivocators \X EvidenceHeights :
     /\ e[2] \in 1 .. rootHeight /\ committees[e[2]][c][e[1]] > 0
     /\ e[2] >= MinimumEvidenceHeight(e[2])}

\* The certificates a quorum of c may deliver.
Certificates(c, heights, rootHeight) ==
  [height : heights, rootHeight : {rootHeight}, signers : SUBSET Operators,
   doubleSigners : SUBSET DoubleSigns(c, rootHeight),
   payments : Payments, checkpoint : Checkpoints, retired : Retirements]

NonSignCount(v, c) ==
  IF CommitteeScoped THEN nonSigners[v].chains[c] ELSE nonSigners[v].counter

\* Whether this block ends the NonSignWindow.
WindowEnds == height % Params.nonSignWindow = 0

\* SlashAndResetNonSigners: those who missed too many signatures of the window.
Offenders(c) ==
  IF WindowEnds THEN {v \in Operators : NonSignCount(v, c) > Params.maxNonSign} ELSE {}

AutoPaused(c) == {v \in Offenders(c) : CanPause(v) /\ (CommitteeScoped => c \in validators[v].committees)}

\* The counters after the reset at the end of a window and the increments for this certificate.
NonSignersAfter(c, absent) ==
  [v \in Operators |->
     LET counted == IF WindowEnds THEN [counter |-> 0, chains |-> [d \in Chains |-> 0]]
                                  ELSE nonSigners[v]
     IN  IF v \in absent
         THEN [counter |-> counted.counter + 1,
               chains |-> [counted.chains EXCEPT ![c] = @ + 1]]
         ELSE counted]

\* Wrong: the certificate is not counted as another sample.
CombinedDataOneSample(c, qc, absentPercent) ==
  [committeeData[c] EXCEPT
     !.rootHeight = qc.rootHeight, !.chainHeight = qc.height, !.samples = 1,
     !.payments = [a \in Addresses |-> @[a] + ReducePercentage(qc.payments[a], absentPercent)],
     !.checkpoint = IF qc.checkpoint # 0 THEN qc.checkpoint ELSE @,
     !.retired = @ \/ (qc.retired /\ c # Self)]

\* Combine: payments of several certificates add up and are averaged over the samples.
CombinedData(c, qc, absentPercent) ==
  [committeeData[c] EXCEPT
     !.rootHeight = qc.rootHeight, !.chainHeight = qc.height, !.samples = @ + 1,
     !.payments = [a \in Addresses |-> @[a] + ReducePercentage(qc.payments[a], absentPercent)],
     !.checkpoint = IF qc.checkpoint # 0 THEN qc.checkpoint ELSE @,
     !.retired = @ \/ (qc.retired /\ c # Self)]

HandleCertificateResults(c, qc, power) ==
  LET absent == NonSignersOf(power, qc.signers)
      absentPercent == PercentageDiv(SumFunctionOnSet(power, absent), SumFunction(power))
  IN  /\ ~committeeData[c].retired
      /\ qc.rootHeight >= committeeData[c].rootHeight
      /\ qc.height > committeeData[c].chainHeight
      /\ qc.checkpoint # 0 => qc.checkpoint > committeeData[c].checkpoint
      /\ qc.doubleSigners \cap doubleSigners = {}
      /\ validators' = [v \in Operators |->
           IF v \in AutoPaused(c)
           THEN [validators[v] EXCEPT !.maxPausedHeight = height + Params.maxPauseBlocks]
           ELSE validators[v]]
      /\ pausedKeys' = pausedKeys \cup {<<height + Params.maxPauseBlocks, v>> : v \in AutoPaused(c)}
      /\ nonSigners' = NonSignersAfter(c, absent)
      /\ doubleSigners' = doubleSigners \cup qc.doubleSigners
      /\ pending' = [chain |-> c, nonSign |-> Offenders(c), doubleSign |-> qc.doubleSigners]
      /\ committeeData' = [committeeData EXCEPT ![c] = CombinedData(c, qc, absentPercent)]
      /\ UNCHANGED <<stakedAmount, unstakingKeys, slashTracker>>

\* The slash of one validator by committee c, limited per block and committee (SlashValidator).
Spared(v, c) ==
  validators[v] # Nil =>
    CommitteeScoped /\ (c \notin validators[v].committees \/ slashTracker[v][c] >= Params.maxSlash)

AtLimit(v, c, percent) == CommitteeScoped /\ slashTracker[v][c] + percent >= Params.maxSlash

\* Wrong: each slash is limited, their sum is not.
SlashPercentEach(v, c, percent) ==
  IF percent >= Params.maxSlash THEN Params.maxSlash ELSE percent

SlashPercent(v, c, percent) ==
  IF AtLimit(v, c, percent) THEN Params.maxSlash - slashTracker[v][c] ELSE percent

CommitteesAfterSlash(v, c, percent) ==
  IF AtLimit(v, c, percent) THEN validators[v].committees \ {c} ELSE validators[v].committees

StakeAfterSlash(v, c, percent) ==
  ReducePercentage(stakedAmount[v], SlashPercent(v, c, percent))

TrackSlash(v, c, percent) ==
  slashTracker' = IF CommitteeScoped
                  THEN [slashTracker EXCEPT ![v][c] = @ + SlashPercent(v, c, percent)]
                  ELSE slashTracker

\* Nothing is left of the stake: the validator is removed.
SlashAway(v, c, percent) ==
  /\ ~Spared(v, c) /\ StakeAfterSlash(v, c, percent) = 0
  /\ TrackSlash(v, c, percent)
  /\ supply' = [SupplyAfterDelete(validators[v], stakedAmount[v])
                  EXCEPT !.total = @ - stakedAmount[v]]
  /\ validators' = [validators EXCEPT ![v] = Nil]
  /\ stakedAmount' = [stakedAmount EXCEPT ![v] = 0]
  /\ UNCHANGED <<unstakingKeys, pausedKeys>>

\* SetValidatorUnstakingIfBelowMinimum
BelowMinimum(val, stake) ==
  /\ val.unstakingHeight = 0
  /\ stake < (IF val.delegate THEN Params.minimumDelegateStake ELSE Params.minimumStake)

\* A part of the stake is burned, and a validator that falls below the minimum unstakes.
SlashPart(v, c, percent) ==
  LET val == validators[v]
      after == StakeAfterSlash(v, c, percent)
      burned == stakedAmount[v] - after
      slashed == [val EXCEPT !.committees = CommitteesAfterSlash(v, c, percent)]
      finish == height + UnstakingBlocks(val)
  IN  /\ ~Spared(v, c) /\ after # 0
      /\ TrackSlash(v, c, percent)
      /\ supply' = [supply EXCEPT
           !.total = @ - burned, !.staked = @ - burned,
           !.committeeStaked = Recommitted(@, stakedAmount[v], val.committees, after, slashed.committees)]
      /\ stakedAmount' = [stakedAmount EXCEPT ![v] = after]
      /\ \/ /\ BelowMinimum(val, after)
            /\ validators' = [validators EXCEPT ![v] = Unstaking(slashed, finish)]
            /\ unstakingKeys' = unstakingKeys \cup {<<finish, v>>}
            /\ pausedKeys' = IF val.maxPausedHeight # 0 THEN pausedKeys \ PausedKey(v) ELSE pausedKeys
         \/ /\ ~BelowMinimum(val, after)
            /\ validators' = [validators EXCEPT ![v] = slashed]
            /\ UNCHANGED <<unstakingKeys, pausedKeys>>

SlashValidator(v, percent) ==
  \/ SlashAway(v, pending.chain, percent)
  \/ SlashPart(v, pending.chain, percent)
  \/ Spared(v, pending.chain) /\ UNCHANGED <<stakes, slashTracker>>

\* HandleByzantine settles the non-signers first and then punishes double signs.
SlashNonSigner(v) ==
  /\ v \in pending.nonSign
  /\ SlashValidator(v, Params.nonSignSlash)
  /\ pending' = [pending EXCEPT !.nonSign = @ \ {v}]
  /\ UNCHANGED <<balances, nonSigners, doubleSigners, committeeData, rewards, chain>>

SlashDoubleSigner(e) ==
  /\ pending.nonSign = {} /\ e \in pending.doubleSign
  /\ SlashValidator(e[1], Params.doubleSignSlash)
  /\ pending' = [pending EXCEPT !.doubleSign = @ \ {e}]
  /\ UNCHANGED <<balances, nonSigners, doubleSigners, committeeData, rewards, chain>>

SlashesDone == pending.nonSign = {} /\ pending.doubleSign = {}

-----------------------------------------------------------------------------
(***************************************************************************)
(* BeginBlock.                                                             *)
(***************************************************************************)

\* GetSubsidizedCommittees: committees with enough stake behind them, and always this chain.
SubsidizedCommittees ==
  {c \in Chains : /\ PercentageDiv(supply.committeeStaked[c], supply.staked) >= Params.subsidizedPercent
                  /\ ~committeeData[c].retired} \cup {Self}

\* FundCommitteeRewardPools: what is minted to each pool in this block.
BlockMint ==
  LET total == Params.tokensPerBlock \div 2^(height \div Params.blocksPerHalvening)
      afterDAO == ReducePercentage(total, Params.daoPercent)
  IN  [p \in Pools |->
         CASE p = DAO -> total - afterDAO
           [] p \in SubsidizedCommittees -> afterDAO \div Cardinality(SubsidizedCommittees)
           [] OTHER -> 0]

BeginFirstBlock ==
  /\ phase = "begin" /\ height <= 1
  /\ phase' = "txs"
  /\ UNCHANGED <<balances, stakes, byzantine, rewards, committeeData, height, committees>>

\* The certificate of the last block, signed by the committee of the last height.
BeginBlock(qc) ==
  /\ phase = "begin" /\ height > 1
  /\ Maj23(committees[height - 1][Self], qc.signers)
  /\ pools' = [p \in Pools |-> pools[p] + BlockMint[p]]
  /\ supply' = [supply EXCEPT !.total = @ + SumFunction(BlockMint)]
  /\ HandleCertificateResults(Self, qc, committees[height - 1][Self])
  /\ phase' = "txs"
  /\ UNCHANGED <<accounts, rewards, height, committees>>

-----------------------------------------------------------------------------
(***************************************************************************)
(* Transactions: the fee goes to the reward pool of this chain, then the   *)
(* message is handled.                                                     *)
(***************************************************************************)

Deliver == phase = "txs" /\ SlashesDone

\* AccountDeductFees and the message's own AccountSub.
Spend(sender, amount) ==
  /\ accounts[sender] >= Fee + amount
  /\ pools' = [pools EXCEPT ![Self] = @ + Fee]

Signers(v) == {v, validators[v].output}

Send(from, to, amount) ==
  LET topUp == IF from = Faucet /\ accounts[from] < Fee + amount
               THEN Fee + amount - accounts[from] ELSE 0
      funded == [accounts EXCEPT ![from] = @ + topUp - Fee - amount]
  IN  /\ Deliver
      /\ accounts[from] + topUp >= Fee + amount
      /\ supply.total + topUp <= MaxSupply
      /\ accounts' = [funded EXCEPT ![to] = @ + amount]
      /\ pools' = [pools EXCEPT ![Self] = @ + Fee]
      /\ supply' = [supply EXCEPT !.total = @ + topUp]
      /\ UNCHANGED <<validators, stakedAmount, unstakingKeys, pausedKeys, byzantine, rewards, chain,
                     committeeData>>

Stake(v, signer, amount, cs, output, delegate, compound) ==
  LET val == [committees |-> cs, output |-> output, delegate |-> delegate,
              compound |-> compound, maxPausedHeight |-> 0, unstakingHeight |-> 0]
  IN  /\ Deliver
      /\ validators[v] = Nil /\ signer \in {v, output}
      /\ amount >= (IF delegate THEN Params.minimumDelegateStake ELSE Params.minimumStake)
      /\ Spend(signer, amount)
      /\ accounts' = [accounts EXCEPT ![signer] = @ - Fee - amount]
      /\ supply' = SupplyAfterStake(val, 0, cs, amount)
      /\ validators' = [validators EXCEPT ![v] = val]
      /\ stakedAmount' = [stakedAmount EXCEPT ![v] = amount]
      /\ UNCHANGED <<unstakingKeys, pausedKeys, byzantine, rewards, chain, committeeData>>

\* An amount below the stake is allowed and adds nothing.
EditStake(v, signer, amount, cs, output, compound) ==
  LET val == validators[v]
      added == IF amount <= stakedAmount[v] THEN 0 ELSE amount - stakedAmount[v]
  IN  /\ Deliver
      /\ val # Nil /\ signer \in Signers(v) /\ val.unstakingHeight = 0
      /\ output # val.output => signer = val.output
      /\ Spend(signer, added)
      /\ accounts' = [accounts EXCEPT ![signer] = @ - Fee - added]
      /\ supply' = SupplyAfterStake(val, stakedAmount[v], cs, added)
      /\ validators' = [validators EXCEPT ![v] =
           [val EXCEPT !.committees = cs, !.output = output, !.compound = compound]]
      /\ stakedAmount' = [stakedAmount EXCEPT ![v] = @ + added]
      /\ UNCHANGED <<unstakingKeys, pausedKeys, byzantine, rewards, chain, committeeData>>

ChargeFee(signer) ==
  /\ Spend(signer, 0)
  /\ accounts' = [accounts EXCEPT ![signer] = @ - Fee]

Unstake(v, signer) ==
  LET val == validators[v]
      finish == height + UnstakingBlocks(val)
  IN  /\ Deliver
      /\ val # Nil /\ signer \in Signers(v) /\ val.unstakingHeight = 0
      /\ ChargeFee(signer)
      /\ validators' = [validators EXCEPT ![v] = Unstaking(val, finish)]
      /\ unstakingKeys' = unstakingKeys \cup {<<finish, v>>}
      /\ pausedKeys' = IF val.maxPausedHeight # 0 THEN pausedKeys \ PausedKey(v) ELSE pausedKeys
      /\ UNCHANGED <<stakedAmount, supply, byzantine, rewards, chain, committeeData>>

Pause(v, signer) ==
  /\ Deliver
  /\ CanPause(v) /\ signer \in Signers(v)
  /\ ChargeFee(signer)
  /\ validators' = [validators EXCEPT ![v].maxPausedHeight = height + Params.maxPauseBlocks]
  /\ pausedKeys' = pausedKeys \cup {<<height + Params.maxPauseBlocks, v>>}
  /\ UNCHANGED <<stakedAmount, supply, unstakingKeys, byzantine, rewards, chain, committeeData>>

Unpause(v, signer) ==
  LET val == validators[v]
  IN  /\ Deliver
      /\ val # Nil /\ signer \in Signers(v)
      /\ val.maxPausedHeight # 0 /\ val.unstakingHeight = 0 /\ ~val.delegate
      /\ ChargeFee(signer)
      /\ validators' = [validators EXCEPT ![v].maxPausedHeight = 0]
      /\ pausedKeys' = pausedKeys \ PausedKey(v)
      /\ UNCHANGED <<stakedAmount, supply, unstakingKeys, byzantine, rewards, chain, committeeData>>

Subsidy(from, c, amount) ==
  /\ Deliver
  /\ ~committeeData[c].retired
  /\ accounts[from] >= Fee + amount
  /\ accounts' = [accounts EXCEPT ![from] = @ - Fee - amount]
  /\ pools' = [p \in Pools |-> pools[p] + (IF p = Self THEN Fee ELSE 0)
                                        + (IF p = c THEN amount ELSE 0)]
  /\ UNCHANGED <<stakes, byzantine, rewards, chain, committeeData>>

\* An approved proposal; it may mint what it pays out.
DAOTransfer(to, amount, mint) ==
  LET minted == IF mint THEN amount ELSE 0
  IN  /\ Deliver
      /\ accounts[to] >= Fee /\ pools[DAO] + minted >= amount
      /\ supply.total + minted <= MaxSupply
      /\ accounts' = [accounts EXCEPT ![to] = @ - Fee + amount]
      /\ pools' = [pools EXCEPT ![DAO] = @ + minted - amount, ![Self] = @ + Fee]
      /\ supply' = [supply EXCEPT !.total = @ + minted]
      /\ UNCHANGED <<validators, stakedAmount, unstakingKeys, pausedKeys, byzantine, rewards, chain,
                     committeeData>>

\* The results of another committee, signed at any root height so far.
CertificateResults(proposer, c, qc) ==
  LET power == committees[qc.rootHeight][c]
  IN  /\ Deliver
      /\ c # Self
      /\ ChargeFee(proposer)
      /\ Maj23(power, qc.signers)
      /\ HandleCertificateResults(c, qc, power)
      /\ UNCHANGED <<supply, rewards, chain>>

-----------------------------------------------------------------------------
(***************************************************************************)
(* EndBlock: rewards, then the paused too long, then the unstaked.         *)
(***************************************************************************)

\* The committees with payments to distribute.
Payable == {c \in Chains : \E a \in Addresses : committeeData[c].payments[a] > 0}

EndBlock ==
  /\ Deliver
  /\ phase' = "rewards"
  /\ payouts' = {ca \in Chains \X Addresses : committeeData[ca[1]].payments[ca[2]] > 0}
  /\ paid' = [c \in Chains |-> 0]
  /\ UNCHANGED <<balances, stakes, byzantine, committeeData, height, committees>>

FullReward(c, a) ==
  (committeeData[c].payments[a] * pools[c]) \div (committeeData[c].samples * 100)

IsValidator(a) == a \in Operators /\ validators[a] # Nil

\* A compounding validator stakes its whole reward; anyone else is paid less a penalty.
Compounds(a) ==
  IsValidator(a) /\ validators[a].compound /\ validators[a].unstakingHeight = 0

DistributeCommitteeReward(c, a) ==
  LET full == FullReward(c, a)
      early == ReducePercentage(full, Params.earlyWithdrawalPenalty)
      receiver == IF IsValidator(a) THEN validators[a].output ELSE a
  IN  /\ phase = "rewards" /\ <<c, a>> \in payouts
      /\ \A next \in payouts : c < next[1] \/ (c = next[1] /\ a <= next[2])
      /\ \/ /\ Compounds(a)
            /\ supply' = SupplyAfterStake(validators[a], stakedAmount[a], validators[a].committees, full)
            /\ stakedAmount' = [stakedAmount EXCEPT ![a] = @ + full]
            /\ paid' = [paid EXCEPT ![c] = @ + full]
            /\ UNCHANGED accounts
         \/ /\ ~Compounds(a)
            /\ accounts' = [accounts EXCEPT ![receiver] = @ + early]
            /\ paid' = [paid EXCEPT ![c] = @ + early]
            /\ UNCHANGED <<supply, stakedAmount>>
      /\ payouts' = payouts \ {<<c, a>>}
      /\ UNCHANGED <<pools, validators, unstakingKeys, pausedKeys, byzantine, chain, committeeData>>

\* Wrong: nothing is burned.
CloseRewardPoolUnburned(c) ==
  /\ phase = "rewards" /\ c \in Payable
  /\ \A next \in payouts : c < next[1]
  /\ pools' = [pools EXCEPT ![c] = 0]
  /\ paid' = [paid EXCEPT ![c] = 0]
  /\ committeeData' = [committeeData EXCEPT ![c].payments = [a \in Addresses |-> 0],
                                            ![c].samples = 0]
  /\ UNCHANGED <<accounts, stakes, byzantine, payouts, chain>>

\* What was not distributed is burned.
CloseRewardPool(c) ==
  /\ phase = "rewards" /\ c \in Payable
  /\ \A next \in payouts : c < next[1]
  /\ supply' = [supply EXCEPT !.total = @ - (pools[c] - paid[c])]
  /\ pools' = [pools EXCEPT ![c] = 0]
  /\ paid' = [paid EXCEPT ![c] = 0]
  /\ committeeData' = [committeeData EXCEPT ![c].payments = [a \in Addresses |-> 0],
                                            ![c].samples = 0]
  /\ UNCHANGED <<accounts, validators, stakedAmount, unstakingKeys, pausedKeys, byzantine,
                 payouts, chain>>

\* The validators with a paused key at this height that are not unstaking already.
MaxPaused == {v \in Operators : /\ <<height, v>> \in pausedKeys
                                /\ validators[v] # Nil /\ validators[v].unstakingHeight = 0}

ForceUnstakeMaxPaused ==
  LET finish == height + Params.unstakingBlocks
  IN  /\ phase = "rewards" /\ Payable = {}
      /\ phase' = "unstake"
      /\ validators' = [v \in Operators |->
           IF v \in MaxPaused THEN Unstaking(validators[v], finish) ELSE validators[v]]
      /\ unstakingKeys' = unstakingKeys \cup {<<finish, v>> : v \in MaxPaused}
      /\ pausedKeys' = {k \in pausedKeys :
           /\ k[1] # height
           /\ ~(k[2] \in MaxPaused /\ k[1] = validators[k[2]].maxPausedHeight)}
      /\ UNCHANGED <<stakedAmount, supply, balances, byzantine, rewards, committeeData, height,
                     committees>>

\* A key at this height returns the stake to the output address and deletes the validator;
\* a key without a validator is an error, which fails the block.
DeleteFinishedUnstaking(v) ==
  LET val == validators[v]
  IN  /\ phase = "unstake" /\ <<height, v>> \in unstakingKeys
      /\ val # Nil
      /\ accounts' = [accounts EXCEPT ![val.output] = @ + stakedAmount[v]]
      /\ supply' = SupplyAfterDelete(val, stakedAmount[v])
      /\ validators' = [validators EXCEPT ![v] = Nil]
      /\ stakedAmount' = [stakedAmount EXCEPT ![v] = 0]
      /\ unstakingKeys' = unstakingKeys \ {<<height, v>>}
      /\ UNCHANGED <<pools, pausedKeys, byzantine, rewards, chain, committeeData>>

\* The block is committed: the next one starts with a fresh slash tracker.
Commit ==
  /\ phase = "unstake" /\ height < MaxHeight
  /\ \A v \in Operators : <<height, v>> \notin unstakingKeys
  /\ height' = height + 1 /\ phase' = "begin"
  /\ committees' = [h \in 1 .. height + 1 |->
       IF h = height + 1 THEN AllCommittees(validators, stakedAmount) ELSE committees[h]]
  /\ slashTracker' = [v \in Operators |-> [c \in Chains |-> 0]]
  /\ UNCHANGED <<balances, stakes, nonSigners, doubleSigners, pending, rewards, committeeData>>

-----------------------------------------------------------------------------
Slashing ==
  \/ \E v \in Operators : SlashNonSigner(v)
  \/ \E e \in pending.doubleSign : SlashDoubleSigner(e)

Transaction ==
  \/ \E from, to \in Addresses, n \in Amounts : Send(from, to, n)
  \/ \E v \in Operators, signer \in Addresses, output \in Outputs, n \in Amounts,
        cs \in CommitteeLists, compound \in Compounding :
       \/ \E delegate \in Delegations : Stake(v, signer, n, cs, output, delegate, compound)
       \/ EditStake(v, signer, n, cs, output, compound)
  \/ \E v \in Operators, signer \in Addresses :
       Unstake(v, signer) \/ Pause(v, signer) \/ Unpause(v, signer)
  \/ \E from \in Addresses, c \in Chains, n \in Amounts : Subsidy(from, c, n)
  \/ \E to \in Addresses, n \in Amounts, mint \in BOOLEAN : DAOTransfer(to, n, mint)
  \/ \E proposer \in Operators, c \in Chains, rootHeight \in 1 .. height :
       \E qc \in Certificates(c, 1 .. MaxChainHeight, rootHeight) : CertificateResults(proposer, c, qc)

Ending ==
  \/ EndBlock
  \/ \E c \in Chains, a \in Addresses : DistributeCommitteeReward(c, a)
  \/ \E c \in Chains : CloseRewardPool(c)
  \/ ForceUnstakeMaxPaused
  \/ \E v \in Operators : DeleteFinishedUnstaking(v)
  \/ Commit

Next ==
  \/ BeginFirstBlock
  \/ \E qc \in Certificates(Self, {height - 1}, height - 1) : BeginBlock(qc)
  \/ Slashing
  \/ Transaction
  \/ Ending

Spec == Init /\ [][Next]_vars

-----------------------------------------------------------------------------
(***************************************************************************)
(* Correctness.                                                            *)
(***************************************************************************)

\* The types of the validator life cycle.
StakingTypeOK ==
  /\ height \in Nat \ {0} /\ phase \in {"begin", "txs", "rewards", "unstake"}
  /\ validators \in [Operators -> Validator \cup {Nil}]
  /\ unstakingKeys \subseteq Nat \X Operators /\ pausedKeys \subseteq Nat \X Operators
  /\ slashTracker \in [Operators -> [Chains -> Nat]]
  /\ pending \in [chain : Chains, nonSign : SUBSET Operators, doubleSign : SUBSET (Operators \X Nat)]

\* Every balance and every counter of the supply tracker is a natural number: the
\* subtractions of AccountSub, PoolSub and SubFrom...Supply never run short, and
\* DistributeCommitteeRewards never pays more than a pool holds.
TypeOK ==
  /\ StakingTypeOK
  /\ accounts \in [Addresses -> Nat] /\ pools \in [Pools -> Nat]
  /\ stakedAmount \in [Operators -> Nat]
  /\ supply \in [total : Nat, staked : Nat, delegatedOnly : Nat,
                 committeeStaked : [Chains -> Nat], committeeDelegatedOnly : [Chains -> Nat]]
  /\ nonSigners \in [Operators -> [counter : Nat, chains : [Chains -> Nat]]]
  /\ doubleSigners \subseteq Operators \X Nat
  /\ committeeData \in [Chains -> [rootHeight : Nat, chainHeight : Nat, samples : Nat,
        checkpoint : Nat, payments : [Addresses -> Nat], retired : BOOLEAN]]
  /\ payouts \subseteq Chains \X Addresses /\ paid \in [Chains -> Nat]

\* The supply tracker's total is what accounts, pools and stakes hold, whatever was minted,
\* burned, slashed, paid or returned; rewards paid out of a pool that is not closed yet are
\* still in the pool too (MintToPool, SlashValidator, DistributeCommitteeRewards).
SupplyConserved ==
  supply.total + SumFunction(paid)
    = SumFunction(accounts) + SumFunction(pools) + SumFunction(stakedAmount)

Bonded(c) == SumFunctionOnSet(stakedAmount,
  {v \in Operators : validators[v] # Nil /\ c \in validators[v].committees})

\* The staked supply, which decides the subsidies, is the stake of the validator records, in
\* total and per committee, through edits, slashes, ejections, compounding and deletion
\* (UpdateCommittees, GetSubsidizedCommittees).
StakedSupplyTracked ==
  /\ supply.staked = SumFunction(stakedAmount)
  /\ \A c \in Chains : supply.committeeStaked[c] = Bonded(c)

\* A validator that unstakes or is paused has the key that ends it, at a height still to
\* come, no validator is both, and no delegate is paused.
Indexed(v) ==
  LET val == validators[v]
  IN  /\ val.unstakingHeight # 0 =>
           /\ val.unstakingHeight >= height /\ <<val.unstakingHeight, v>> \in unstakingKeys
           /\ val.maxPausedHeight = 0
      /\ val.maxPausedHeight # 0 =>
           /\ val.maxPausedHeight >= height /\ <<val.maxPausedHeight, v>> \in pausedKeys
           /\ phase = "unstake" => val.maxPausedHeight > height
           /\ ~val.delegate

\* Every validator record has its keys, so that no stake is locked forever and nobody stays
\* paused beyond the maximum, whatever order of pauses, slashes, unstakes and forced unstakes
\* led to it (SetValidatorUnstaking, SetValidatorPaused, and the "theoretically should not
\* happen" cases of HandleMessageUnpause).
IndexConsistent == \A v \in Operators : validators[v] # Nil => Indexed(v)

\* No committee takes more than MaxSlashPerCommittee percent of a validator in one block,
\* over non-sign and double-sign slashes and several certificates (SlashTracker).
SlashWithinLimit ==
  CommitteeScoped => \A v \in Operators, c \in Chains : slashTracker[v][c] <= Params.maxSlash

\* Rewards never exceed the pool: the payments that certificates add up to stay within 100
\* percent per sample (Combine), and what is paid within the pool (DistributeCommitteeRewards).
RewardsCovered ==
  \A c \in Chains : /\ SumFunction(committeeData[c].payments) <= 100 * committeeData[c].samples
                    /\ paid[c] <= pools[c]

\* The rewards that a committee still owes in this EndBlock.
Due(c) == {a \in Addresses : <<c, a>> \in payouts}

\* While rewards are paid one by one, each pool covers those still to pay at its share of
\* them, and outside of EndBlock none is under way: the pool is not changed before it is
\* closed, although every reward is computed from it again (DistributeCommitteeRewards).
PayoutsCovered ==
  /\ phase # "rewards" => payouts = {} /\ paid = [c \in Chains |-> 0]
  /\ \A ca \in payouts : committeeData[ca[1]].payments[ca[2]] > 0
  /\ \A c \in Chains :
       LET data == committeeData[c]
           percents == 100 * data.samples
       IN  /\ paid[c] * percents + pools[c] * SumFunctionOnSet(data.payments, Due(c)) <= pools[c] * percents
           /\ paid[c] # 0 => c \in Payable

\* The stake of the delegates, in total and of a committee.
Delegated == [v \in Operators |->
  IF validators[v] # Nil /\ validators[v].delegate THEN stakedAmount[v] ELSE 0]

DelegatedTo(c) == [v \in Operators |->
  IF validators[v] # Nil /\ validators[v].delegate /\ c \in validators[v].committees
  THEN stakedAmount[v] ELSE 0]

\* The delegated supply never falls below what the delegates have staked, so that the
\* subtraction of DeleteValidator and UpdateCommittees never runs short; a slash leaves it too high
\* (SlashValidator).
DelegatesCovered ==
  /\ \A v \in Operators : validators[v] = Nil => stakedAmount[v] = 0
  /\ supply.delegatedOnly >= SumFunction(Delegated)
  /\ \A c \in Chains : supply.committeeDelegatedOnly[c] >= SumFunction(DelegatedTo(c))

\* The voting powers of every height so far are natural numbers.
CommitteesTyped == committees \in [1 .. height -> [Chains -> [Operators -> Nat]]]

\* The supply tracker agrees with what it counts: the total with all balances and stakes,
\* and the staked amounts, overall and per committee, with the validator records.
SupplyTracked == SupplyConserved /\ StakedSupplyTracked

\* No balance, pool or counter runs short, no reward exceeds its pool, and no delegate's stake
\* exceeds what is counted as delegated.
BalancesCovered ==
  TypeOK /\ CommitteesTyped /\ RewardsCovered /\ PayoutsCovered /\ DelegatesCovered
=============================================================================
