----------------------------- MODULE BFTProofs -----------------------------
(***************************************************************************)
(* What a validator signs, what it stays locked on and what is decided, in *)
(* the detailed model of consensus: for every committee, any powers,       *)
(* rounds, heights and root heights, any messages lost or late, and any    *)
(* resets, syncs and restarts.                                             *)
(***************************************************************************)
EXTENDS BFT, Sums, TLAPS

\* The votes and leader messages n has signed.
SignedBy(n) == {x \in msgs : x.type \in {"vote", "leader"} /\ x.from = n}

\* A view below the heights n knows, or that the others have left.
Passed(v, n) ==
  \/ Outrun(v.height)
  \/ v.height < ChainHeight(n)
  \/ v.height = ChainHeight(n) /\ v.rootHeight < rootHeight[n]

\* The same of its height alone.
Closed(v, n) == Outrun(v.height) \/ v.height < ChainHeight(n)

\* A reset that clears the lock is waiting.
Unlocks(n) == \E i \in DOMAIN resets[n] : ~resets[n][i]

\* A view is never ahead of the chain or of the root chain, and not behind them unless a
\* reset is waiting or to come.
ViewReached(n) ==
  /\ view[n].height <= ChainHeight(n) /\ view[n].rootHeight <= rootHeight[n]
  /\ ~syncing[n] /\ resets[n] = <<>> =>
       view[n].height = ChainHeight(n) /\ view[n].rootHeight = rootHeight[n]

\* A handler that votes finds nothing in its stores but messages of its own heights.
EpochCurrent(n) ==
  resets[n] = <<>> \/ (overtaken[n] = 0 /\ view[n].phase > Election) =>
    epochs[n] = {<<view[n].height, view[n].rootHeight>>}

\* What a validator has signed lies behind its view.
SignedBehind(n) ==
  \A x \in SignedBy(n) : Outrun(x.header.height) \/ Less(x.header, view[n])

\* When a reset takes a validator back to round 0, it has signed nothing at the heights
\* it goes to, and nothing at all at its height if the reset clears the lock.
ResetsPass(n) ==
  /\ syncing[n] \/ resets[n] # <<>> => \A x \in SignedBy(n) : Passed(x.header, n)
  /\ syncing[n] \/ Unlocks(n) => \A x \in SignedBy(n) : Closed(x.header, n)

\* Nor does the handler that may overtake the reset sign anything there.
OvertakersPass(n) ==
  /\ syncing[n] \/ (resets[n] # <<>> /\ overtaken[n] = 0) =>
       view[n].phase <= Election \/ Passed(view[n], n)
  /\ syncing[n] \/ (Unlocks(n) /\ overtaken[n] = 0) =>
       view[n].phase <= Election \/ Closed(view[n], n)

\* LockKept of one validator, at the height of its view: a handler that overtakes the reset
\* after a commit still votes, and sends its lock, at the height committed.
Locked(n) ==
  \A m \in msgs :
    (/\ m.type = "vote" /\ m.from = n /\ m.header.phase = PrecommitVote
     /\ m.header.height = view[n].height /\ ~Outrun(m.header.height)) =>
       /\ highQC[n] # Nil
       /\ ~Less(highQC[n].header, [m.header EXCEPT !.phase = ProposeVote])

\* NoDoubleSign of every phase: one payload for one view.
OneVoteEach ==
  \A x, y \in msgs :
    (/\ x.type = "vote" /\ y.type = "vote" /\ x.from = y.from
     /\ x.from \notin Restartable /\ ~Outrun(x.header.height)
     /\ x.header = y.header) => Payload(x) = Payload(y)

\* What is true of each validator.
Signing(n) == SignedBehind(n) /\ ResetsPass(n) /\ OvertakersPass(n)
NodeInv(n) ==
  /\ ViewReached(n) /\ EpochCurrent(n)
  /\ n \notin Restartable => Signing(n)
  /\ n \notin Restartable \cup Preempted => Locked(n)

\* A leader's certificate is of the phase before its message, in the same view.
Fresh(m) ==
  m.type = "leader" =>
    /\ m.qc.header.height = m.header.height /\ m.qc.header.rootHeight = m.header.rootHeight
    /\ m.qc.header.round = m.header.round

\* The blocks validators hold.
Blocks ==
  block \in [Node -> BlockType \cup {Nil}] /\ blockHash \in [Node -> HashType \cup {Nil}]

\* The inductive invariant.
Inv ==
  /\ TypeOK /\ OneVoteEach
  /\ \A m \in msgs : Fresh(m)
  /\ \A n \in Node : NodeInv(n)

-----------------------------------------------------------------------------
(* Types. *)

\* The phases are numbered in order.
LEMMA PhaseNumbers ==
  /\ Unknown = 0 /\ Election = 1 /\ ElectionVote = 2 /\ Propose = 3 /\ ProposeVote = 4
  /\ Precommit = 5 /\ PrecommitVote = 6 /\ Commit = 7 /\ CommitProcess = 8
  /\ RoundInterruptPhase = 9 /\ PacemakerPhase = 10
BY DEF Unknown, Election, ElectionVote, Propose, ProposeVote, Precommit, PrecommitVote,
       Commit, CommitProcess, RoundInterruptPhase, PacemakerPhase

\* The bounds are numbers.
LEMMA Bounds ==
  /\ MaxRound \in Nat /\ MaxHeight \in Nat \ {0} /\ MaxRootHeight \in Nat \ {0}
  /\ MaxOvertake \in {0, 1} /\ ResetCap \in Nat \ {0} /\ MaxRestarts \in Nat
BY BoundAssumption

\* The fields of a view.
LEMMA ViewFields ==
  ASSUME NEW v \in ViewType
  PROVE  /\ v.height \in Nat /\ v.rootHeight \in Nat /\ v.round \in Nat /\ v.phase \in Nat
         /\ v.height \in 1 .. MaxHeight + 1 /\ v.rootHeight \in 1 .. MaxRootHeight
         /\ v.round \in 0 .. MaxRound /\ v.phase \in 0 .. 10
BY Bounds, PhaseNumbers DEF ViewType

\* The fields of a header.
LEMMA HeaderFields ==
  ASSUME NEW v \in HeaderType
  PROVE  /\ v.height \in Nat /\ v.rootHeight \in Nat /\ v.round \in Nat /\ v.phase \in Nat
         /\ v.height \in 1 .. MaxHeight /\ v.rootHeight \in 1 .. MaxRootHeight
         /\ v.round \in 0 .. MaxRound /\ v.phase \in 0 .. 10
BY Bounds, PhaseNumbers DEF HeaderType

\* A view at a height still to be decided is signed.
LEMMA SignedView ==
  ASSUME NEW v \in ViewType, v.height <= MaxHeight, NEW p \in 0 .. 10
  PROVE  v \in HeaderType /\ [v EXCEPT !.phase = p] \in HeaderType
BY Bounds, PhaseNumbers DEF ViewType, HeaderType

\* The state of one validator.
LEMMA NodeTypes ==
  ASSUME TypeOK, NEW n \in Node
  PROVE  /\ view[n] \in ViewType /\ proposerKey[n] \in Node \cup {Nil}
         /\ timer[n] \in BOOLEAN /\ syncing[n] \in BOOLEAN
         /\ rootHeight[n] \in 1 .. MaxRootHeight /\ rootHeight[n] \in Nat
         /\ resets[n] \in Seq(BOOLEAN) /\ Len(resets[n]) \in Nat /\ overtaken[n] \in Nat
         /\ Len(chain[n]) \in 0 .. MaxHeight
         /\ ChainHeight(n) \in 1 .. MaxHeight + 1 /\ ChainHeight(n) \in Nat
         /\ highQC[n] # Nil => IsLock(highQC[n])
         /\ block[n] \in BlockType \cup {Nil} /\ blockHash[n] \in HashType \cup {Nil}
<1>1. chain[n] \in Seq(ToSet(chain[n])) /\ Len(chain[n]) <= MaxHeight
  BY DEF TypeOK
<1>2. Len(chain[n]) \in Nat
  BY <1>1
<1>3. Len(chain[n]) \in 0 .. MaxHeight
  BY <1>1, <1>2, Bounds
<1>4. ChainHeight(n) \in 1 .. MaxHeight + 1 /\ ChainHeight(n) \in Nat
  BY <1>3, Bounds DEF ChainHeight
<1>5. rootHeight[n] \in 1 .. MaxRootHeight /\ rootHeight[n] \in Nat
  BY Bounds DEF TypeOK
<1>6. resets[n] \in Seq(BOOLEAN) /\ Len(resets[n]) \in Nat /\ overtaken[n] \in Nat
  <2>1. resets[n] \in Seq(BOOLEAN) /\ overtaken[n] \in Nat
    BY DEF TypeOK
  <2> QED
    BY <2>1
<1>7. view[n] \in ViewType /\ proposerKey[n] \in Node \cup {Nil}
  BY DEF TypeOK
<1>8. timer[n] \in BOOLEAN /\ syncing[n] \in BOOLEAN
  BY DEF TypeOK
<1>9. highQC[n] # Nil => IsLock(highQC[n])
  BY DEF TypeOK
<1>10. block[n] \in BlockType \cup {Nil} /\ blockHash[n] \in HashType \cup {Nil}
  BY DEF TypeOK
<1> QED
  BY <1>3, <1>4, <1>5, <1>6, <1>7, <1>8, <1>9, <1>10

\* The hashes of a block.
LEMMA HashesOK ==
  ASSUME TypeOK, NEW n \in Node
  PROVE  /\ \A d \in BlockType : /\ GetBlockHash(n, d) \in HashType
                                 /\ [d EXCEPT !.block = GetBlockHash(n, d)] \in BlockType
         /\ block[n] # Nil => Hashes(n) \in BlockType
<1>1. block[n] \in BlockType \cup {Nil} /\ blockHash[n] \in HashType \cup {Nil}
  BY NodeTypes
<1>2. ASSUME NEW d \in BlockType
      PROVE  /\ GetBlockHash(n, d) \in HashType
             /\ [d EXCEPT !.block = GetBlockHash(n, d)] \in BlockType
             /\ [block |-> GetBlockHash(n, d), results |-> d.results] \in BlockType
  <2>1. d.block \in HashType /\ d.results \in {p.results : p \in Proposals}
    BY DEF BlockType
  <2>2. PICK h \in HashType : h = GetBlockHash(n, d)
    BY <1>1, <2>1 DEF GetBlockHash
  <2>3. [d EXCEPT !.block = h] \in BlockType /\ [block |-> h, results |-> d.results] \in BlockType
    BY <2>1 DEF BlockType
  <2> QED
    BY <2>2, <2>3
<1>3. block[n] # Nil => Hashes(n) \in BlockType
  BY <1>1, <1>2 DEF Hashes
<1> QED
  BY <1>2, <1>3

\* A chain one block longer is a chain.
LEMMA AppendChain ==
  ASSUME NEW s, s \in Seq(ToSet(s)), NEW x
  PROVE  Append(s, x) \in Seq(ToSet(Append(s, x))) /\ Len(Append(s, x)) = Len(s) + 1
<1> DEFINE S == ToSet(s) \cup {x}
<1>1. s \in Seq(S)
  BY DEF ToSet
<1>2. x \in S
  OBVIOUS
<1> HIDE DEF S
<1>3. Append(s, x) \in Seq(S) /\ Len(Append(s, x)) = Len(s) + 1
  BY <1>1, <1>2
<1>4. PICK t : t = Append(s, x)
  OBVIOUS
<1>5. t \in Seq(S) /\ DOMAIN t = 1 .. Len(t) /\ Len(t) \in Nat
  BY <1>3, <1>4
<1>6. t \in Seq(ToSet(t))
  BY <1>5 DEF ToSet
<1> QED
  BY <1>3, <1>4, <1>6

-----------------------------------------------------------------------------
(* Validators that do not take the step. *)

\* Nothing of k changes but what others send.
SameNode(k) ==
  /\ view'[k] = view[k] /\ resets'[k] = resets[k] /\ overtaken'[k] = overtaken[k]
  /\ syncing'[k] = syncing[k] /\ rootHeight'[k] = rootHeight[k] /\ chain'[k] = chain[k]
  /\ epochs'[k] = epochs[k] /\ highQC'[k] = highQC[k]

\* Messages are added, none of them signed by k.
NoVoteOf(k) ==
  msgs \subseteq msgs' /\ \A m \in msgs' \ msgs : m.type \in {"vote", "leader"} => m.from # k

\* A height that was left stays left.
LEMMA OutrunKept ==
  ASSUME NEW h, msgs \subseteq msgs', Outrun(h)
  PROVE  Outrun(h)'
BY DEF Outrun

\* What was passed stays passed, when the chain and the root chain only grow.
LEMMA PassedKept ==
  ASSUME NEW n \in Node, NEW v, msgs \subseteq msgs', v.height \in Nat, v.rootHeight \in Nat,
         ChainHeight(n) \in Nat, ChainHeight(n)' \in Nat, ChainHeight(n)' >= ChainHeight(n),
         rootHeight[n] \in Nat, rootHeight'[n] \in Nat, rootHeight'[n] >= rootHeight[n]
  PROVE  /\ Passed(v, n) => Passed(v, n)'
         /\ Closed(v, n) => Closed(v, n)' /\ Passed(v, n)
BY OutrunKept DEF Passed, Closed

\* The votes of k are the same.
LEMMA SameVotes ==
  ASSUME NEW k, NoVoteOf(k)
  PROVE  SignedBy(k)' = SignedBy(k)
BY DEF SignedBy, NoVoteOf

\* Whatever is true of a validator stays true in the steps of the others.
LEMMA OtherNode ==
  ASSUME NEW k \in Node, NodeInv(k), SameNode(k), NoVoteOf(k)
  PROVE  NodeInv(k)'
<1>1. ChainHeight(k)' = ChainHeight(k)
  BY DEF SameNode, ChainHeight
<1>2. SignedBy(k)' = SignedBy(k)
  BY SameVotes
<1>3. msgs \subseteq msgs'
  BY DEF NoVoteOf
<1>4. ASSUME NEW h, Outrun(h) PROVE Outrun(h)'
  BY <1>3, <1>4, OutrunKept
<1>5. ViewReached(k)' /\ EpochCurrent(k)'
  BY <1>1 DEF NodeInv, ViewReached, EpochCurrent, SameNode
<1>6. ASSUME NEW v PROVE (Passed(v, k) => Passed(v, k)') /\ (Closed(v, k) => Closed(v, k)')
  BY <1>1, <1>4 DEF Passed, Closed, SameNode
<1>7. Unlocks(k)' <=> Unlocks(k)
  BY DEF Unlocks, SameNode
<1>8. SignedBehind(k) => SignedBehind(k)'
  BY <1>2, <1>4 DEF SignedBehind, SameNode
<1>9. ResetsPass(k) => ResetsPass(k)'
  BY <1>2, <1>6, <1>7 DEF ResetsPass, SameNode
<1>10. OvertakersPass(k) => OvertakersPass(k)'
  <2>1. (Passed(view[k], k) => Passed(view[k], k)') /\ (Closed(view[k], k) => Closed(view[k], k)')
    <3>1. PICK v : v = view[k]
      OBVIOUS
    <3>2. v = view'[k]
      BY <3>1 DEF SameNode
    <3>3. (Passed(v, k) => Passed(v, k)') /\ (Closed(v, k) => Closed(v, k)')
      BY <1>6
    <3>4. (Passed(v, k) <=> Passed(view[k], k)) /\ (Closed(v, k) <=> Closed(view[k], k))
      BY <3>1
    <3>5. (Passed(v, k)' <=> Passed(view[k], k)') /\ (Closed(v, k)' <=> Closed(view[k], k)')
      BY <3>2 DEF Passed, Closed, Outrun
    <3> QED
      BY <3>3, <3>4, <3>5
  <2> QED
    BY <1>7, <2>1 DEF OvertakersPass, SameNode
<1>11. Locked(k) => Locked(k)'
  <2> SUFFICES ASSUME Locked(k), NEW m \in msgs', m.type = "vote", m.from = k,
                      m.header.phase = PrecommitVote, m.header.height = view'[k].height,
                      ~Outrun(m.header.height)'
               PROVE  /\ highQC'[k] # Nil
                      /\ ~Less(highQC'[k].header, [m.header EXCEPT !.phase = ProposeVote])
    BY DEF Locked
  <2>1. m \in msgs
    BY DEF NoVoteOf
  <2>2. ~Outrun(m.header.height)
    BY <1>4
  <2> QED
    BY <2>1, <2>2 DEF Locked, SameNode
<1> QED
  BY <1>5, <1>8, <1>9, <1>10, <1>11 DEF NodeInv, Signing

-----------------------------------------------------------------------------
(* Phase handlers: what they have in common. *)

\* What a handler sends, if anything: a message for its view, and one it signs only in a
\* later phase than the first and when it goes on to a later one.
NewMessage(n) ==
  \/ msgs' = msgs
  \/ \E m : /\ msgs' = msgs \cup {m} /\ MessageOK(m) /\ Fresh(m)
            /\ m.type \in {"vote", "leader"} =>
                 /\ m.from = n /\ m.header = view[n]
                 /\ view[n].phase > Election /\ view'[n].phase > view[n].phase

\* The handler of a phase of a round.
PhaseStep(n) ==
  /\ ~syncing[n] /\ (resets[n] # <<>> => overtaken[n] = 0)
  /\ view[n].phase < PacemakerPhase /\ view[n].height <= MaxHeight
  /\ \E p \in view[n].phase .. PacemakerPhase : view' = [view EXCEPT ![n].phase = p]
  /\ overtaken' = IF resets[n] = <<>> THEN overtaken ELSE [overtaken EXCEPT ![n] = @ + 1]
  /\ UNCHANGED <<epochs, resets, syncing, rootHeight, chain, restarts>>
  /\ NewMessage(n)

\* A view is not below itself.
LEMMA NotBelow ==
  ASSUME NEW v \in ViewType
  PROVE  ~Less(v, v)
BY ViewFields DEF Less

\* Messages that handlers add are well formed, and none is lost.
LEMMA MessagesKept ==
  ASSUME NEW n \in Node, NewMessage(n)
  PROVE  /\ msgs \subseteq msgs'
         /\ (\A m \in msgs : MessageOK(m)) => \A m \in msgs' : MessageOK(m)
         /\ (\A m \in msgs : Fresh(m)) => \A m \in msgs' : Fresh(m)
         /\ \A k \in Node \ {n} : NoVoteOf(k)
         /\ \A x \in msgs' \ msgs : x.type \in {"vote", "leader"} =>
              /\ x.from = n /\ x.header = view[n]
              /\ view[n].phase > Election /\ view'[n].phase > view[n].phase
BY DEF NewMessage, NoVoteOf

\* A handler signs one payload for its view and none that it has signed for before.
LEMMA OneVote ==
  ASSUME TypeOK, OneVoteEach, NEW n \in Node, n \notin Restartable => SignedBehind(n),
         NewMessage(n)
  PROVE  OneVoteEach'
<1> SUFFICES ASSUME NEW x \in msgs', NEW y \in msgs', x.type = "vote", y.type = "vote",
                    x.from = y.from, x.from \notin Restartable, ~Outrun(x.header.height)',
                    x.header = y.header
             PROVE  Payload(x) = Payload(y)
  BY DEF OneVoteEach
<1>1. ~Outrun(x.header.height)
  BY MessagesKept, OutrunKept
<1>2. view[n] \in ViewType
  BY NodeTypes
<1>3. ASSUME NEW z \in msgs, z.type = "vote", z.from = n, n \notin Restartable,
             z.header = view[n], z.header = x.header
      PROVE  FALSE
  <2>1. z \in SignedBy(n)
    BY <1>3 DEF SignedBy
  <2>2. Outrun(z.header.height) \/ Less(z.header, view[n])
    BY <1>3, <2>1 DEF SignedBehind
  <2> QED
    BY <1>1, <1>2, <1>3, <2>2, NotBelow
<1>4. CASE msgs' = msgs
  BY <1>1, <1>4 DEF OneVoteEach
<1>5. CASE msgs' # msgs
  <2>1. PICK m : /\ msgs' = msgs \cup {m}
                 /\ m.type = "vote" => m.from = n /\ m.header = view[n]
    BY <1>5 DEF NewMessage
  <2>2. CASE x \in msgs /\ y \in msgs
    BY <1>1, <2>2 DEF OneVoteEach
  <2>3. CASE x \in msgs /\ y = m
    BY <1>3, <2>1, <2>3
  <2>4. CASE x = m /\ y \in msgs
    BY <1>3, <2>1, <2>4
  <2>5. CASE x = m /\ y = m
    BY <2>5
  <2> QED
    BY <2>1, <2>2, <2>3, <2>4, <2>5
<1> QED
  BY <1>4, <1>5

\* The views after a handler.
LEMMA PhaseViews ==
  ASSUME TypeOK, NEW n \in Node, PhaseStep(n)
  PROVE  /\ view' \in [Node -> ViewType]
         /\ view'[n].height = view[n].height /\ view'[n].rootHeight = view[n].rootHeight
         /\ view'[n].round = view[n].round /\ view'[n].phase >= view[n].phase
         /\ \A k \in Node \ {n} : view'[k] = view[k]
<1>1. PICK p \in view[n].phase .. PacemakerPhase : view' = [view EXCEPT ![n].phase = p]
  BY DEF PhaseStep
<1>2. view \in [Node -> ViewType] /\ view[n] \in ViewType
  BY DEF TypeOK
<1>3. p \in Unknown .. PacemakerPhase /\ p >= view[n].phase
  BY <1>1, <1>2, ViewFields, PhaseNumbers
<1>4. [view[n] EXCEPT !.phase = p] \in ViewType
  BY <1>2, <1>3 DEF ViewType
<1>5. view' = [view EXCEPT ![n] = [view[n] EXCEPT !.phase = p]]
  BY <1>1, <1>2
<1>6. view'[n] = [view[n] EXCEPT !.phase = p]
  BY <1>2, <1>5
<1>7. /\ view'[n].height = view[n].height /\ view'[n].rootHeight = view[n].rootHeight
      /\ view'[n].round = view[n].round /\ view'[n].phase = p
  BY <1>2, <1>6 DEF ViewType
<1> QED
  BY <1>2, <1>3, <1>4, <1>5, <1>7

\* No reset that clears the lock waits in an empty channel.
LEMMA EmptyUnlocks ==
  ASSUME NEW n, resets[n] = <<>>
  PROVE  ~Unlocks(n)
BY DEF Unlocks

\* The types after a handler, for the variables all handlers treat alike.
LEMMA PhaseTypes ==
  ASSUME TypeOK, NEW n \in Node, PhaseStep(n),
         proposerKey' \in [Node -> Node \cup {Nil}], timer' \in [Node -> BOOLEAN], Blocks',
         DOMAIN highQC' = Node, \A k \in Node \ {n} : highQC'[k] = highQC[k],
         highQC'[n] # Nil => IsLock(highQC'[n])
  PROVE  TypeOK'
<1>1. view' \in [Node -> ViewType]
  BY PhaseViews
<1>2. overtaken' \in [Node -> Nat]
  <2>1. overtaken \in [Node -> Nat]
    BY DEF TypeOK
  <2> QED
    BY <2>1 DEF PhaseStep
<1>3. \A m \in msgs' : MessageOK(m)
  BY MessagesKept DEF PhaseStep, TypeOK
<1>4. UNCHANGED <<epochs, resets, syncing, rootHeight, chain, restarts>>
  BY DEF PhaseStep
<1>5. \A k \in Node : highQC'[k] # Nil => IsLock(highQC'[k])
  BY DEF TypeOK
<1>6. \A m \in msgs' : MessageOK(m)'
  BY <1>3 DEF MessageOK, IsLock
<1> QED
  BY <1>1, <1>2, <1>4, <1>5, <1>6 DEF TypeOK, Blocks

\* What a handler signs lies behind its next view, and past the resets that wait.
LEMMA PhaseSigning ==
  ASSUME TypeOK, NEW n \in Node, PhaseStep(n), Signing(n)
  PROVE  Signing(n)'
<1>1. /\ view[n] \in ViewType /\ view'[n] \in ViewType
      /\ view'[n].height = view[n].height /\ view'[n].rootHeight = view[n].rootHeight
      /\ view'[n].round = view[n].round /\ view'[n].phase >= view[n].phase
  BY PhaseViews, NodeTypes
<1>2. msgs \subseteq msgs'
  BY MessagesKept DEF PhaseStep
<1>3. ASSUME NEW x \in SignedBy(n)', x \notin SignedBy(n)
      PROVE  x.header = view[n] /\ view'[n].phase > view[n].phase /\ view[n].phase > Election
  BY <1>3, MessagesKept DEF PhaseStep, SignedBy
<1>4. ASSUME NEW x \in SignedBy(n)
      PROVE  /\ x.header.height \in Nat /\ x.header.rootHeight \in Nat
             /\ x.header.round \in Nat /\ x.header.phase \in Nat
  <2>1. x.header \in HeaderType
    BY DEF SignedBy, TypeOK, MessageOK
  <2> QED
    BY <2>1, HeaderFields
<1>5. ChainHeight(n) \in Nat /\ rootHeight[n] \in Nat /\ overtaken[n] \in Nat
  BY NodeTypes
<1>6. ChainHeight(n)' = ChainHeight(n) /\ rootHeight'[n] = rootHeight[n]
  BY DEF PhaseStep, ChainHeight
<1>7. SignedBehind(n)'
  <2> SUFFICES ASSUME NEW x \in SignedBy(n)'
               PROVE  Outrun(x.header.height)' \/ Less(x.header, view'[n])
    BY DEF SignedBehind
  <2>1. CASE x \in SignedBy(n)
    <3>1. Outrun(x.header.height) => Outrun(x.header.height)'
      BY <1>2, OutrunKept
    <3>2. Outrun(x.header.height) \/ Less(x.header, view[n])
      BY <2>1 DEF Signing, SignedBehind
    <3>3. Less(x.header, view[n]) => Less(x.header, view'[n])
      BY <1>1, <1>4, <2>1, ViewFields DEF Less
    <3> QED
      BY <3>1, <3>2, <3>3
  <2>2. CASE x \notin SignedBy(n)
    <3>1. x.header = view[n] /\ view'[n].phase > view[n].phase
      BY <1>3, <2>2
    <3> QED
      BY <1>1, <3>1, ViewFields DEF Less
  <2> QED
    BY <2>1, <2>2
<1>8. ASSUME NEW v, v.height \in Nat, v.rootHeight \in Nat
      PROVE  (Passed(v, n) => Passed(v, n)') /\ (Closed(v, n) => Closed(v, n)')
  BY <1>2, <1>5, <1>6, <1>8, OutrunKept DEF Passed, Closed
<1>9. ~syncing'[n] /\ (Unlocks(n)' <=> Unlocks(n)) /\ resets'[n] = resets[n]
  BY DEF PhaseStep, Unlocks
<1>10. ResetsPass(n)'
  <2>1. ASSUME resets[n] # <<>>, NEW x \in SignedBy(n)'
        PROVE  Passed(x.header, n)' /\ (Unlocks(n) => Closed(x.header, n)')
    <3>1. CASE x \in SignedBy(n)
      <4>1. Passed(x.header, n) /\ (Unlocks(n) => Closed(x.header, n))
        BY <2>1, <3>1 DEF Signing, ResetsPass
      <4> QED
        BY <1>4, <1>8, <3>1, <4>1
    <3>2. CASE x \notin SignedBy(n)
      <4>1. x.header = view[n] /\ view[n].phase > Election /\ overtaken[n] = 0
        BY <1>3, <2>1, <3>2 DEF PhaseStep
      <4>2. ~(view[n].phase <= Election)
        BY <1>1, <4>1, ViewFields, PhaseNumbers
      <4>3. Passed(view[n], n) /\ (Unlocks(n) => Closed(view[n], n))
        BY <2>1, <4>1, <4>2 DEF Signing, OvertakersPass
      <4>4. Passed(x.header, n) /\ (Unlocks(n) => Closed(x.header, n))
        BY <4>1, <4>3
      <4>5. x.header.height \in Nat /\ x.header.rootHeight \in Nat
        BY <1>1, <4>1, ViewFields
      <4> QED
        BY <1>8, <4>4, <4>5
    <3> QED
      BY <3>1, <3>2
  <2>2. Unlocks(n) => resets[n] # <<>>
    BY EmptyUnlocks
  <2> QED
    BY <1>9, <2>1, <2>2 DEF ResetsPass
<1>11. OvertakersPass(n)'
  <2>1. resets[n] # <<>> => overtaken'[n] # 0
    <3>1. overtaken \in [Node -> Nat]
      BY DEF TypeOK
    <3> QED
      BY <3>1 DEF PhaseStep
  <2>2. Unlocks(n) => resets[n] # <<>>
    BY EmptyUnlocks
  <2> QED
    BY <1>9, <2>1, <2>2 DEF OvertakersPass
<1> QED
  BY <1>7, <1>10, <1>11 DEF Signing

\* The invariant after a handler, but for its lock.
LEMMA PhaseInv ==
  ASSUME Inv, NEW n \in Node, PhaseStep(n),
         proposerKey' \in [Node -> Node \cup {Nil}], timer' \in [Node -> BOOLEAN], Blocks',
         DOMAIN highQC' = Node, \A k \in Node \ {n} : highQC'[k] = highQC[k],
         highQC'[n] # Nil => IsLock(highQC'[n]),
         n \notin Restartable \cup Preempted => Locked(n)'
  PROVE  Inv'
<1>1. TypeOK /\ OneVoteEach /\ NodeInv(n) /\ \A k \in Node : NodeInv(k)
  BY DEF Inv
<1>2. TypeOK'
  BY <1>1, PhaseTypes
<1>3. OneVoteEach'
  BY <1>1, OneVote DEF NodeInv, Signing, PhaseStep
<1>4. \A m \in msgs' : Fresh(m)
  BY MessagesKept DEF Inv, PhaseStep
<1>5. ASSUME NEW k \in Node \ {n} PROVE NodeInv(k)'
  <2>1. NoVoteOf(k)
    BY MessagesKept DEF PhaseStep
  <2>2. overtaken'[k] = overtaken[k]
    BY <1>1 DEF PhaseStep, TypeOK
  <2>3. SameNode(k)
    BY <1>1, <2>2, PhaseViews DEF SameNode, PhaseStep
  <2> QED
    BY <1>1, <2>1, <2>3, OtherNode
<1>6. n \notin Restartable => Signing(n)'
  BY <1>1, PhaseSigning DEF NodeInv
<1>7. ViewReached(n)'
  <2>1. ViewReached(n) /\ ChainHeight(n)' = ChainHeight(n)
    BY <1>1 DEF NodeInv, PhaseStep, ChainHeight
  <2> QED
    BY <1>1, <2>1, PhaseViews DEF ViewReached, PhaseStep
<1>8. EpochCurrent(n)'
  <2>1. resets[n] # <<>> => overtaken'[n] # 0
    <3>1. overtaken \in [Node -> Nat]
      BY <1>1 DEF TypeOK
    <3> QED
      BY <3>1 DEF PhaseStep
  <2> QED
    BY <1>1, <2>1, PhaseViews DEF NodeInv, EpochCurrent, PhaseStep
<1>9. NodeInv(n)'
  BY <1>6, <1>7, <1>8 DEF NodeInv
<1>10. \A m \in msgs' : Fresh(m)'
  BY <1>4 DEF Fresh
<1> QED
  BY <1>2, <1>3, <1>5, <1>9, <1>10 DEF Inv

-----------------------------------------------------------------------------
(* Phase handlers, one by one. *)

\* A handler runs on a validator that is not syncing, and overtakes a reset once.
LEMMA Running ==
  ASSUME TypeOK, NEW n \in Node, NEW phase, Expired(n, phase)
  PROVE  /\ ~syncing[n] /\ (resets[n] # <<>> => overtaken[n] = 0)
         /\ view[n].phase = phase /\ view[n].height <= MaxHeight /\ view[n] \in HeaderType
<1>1. overtaken[n] \in Nat /\ view[n] \in ViewType
  BY NodeTypes
<1>2. resets[n] # <<>> => overtaken[n] = 0
  BY <1>1, Bounds DEF Expired
<1>3. view[n].height <= MaxHeight
  BY DEF Expired
<1>4. PICK p \in 0 .. 10 : p = 0
  OBVIOUS
<1>5. view[n] \in HeaderType
  BY <1>1, <1>3, <1>4, SignedView
<1> QED
  BY <1>2, <1>3, <1>5 DEF Expired

\* What the stores of a handler that runs are for.
LEMMA RunningEpoch ==
  ASSUME TypeOK, NEW n \in Node, EpochCurrent(n), NEW phase \in 2 .. 10, Expired(n, phase)
  PROVE  epochs[n] = {<<view[n].height, view[n].rootHeight>>}
<1>1. (resets[n] # <<>> => overtaken[n] = 0) /\ view[n].phase = phase
  BY Running
<1>2. view[n].phase > Election
  BY <1>1, PhaseNumbers
<1> QED
  BY <1>1, <1>2 DEF EpochCurrent

\* A majority voted in the phase before, in the leader's own view.
LEMMA MajorityHeader ==
  ASSUME TypeOK, NEW n \in Node, EpochCurrent(n), NEW phase \in 2 .. 10, Expired(n, phase),
         NEW v \in MajorityVotes(n)
  PROVE  /\ v.header \in HeaderType /\ v.header.phase = view[n].phase - 1
         /\ v.header.height = view[n].height /\ v.header.rootHeight = view[n].rootHeight
         /\ v.header.round = view[n].round
         /\ v.prop \in BlockType \cup {Nil} /\ v.proposer \in Node
<1>1. PICK m \in Votes(n) : v = Payload(m)
  BY DEF MajorityVotes
<1>2. /\ m \in msgs /\ m.type = "vote" /\ m.header.round = view[n].round
      /\ m.header.phase = view[n].phase - 1
      /\ \E e \in epochs[n] : CheckReplicaMessage(m, e)
  BY DEF Votes
<1>3. m.header \in HeaderType /\ m.prop \in BlockType \cup {Nil} /\ m.proposer \in Node
  BY <1>2 DEF TypeOK, MessageOK
<1>4. <<m.header.height, m.header.rootHeight>> = <<view[n].height, view[n].rootHeight>>
  BY <1>2, RunningEpoch DEF CheckReplicaMessage
<1>5. v.header = m.header /\ v.prop = m.prop /\ v.proposer = m.proposer
  BY <1>1 DEF Payload
<1> QED
  BY <1>2, <1>3, <1>4, <1>5

\* The leader message of such a majority is well formed.
LEMMA LeaderOK ==
  ASSUME TypeOK, NEW n \in Node, EpochCurrent(n), NEW phase \in 2 .. 10, Expired(n, phase),
         NEW v \in MajorityVotes(n), NEW prop \in BlockType \cup {Nil},
         NEW data \in BlockType \cup {Nil}, phase = Propose => data \in BlockType,
         NEW hq, NEW rc
  PROVE  /\ MessageOK(LeaderMsg(n, view[n], Certificate(v.header, prop, data, v.proposer), hq, rc))
         /\ Fresh(LeaderMsg(n, view[n], Certificate(v.header, prop, data, v.proposer), hq, rc))
         /\ LeaderMsg(n, view[n], Certificate(v.header, prop, data, v.proposer), hq, rc).type = "leader"
<1>1. /\ v.header \in HeaderType /\ v.header.phase = view[n].phase - 1
      /\ v.header.height = view[n].height /\ v.header.rootHeight = view[n].rootHeight
      /\ v.header.round = view[n].round /\ v.proposer \in Node
  BY MajorityHeader
<1>2. view[n] \in HeaderType /\ view[n].phase = phase
  BY Running
<1>3. PICK m : m = LeaderMsg(n, view[n], Certificate(v.header, prop, data, v.proposer), hq, rc)
  OBVIOUS
<1>4. /\ m.type = "leader" /\ m.from = n /\ m.header = view[n] /\ m.qc.header = v.header
      /\ m.qc.data = data
  BY <1>3 DEF LeaderMsg, Certificate
<1>5. m.qc \in QCType
  BY <1>1, <1>3 DEF LeaderMsg, Certificate, QCType
<1>6. MessageOK(m) /\ Fresh(m)
  BY <1>1, <1>2, <1>4, <1>5 DEF MessageOK, Fresh
<1> QED
  BY <1>3, <1>4, <1>6

\* A vote for the view of its sender is well formed.
LEMMA VoteOK ==
  ASSUME NEW n \in Node, NEW h \in HeaderType, NEW prop \in BlockType \cup {Nil},
         NEW proposer \in Node, NEW hq, NEW rc, hq # Nil => IsLock(hq)
  PROVE  /\ MessageOK(VoteMsg(n, h, prop, proposer, hq, rc))
         /\ Fresh(VoteMsg(n, h, prop, proposer, hq, rc))
         /\ VoteMsg(n, h, prop, proposer, hq, rc).type = "vote"
         /\ VoteMsg(n, h, prop, proposer, hq, rc).from = n
         /\ VoteMsg(n, h, prop, proposer, hq, rc).header = h
<1>1. PICK m : m = VoteMsg(n, h, prop, proposer, hq, rc)
  OBVIOUS
<1>2. /\ m.type = "vote" /\ m.from = n /\ m.header = h /\ m.proposer = proposer
      /\ m.highQC = hq /\ m.prop = prop
  BY <1>1 DEF VoteMsg
<1>3. MessageOK(m) /\ Fresh(m)
  BY <1>2 DEF MessageOK, Fresh
<1> QED
  BY <1>1, <1>2, <1>3

\* The lock covers the PRECOMMIT-VOTEs while neither changes.
LEMMA LockStays ==
  ASSUME NEW n \in Node, Locked(n), msgs \subseteq msgs', view'[n].height = view[n].height,
         highQC'[n] = highQC[n],
         \A m \in msgs' \ msgs : m.type = "vote" /\ m.from = n => m.header.phase # PrecommitVote
  PROVE  Locked(n)'
<1> SUFFICES ASSUME NEW m \in msgs', m.type = "vote", m.from = n,
                    m.header.phase = PrecommitVote, m.header.height = view'[n].height,
                    ~Outrun(m.header.height)'
             PROVE  /\ highQC'[n] # Nil
                    /\ ~Less(highQC'[n].header, [m.header EXCEPT !.phase = ProposeVote])
  BY DEF Locked
<1>1. m \in msgs
  OBVIOUS
<1>2. ~Outrun(m.header.height)
  BY OutrunKept
<1> QED
  BY <1>1, <1>2 DEF Locked

\* The counter of overtakers after a handler of a round.
LEMMA Overtakes ==
  ASSUME TypeOK, NEW n \in Node, NEW phase, Expired(n, phase), phase # PacemakerPhase,
         overtaken' = IF resets[n] = <<>> \/ view[n].phase = PacemakerPhase THEN overtaken
                      ELSE [overtaken EXCEPT ![n] = @ + 1]
  PROVE  overtaken' = IF resets[n] = <<>> THEN overtaken ELSE [overtaken EXCEPT ![n] = @ + 1]
BY Running

\* A handler makes a phase step.
LEMMA MakesStep ==
  ASSUME TypeOK, NEW n \in Node, NEW phase \in 1 .. 9, Expired(n, phase),
         NEW p \in phase .. 10, view' = [view EXCEPT ![n].phase = p],
         overtaken' = IF resets[n] = <<>> \/ view[n].phase = PacemakerPhase THEN overtaken
                      ELSE [overtaken EXCEPT ![n] = @ + 1],
         UNCHANGED <<epochs, resets, syncing, rootHeight, chain, restarts>>,
         NewMessage(n)
  PROVE  PhaseStep(n)
<1>1. phase # PacemakerPhase
  BY PhaseNumbers
<1>2. overtaken' = IF resets[n] = <<>> THEN overtaken ELSE [overtaken EXCEPT ![n] = @ + 1]
  BY <1>1, Overtakes
<1>3. /\ ~syncing[n] /\ (resets[n] # <<>> => overtaken[n] = 0)
      /\ view[n].phase = phase /\ view[n].height <= MaxHeight
  BY Running
<1>4. view[n].phase < PacemakerPhase /\ p \in view[n].phase .. PacemakerPhase
  BY <1>3, PhaseNumbers
<1> QED
  BY <1>2, <1>3, <1>4 DEF PhaseStep

\* NextPhase and RoundInterrupt as changes of the phase.
LEMMA NextPhaseIs ==
  ASSUME TypeOK, NEW n \in Node, NEW phase \in 1 .. 9, Expired(n, phase)
  PROVE  /\ NextPhase(n) => view' = [view EXCEPT ![n].phase = phase + 1]
         /\ RoundInterrupt(n) => /\ view' = [view EXCEPT ![n].phase = 10]
                                 /\ NewMessage(n)
                                 /\ \A m \in msgs' \ msgs : m.type # "vote"
<1>1. view[n].phase = phase /\ view[n].height <= MaxHeight /\ view[n] \in ViewType
  BY Running, NodeTypes
<1>2. NextPhase(n) => view' = [view EXCEPT ![n].phase = phase + 1]
  BY <1>1 DEF NextPhase
<1>3. ASSUME RoundInterrupt(n)
      PROVE  /\ view' = [view EXCEPT ![n].phase = 10] /\ NewMessage(n)
             /\ \A m \in msgs' \ msgs : m.type # "vote"
  <2>1. PICK h : h = [view[n] EXCEPT !.phase = RoundInterruptPhase]
    OBVIOUS
  <2>2. h \in HeaderType
    <3>1. PICK p \in 0 .. 10 : p = RoundInterruptPhase
      BY PhaseNumbers
    <3>2. [view[n] EXCEPT !.phase = p] \in HeaderType
      BY <1>1, SignedView
    <3> QED
      BY <2>1, <3>1, <3>2
  <2>3. PICK m : m = PacemakerMsg(n, h)
    OBVIOUS
  <2>4. m.type = "pacemaker" /\ m.from = n /\ m.header = h
    BY <2>3 DEF PacemakerMsg
  <2>5. MessageOK(m) /\ Fresh(m)
    BY <2>2, <2>4 DEF MessageOK, Fresh
  <2>6. msgs' = msgs \cup {m}
    BY <1>3, <2>1, <2>3 DEF RoundInterrupt, Send
  <2>7. NewMessage(n)
    BY <2>4, <2>5, <2>6 DEF NewMessage
  <2>8. view' = [view EXCEPT ![n].phase = 10]
    BY <1>3, PhaseNumbers DEF RoundInterrupt
  <2> QED
    BY <2>4, <2>6, <2>7, <2>8
<1> QED
  BY <1>2, <1>3

\* A handler that goes on is in a later phase afterwards.
LEMMA PhaseUp ==
  ASSUME TypeOK, NEW n \in Node, NEW p \in Nat, view' = [view EXCEPT ![n].phase = p],
         p = view[n].phase + 1
  PROVE  view'[n].phase > view[n].phase /\ view'[n].phase = p
<1>1. view \in [Node -> ViewType] /\ view[n].phase \in Nat
  BY ViewFields DEF TypeOK
<1>2. view'[n].phase = p
  BY <1>1 DEF ViewType
<1> QED
  BY <1>1, <1>2

\* What a handler that leaves its lock has to show.
LEMMA LockedPhaseInv ==
  ASSUME Inv, NEW n \in Node, PhaseStep(n), UNCHANGED highQC, Blocks',
         proposerKey' \in [Node -> Node \cup {Nil}], timer' \in [Node -> BOOLEAN],
         \A m \in msgs' \ msgs : m.type = "vote" => m.header.phase # PrecommitVote
  PROVE  Inv'
<1>1. TypeOK /\ NodeInv(n)
  BY DEF Inv
<1>2. msgs \subseteq msgs' /\ view'[n].height = view[n].height /\ highQC'[n] = highQC[n]
  BY <1>1, MessagesKept, PhaseViews DEF PhaseStep
<1>3. Locked(n) => Locked(n)'
  BY <1>2, LockStays
<1>4. n \notin Restartable \cup Preempted => Locked(n)'
  BY <1>1, <1>3 DEF NodeInv
<1>5. DOMAIN highQC' = Node /\ (highQC'[n] # Nil => IsLock(highQC'[n]))
  BY <1>1 DEF TypeOK
<1>6. \A k \in Node \ {n} : highQC'[k] = highQC[k]
  OBVIOUS
<1> QED
  BY <1>4, <1>5, <1>6, PhaseInv

\* How HandlePhase counts the handlers that overtake a reset.
Counts(n) ==
  overtaken' = IF resets[n] = <<>> \/ view[n].phase = PacemakerPhase THEN overtaken
               ELSE [overtaken EXCEPT ![n] = @ + 1]

\* What the handlers leave alone.
LEMMA ControllerSame ==
  ASSUME UNCHANGED <<epochs, ctlVars>>
  PROVE  UNCHANGED <<epochs, resets, syncing, rootHeight, chain, restarts>>
BY DEF ctlVars

\* StartElectionPhase
LEMMA ElectionInv ==
  ASSUME Inv, NEW n \in Node, Counts(n), StartElectionPhase(n)
  PROVE  Inv'
<1>1. TypeOK
  BY DEF Inv
<1>2. PICK phase \in 1 .. 9 : phase = Election
  BY PhaseNumbers
<1>3. Expired(n, phase) /\ NextPhase(n) /\ UNCHANGED <<epochs, ctlVars>>
      /\ UNCHANGED <<proposerKey, block, blockHash, highQC, timer, msgs>>
  BY <1>2 DEF StartElectionPhase
<1>4. PICK p \in phase .. 10 : p = phase + 1
  OBVIOUS
<1>5. view' = [view EXCEPT ![n].phase = p]
  BY <1>1, <1>3, <1>4, NextPhaseIs
<1>6. NewMessage(n)
  BY <1>3 DEF NewMessage
<1>7. PhaseStep(n)
  BY <1>1, <1>3, <1>5, <1>6, MakesStep, ControllerSame DEF Counts
<1>8. proposerKey' \in [Node -> Node \cup {Nil}] /\ timer' \in [Node -> BOOLEAN] /\ Blocks'
  BY <1>1, <1>3 DEF TypeOK, Blocks
<1> QED
  BY <1>3, <1>7, <1>8, LockedPhaseInv

\* StartElectionVotePhase
LEMMA ElectionVoteInv ==
  ASSUME Inv, NEW n \in Node, Counts(n), StartElectionVotePhase(n)
  PROVE  Inv'
<1>1. TypeOK
  BY DEF Inv
<1>2. PICK phase \in 1 .. 9 : phase = ElectionVote
  BY PhaseNumbers
<1>3. Expired(n, phase) /\ NextPhase(n) /\ UNCHANGED <<epochs, ctlVars>>
      /\ UNCHANGED <<block, blockHash, highQC, timer>>
      /\ proposerKey' = [proposerKey EXCEPT ![n] = Nil]
  BY <1>2 DEF StartElectionVotePhase
<1>4. PICK p \in phase .. 10 : p = phase + 1
  OBVIOUS
<1>5. view' = [view EXCEPT ![n].phase = p]
  BY <1>1, <1>3, <1>4, NextPhaseIs
<1>6. view[n] \in HeaderType /\ view[n].phase = phase /\ view[n] \in ViewType
  BY <1>1, <1>3, Running, NodeTypes
<1>7. PICK l \in Candidates[view[n].round] :
         msgs' = msgs \cup {VoteMsg(n, view[n], Nil, l, highQC[n], rcBuildHeight[n])}
  BY DEF StartElectionVotePhase, Send
<1>8. l \in Node
  <2>1. view[n].round \in 0 .. MaxRound
    BY <1>6, ViewFields
  <2> QED
    BY <1>7, <2>1, BoundAssumption
<1>9. PICK m : m = VoteMsg(n, view[n], Nil, l, highQC[n], rcBuildHeight[n])
  OBVIOUS
<1>10. /\ MessageOK(m) /\ Fresh(m) /\ m.type = "vote" /\ m.from = n /\ m.header = view[n]
  <2>1. highQC[n] # Nil => IsLock(highQC[n])
    BY <1>1, NodeTypes
  <2>2. PICK prop \in BlockType \cup {Nil} : prop = Nil
    OBVIOUS
  <2>3. PICK hq, rc : hq = highQC[n] /\ rc = rcBuildHeight[n]
    OBVIOUS
  <2>4. m = VoteMsg(n, view[n], prop, l, hq, rc)
    BY <1>9, <2>2, <2>3
  <2>5. hq # Nil => IsLock(hq)
    BY <2>1, <2>3
  <2> QED
    BY <1>6, <1>8, <2>4, <2>5, VoteOK
<1>11. view'[n].phase = phase + 1
  <2>1. view \in [Node -> ViewType]
    BY <1>1 DEF TypeOK
  <2> QED
    BY <1>4, <1>5, <2>1 DEF ViewType
<1>12. NewMessage(n)
  BY <1>2, <1>6, <1>7, <1>9, <1>10, <1>11, PhaseNumbers DEF NewMessage
<1>13. PhaseStep(n)
  BY <1>1, <1>3, <1>5, <1>12, MakesStep, ControllerSame DEF Counts
<1>14. proposerKey' \in [Node -> Node \cup {Nil}] /\ timer' \in [Node -> BOOLEAN] /\ Blocks'
  BY <1>1, <1>3 DEF TypeOK, Blocks
<1>15. \A x \in msgs' \ msgs : x.header.phase # PrecommitVote
  BY <1>2, <1>6, <1>7, <1>9, <1>10, PhaseNumbers
<1> QED
  BY <1>3, <1>13, <1>14, <1>15, LockedPhaseInv

\* What a leader proposes is a block.
LEMMA ToProposeOK ==
  ASSUME TypeOK, NEW n \in Node, NEW d \in ToPropose(n)
  PROVE  d[1] \in BlockType
<1>1. CASE highQC[n] # Nil
  <2>1. d = <<highQC[n].data, rcBuildHeight[n]>>
    BY <1>1 DEF ToPropose
  <2>2. highQC[n].data \in BlockType
    BY <1>1, NodeTypes DEF IsLock
  <2> QED
    BY <2>1, <2>2
<1>2. CASE highQC[n] = Nil
  <2>1. PICK p \in Proposals, rc \in 1 .. rootHeight[n] : d = <<Build(n, p), rc>>
    BY <1>2 DEF ToPropose, NewProposals
  <2>2. ChainHeight(n) \in 1 .. MaxHeight + 1
    BY NodeTypes
  <2>3. Build(n, p) \in BlockType
    BY <2>2 DEF Build, BlockType, HashType
  <2> QED
    BY <2>1, <2>3
<1> QED
  BY <1>1, <1>2

\* StartProposePhase
LEMMA ProposeInv ==
  ASSUME Inv, NEW n \in Node, Counts(n), StartProposePhase(n)
  PROVE  Inv'
<1>1. TypeOK /\ EpochCurrent(n)
  BY DEF Inv, NodeInv
<1>2. PICK phase \in 1 .. 9 : phase = Propose
  BY PhaseNumbers
<1>3. Expired(n, phase) /\ NextPhase(n) /\ UNCHANGED <<epochs, ctlVars>>
      /\ UNCHANGED <<proposerKey, highQC, timer>>
  BY <1>2 DEF StartProposePhase
<1>4. PICK p \in phase .. 10 : p = phase + 1
  OBVIOUS
<1>5. view' = [view EXCEPT ![n].phase = p]
  BY <1>1, <1>3, <1>4, NextPhaseIs
<1>6. phase \in 2 .. 10
  BY <1>2, PhaseNumbers
<1>7. NewMessage(n) /\ Blocks' /\ \A x \in msgs' \ msgs : x.type # "vote"
  <2>1. CASE UNCHANGED <<block, blockHash, msgs>>
    BY <1>1, <2>1 DEF NewMessage, Blocks, TypeOK
  <2>2. CASE block' = [block EXCEPT ![n] = Nil] /\ UNCHANGED <<blockHash, msgs>>
    BY <1>1, <2>2 DEF NewMessage, Blocks, TypeOK
  <2>3. CASE \E v \in MajorityVotes(n), d \in ToPropose(n) : ProposeData(n, v, d[1], d[2])
    <3>1. PICK v \in MajorityVotes(n), d \in ToPropose(n) : ProposeData(n, v, d[1], d[2])
      BY <2>3
    <3>2. PICK data \in BlockType : data = d[1]
      BY <1>1, ToProposeOK
    <3>3. PICK hash \in HashType : hash = GetBlockHash(n, data)
      BY <1>1, HashesOK
    <3>4. PICK prop \in BlockType : prop = [data EXCEPT !.block = GetBlockHash(n, data)]
      BY <1>1, HashesOK
    <3>5. PICK hq, rc : hq = highQC[n] /\ rc = d[2]
      OBVIOUS
    <3>6. PICK m : m = LeaderMsg(n, view[n], Certificate(v.header, prop, data, v.proposer), hq, rc)
      OBVIOUS
    <3>7. /\ block' = [block EXCEPT ![n] = data] /\ blockHash' = [blockHash EXCEPT ![n] = hash]
          /\ msgs' = msgs \cup {m}
      BY <3>1, <3>2, <3>3, <3>4, <3>5, <3>6 DEF ProposeData, Send
    <3>8. MessageOK(m) /\ Fresh(m) /\ m.type = "leader" /\ m.from = n /\ m.header = view[n]
      <4>1. MessageOK(m) /\ Fresh(m) /\ m.type = "leader"
        BY <1>1, <1>3, <1>6, <3>6, LeaderOK
      <4>2. m.from = n /\ m.header = view[n]
        BY <3>6 DEF LeaderMsg
      <4> QED
        BY <4>1, <4>2
    <3>9. Blocks'
      BY <1>1, <3>7 DEF Blocks, TypeOK
    <3>10. view[n].phase = phase
      BY <1>1, <1>3, Running
    <3>11. view[n].phase > Election /\ view'[n].phase > view[n].phase
      <4>1. p \in Nat /\ p = view[n].phase + 1
        BY <1>4, <3>10
      <4>2. view'[n].phase > view[n].phase
        BY <1>1, <1>5, <4>1, PhaseUp
      <4> QED
        BY <1>2, <3>10, <4>2, PhaseNumbers
    <3> QED
      BY <3>7, <3>8, <3>9, <3>11 DEF NewMessage
  <2> QED
    BY <2>1, <2>2, <2>3 DEF StartProposePhase
<1>8. PhaseStep(n)
  BY <1>1, <1>3, <1>5, <1>7, MakesStep, ControllerSame DEF Counts
<1>9. proposerKey' \in [Node -> Node \cup {Nil}] /\ timer' \in [Node -> BOOLEAN]
  BY <1>1, <1>3 DEF TypeOK
<1> QED
  BY <1>3, <1>7, <1>8, <1>9, LockedPhaseInv

\* A proposal that is looked at was sent by a leader, in this round and the phase before.
LEMMA ProposalFacts ==
  ASSUME TypeOK, NEW n \in Node, NEW m \in GetProposal(n)
  PROVE  /\ m \in msgs /\ m.type = "leader" /\ m.from \in Node /\ m.header \in HeaderType
         /\ m.qc \in QCType /\ m.qc.header.phase = m.header.phase - 1
         /\ m.header.phase = Propose => m.qc.data \in BlockType
         /\ m.header.round = view[n].round /\ m.header.phase = view[n].phase - 1
<1>1. /\ m \in msgs /\ m.type = "leader" /\ m.header.round = view[n].round
      /\ m.header.phase = view[n].phase - 1
  BY DEF GetProposal
<1>2. MessageOK(m)
  BY <1>1 DEF TypeOK
<1> QED
  BY <1>1, <1>2 DEF MessageOK

\* StartProposeVotePhase
LEMMA ProposeVoteInv ==
  ASSUME Inv, NEW n \in Node, Counts(n), StartProposeVotePhase(n)
  PROVE  Inv'
<1>1. TypeOK /\ proposerKey \in [Node -> Node \cup {Nil}] /\ view \in [Node -> ViewType]
  BY DEF Inv, TypeOK
<1>2. PICK phase \in 1 .. 9 : phase = ProposeVote
  BY PhaseNumbers
<1>3. Expired(n, phase) /\ UNCHANGED <<epochs, ctlVars>> /\ UNCHANGED <<highQC, timer>>
  BY <1>2 DEF StartProposeVotePhase
<1>4. view[n] \in HeaderType /\ view[n].phase = phase
  BY <1>1, <1>3, Running
<1>5. timer' \in [Node -> BOOLEAN]
  BY <1>1, <1>3 DEF TypeOK
<1>6. ASSUME RoundInterrupt(n), proposerKey' \in [Node -> Node \cup {Nil}],
             UNCHANGED <<block, blockHash>>
      PROVE  Inv'
  <2>1. PICK p \in phase .. 10 : p = 10
    OBVIOUS
  <2>2. /\ view' = [view EXCEPT ![n].phase = p] /\ NewMessage(n)
        /\ \A m \in msgs' \ msgs : m.type # "vote"
    BY <1>1, <1>3, <1>6, <2>1, NextPhaseIs
  <2>3. PhaseStep(n)
    BY <1>1, <1>3, <2>2, MakesStep, ControllerSame DEF Counts
  <2>4. Blocks'
    BY <1>1, <1>6 DEF TypeOK, Blocks
  <2> QED
    BY <1>3, <1>5, <1>6, <2>2, <2>3, <2>4, LockedPhaseInv
<1>7. CASE RoundInterrupt(n) /\ UNCHANGED <<proposerKey, block, blockHash>>
  BY <1>1, <1>6, <1>7
<1>8. ASSUME NEW m \in GetProposal(n), proposerKey' = [proposerKey EXCEPT ![n] = m.from],
             RoundInterrupt(n), UNCHANGED <<block, blockHash>>
      PROVE  Inv'
  <2>1. m.from \in Node
    BY <1>1, ProposalFacts
  <2> QED
    BY <1>1, <1>6, <1>8, <2>1
<1>9. ASSUME NEW m \in GetProposal(n), proposerKey' = [proposerKey EXCEPT ![n] = m.from],
             NextPhase(n), Blocks', NEW prop \in BlockType \cup {Nil},
             msgs' = msgs \cup {VoteMsg(n, view[n], prop, m.from, Nil, 0)}
      PROVE  Inv'
  <2>1. m.from \in Node
    BY <1>1, ProposalFacts
  <2>2. PICK p \in phase .. 10 : p = phase + 1
    OBVIOUS
  <2>3. view' = [view EXCEPT ![n].phase = p]
    BY <1>1, <1>3, <1>9, <2>2, NextPhaseIs
  <2>4. view'[n].phase = phase + 1
    BY <1>1, <2>2, <2>3 DEF ViewType
  <2>5. PICK hq : hq = Nil
    OBVIOUS
  <2>6. PICK rc : rc = 0
    OBVIOUS
  <2>7. PICK x : x = VoteMsg(n, view[n], prop, m.from, hq, rc)
    OBVIOUS
  <2>8. MessageOK(x) /\ Fresh(x) /\ x.type = "vote" /\ x.from = n /\ x.header = view[n]
    BY <1>4, <2>1, <2>5, <2>7, VoteOK
  <2>9. msgs' = msgs \cup {x}
    BY <1>9, <2>5, <2>6, <2>7
  <2>10. NewMessage(n)
    BY <1>2, <1>4, <2>4, <2>8, <2>9, PhaseNumbers DEF NewMessage
  <2>11. PhaseStep(n)
    BY <1>1, <1>3, <2>3, <2>10, MakesStep, ControllerSame DEF Counts
  <2>12. proposerKey' \in [Node -> Node \cup {Nil}]
    BY <1>1, <1>9, <2>1
  <2>13. \A y \in msgs' \ msgs : y.header.phase # PrecommitVote
    BY <1>2, <1>4, <2>8, <2>9, PhaseNumbers
  <2> QED
    BY <1>3, <1>5, <1>9, <2>11, <2>12, <2>13, LockedPhaseInv
<1>10. ASSUME NEW m \in GetProposal(n), proposerKey' = [proposerKey EXCEPT ![n] = m.from],
              block' = [block EXCEPT ![n] = m.qc.data],
              blockHash' = [blockHash EXCEPT ![n] = GetBlockHash(n, m.qc.data)],
              Send(VoteMsg(n, view[n], [m.qc.data EXCEPT !.block = GetBlockHash(n, m.qc.data)],
                           m.from, Nil, 0)),
              NextPhase(n)
       PROVE  Inv'
  <2>1. PICK data \in BlockType : data = m.qc.data
    <3>1. m.header.phase = Propose
      BY <1>1, <1>2, <1>4, ProposalFacts, PhaseNumbers
    <3> QED
      BY <1>1, <3>1, ProposalFacts
  <2>2. PICK prop \in BlockType : prop = [data EXCEPT !.block = GetBlockHash(n, data)]
    BY <1>1, HashesOK
  <2>3. PICK hash \in HashType : hash = GetBlockHash(n, data)
    BY <1>1, HashesOK
  <2>4. msgs' = msgs \cup {VoteMsg(n, view[n], prop, m.from, Nil, 0)}
    BY <1>10, <2>1, <2>2 DEF Send
  <2>5. block' = [block EXCEPT ![n] = data] /\ blockHash' = [blockHash EXCEPT ![n] = hash]
    BY <1>10, <2>1, <2>3
  <2>6. Blocks'
    BY <1>1, <2>5 DEF Blocks, TypeOK
  <2> QED
    BY <1>9, <1>10, <2>4, <2>6
<1> QED
  BY <1>7, <1>8, <1>10 DEF StartProposeVotePhase

\* StartPrecommitPhase and StartCommitPhase
LEMMA CertifyInv ==
  ASSUME Inv, NEW n \in Node, Counts(n), NEW phase \in 4 .. 9, NEW rc,
         StartCertifyPhase(n, phase, rc)
  PROVE  Inv'
<1>1. TypeOK /\ EpochCurrent(n)
  BY DEF Inv, NodeInv
<1>2. phase \in 1 .. 9 /\ phase \in 2 .. 10
  OBVIOUS
<1>3. Expired(n, phase) /\ UNCHANGED <<epochs, ctlVars>>
      /\ UNCHANGED <<proposerKey, block, blockHash, highQC, timer>>
  BY DEF StartCertifyPhase
<1>4. proposerKey' \in [Node -> Node \cup {Nil}] /\ timer' \in [Node -> BOOLEAN] /\ Blocks'
  BY <1>1, <1>3 DEF TypeOK, Blocks
<1>5. ASSUME NEW p \in phase .. 10, view' = [view EXCEPT ![n].phase = p], NewMessage(n),
             \A m \in msgs' \ msgs : m.type # "vote"
      PROVE  Inv'
  <2>1. PhaseStep(n)
    BY <1>1, <1>2, <1>3, <1>5, MakesStep, ControllerSame DEF Counts
  <2> QED
    BY <1>3, <1>4, <1>5, <2>1, LockedPhaseInv
<1>6. PICK p \in phase .. 10 : p = phase + 1
  OBVIOUS
<1>7. NextPhase(n) => view' = [view EXCEPT ![n].phase = p]
  BY <1>1, <1>2, <1>3, <1>6, NextPhaseIs
<1>8. CASE NextPhase(n) /\ UNCHANGED msgs
  <2>1. NewMessage(n)
    BY <1>8 DEF NewMessage
  <2> QED
    BY <1>5, <1>7, <1>8, <2>1
<1>9. CASE RoundInterrupt(n)
  <2>1. PICK q \in phase .. 10 : q = 10
    OBVIOUS
  <2>2. /\ view' = [view EXCEPT ![n].phase = q] /\ NewMessage(n)
        /\ \A m \in msgs' \ msgs : m.type # "vote"
    BY <1>1, <1>2, <1>3, <1>9, <2>1, NextPhaseIs
  <2> QED
    BY <1>5, <2>2
<1>10. CASE NextPhase(n) /\ \E v \in MajorityVotes(n) : Certify(n, v, rc)
  <2>1. PICK v \in MajorityVotes(n) : Certify(n, v, rc)
    BY <1>10
  <2>2. PICK prop \in BlockType \cup {Nil}, data \in BlockType \cup {Nil} :
          prop = v.prop /\ data = Nil
    BY <1>1, <1>2, <1>3, MajorityHeader
  <2>3. PICK hq : hq = Nil
    OBVIOUS
  <2>4. PICK m : m = LeaderMsg(n, view[n], Certificate(v.header, prop, data, v.proposer), hq, rc)
    OBVIOUS
  <2>5. phase # Propose
    BY PhaseNumbers
  <2>6. MessageOK(m) /\ Fresh(m) /\ m.type = "leader" /\ m.from = n /\ m.header = view[n]
    <3>1. MessageOK(m) /\ Fresh(m) /\ m.type = "leader"
      BY <1>1, <1>2, <1>3, <2>4, <2>5, LeaderOK
    <3>2. m.from = n /\ m.header = view[n]
      BY <2>4 DEF LeaderMsg
    <3> QED
      BY <3>1, <3>2
  <2>7. msgs' = msgs \/ msgs' = msgs \cup {m}
    BY <2>1, <2>2, <2>4, <2>3 DEF Certify, Send
  <2>8. view[n].phase = phase /\ view'[n].phase > view[n].phase
    <3>1. view[n].phase = phase
      BY <1>1, <1>3, Running
    <3> QED
      BY <1>1, <1>6, <1>7, <1>10, <3>1, PhaseUp
  <2>9. NewMessage(n) /\ \A x \in msgs' \ msgs : x.type # "vote"
    BY <2>6, <2>7, <2>8, PhaseNumbers DEF NewMessage
  <2> QED
    BY <1>5, <1>7, <1>10, <2>9
<1> QED
  BY <1>8, <1>9, <1>10 DEF StartCertifyPhase

\* The certificate of a PRECOMMIT or COMMIT message with the block attached.
LEMMA AttachedBlock ==
  ASSUME NEW qc \in QCType, NEW data \in BlockType
  PROVE  /\ [qc EXCEPT !.data = data] \in QCType
         /\ [qc EXCEPT !.data = data].header = qc.header
         /\ [qc EXCEPT !.data = data].data = data
<1>1. PICK new : new = [qc EXCEPT !.data = data]
  OBVIOUS
<1>2. new.header = qc.header /\ new.data = data
  BY <1>1 DEF QCType
<1>3. new \in QCType
  BY <1>1 DEF QCType
<1> QED
  BY <1>1, <1>2, <1>3

\* The certificate a replica locks on is of its own view.
LEMMA LockHeader ==
  ASSUME TypeOK, \A x \in msgs : Fresh(x), NEW n \in Node, n \notin Preempted, EpochCurrent(n),
         NEW phase \in 2 .. 10, Expired(n, phase), NEW m \in GetProposal(n)
  PROVE  /\ m.qc.header.height = view[n].height /\ m.qc.header.rootHeight = view[n].rootHeight
         /\ m.qc.header.round = view[n].round
<1>1. epochs[n] = {<<view[n].height, view[n].rootHeight>>}
  BY RunningEpoch
<1>2. \E e \in epochs[n] : CheckProposerMessage(m, e)
  BY DEF GetProposal
<1>3. <<m.header.height, m.qc.header.rootHeight>> = <<view[n].height, view[n].rootHeight>>
  BY <1>1, <1>2 DEF CheckProposerMessage
<1>4. m \in msgs /\ m.type = "leader" /\ m.header.round = view[n].round
  BY ProposalFacts
<1>5. m.qc.header.height = m.header.height /\ m.qc.header.round = m.header.round
  BY <1>4 DEF Fresh
<1> QED
  BY <1>3, <1>4, <1>5

\* A replica that signs a PRECOMMIT-VOTE is locked at least as high as all it signed.
LEMMA LockTaken ==
  ASSUME TypeOK, NEW n \in Node, SignedBehind(n), view[n].phase = PrecommitVote,
         view'[n].height = view[n].height, highQC'[n] # Nil, NEW h \in HeaderType, highQC'[n].header = h,
         h.phase = ProposeVote, h.height = view[n].height, h.rootHeight = view[n].rootHeight,
         h.round = view[n].round, NEW v, msgs' = msgs \cup {v}, v.type = "vote" => v.header = view[n]
  PROVE  Locked(n)'
<1> SUFFICES ASSUME NEW x \in msgs', x.type = "vote", x.from = n,
                    x.header.phase = PrecommitVote, x.header.height = view'[n].height,
                    ~Outrun(x.header.height)'
             PROVE  ~Less(h, [x.header EXCEPT !.phase = ProposeVote])
  BY DEF Locked
<1>1. view[n] \in ViewType
  BY NodeTypes
<1>2. CASE x = v
  <2>1. x.header = view[n]
    BY <1>2
  <2>2. PICK w : w = [view[n] EXCEPT !.phase = ProposeVote]
    OBVIOUS
  <2>3. w.height = view[n].height /\ w.rootHeight = view[n].rootHeight /\ w.round = view[n].round
        /\ w.phase = ProposeVote
    BY <1>1, <2>2 DEF ViewType
  <2>4. ~Less(h, w)
    BY <1>1, <2>3, ViewFields, PhaseNumbers DEF Less
  <2> QED
    BY <2>1, <2>2, <2>4
<1>3. CASE x \in msgs
  <2>1. x.header \in HeaderType
    BY <1>3 DEF TypeOK, MessageOK
  <2>2. x \in SignedBy(n)
    BY <1>3, PhaseNumbers DEF SignedBy
  <2>3. Outrun(x.header.height) \/ Less(x.header, view[n])
    BY <2>2 DEF SignedBehind
  <2>4. ~Outrun(x.header.height)
    <3>1. msgs \subseteq msgs'
      OBVIOUS
    <3> QED
      BY <3>1, OutrunKept
  <2>5. PICK w : w = [x.header EXCEPT !.phase = ProposeVote]
    OBVIOUS
  <2>6. w.height = x.header.height /\ w.rootHeight = x.header.rootHeight
        /\ w.round = x.header.round /\ w.phase = ProposeVote
    BY <2>1, <2>5 DEF HeaderType
  <2>7. Less(x.header, view[n])
    BY <2>3, <2>4
  <2>8. PICK g : g = x.header
    OBVIOUS
  <2>9. /\ g.height \in Nat /\ g.rootHeight \in Nat /\ g.round \in Nat /\ g.phase = view[n].phase
        /\ view[n].phase \in Nat
    BY <1>1, <2>1, <2>8, HeaderFields, ViewFields, PhaseNumbers
  <2>10. /\ view[n].height \in Nat /\ view[n].rootHeight \in Nat /\ view[n].round \in Nat
    BY <1>1, ViewFields
  <2>11. \/ g.height < view[n].height
         \/ g.height = view[n].height /\ g.rootHeight < view[n].rootHeight
         \/ /\ g.height = view[n].height /\ g.rootHeight = view[n].rootHeight
            /\ g.round < view[n].round
    BY <2>7, <2>8, <2>9, <2>10 DEF Less
  <2>12. ~Less(h, w)
    BY <2>6, <2>8, <2>9, <2>10, <2>11, PhaseNumbers DEF Less
  <2> QED
    BY <2>5, <2>12
<1> QED
  BY <1>2, <1>3

\* StartPrecommitVotePhase
LEMMA PrecommitVoteInv ==
  ASSUME Inv, NEW n \in Node, Counts(n), StartPrecommitVotePhase(n)
  PROVE  Inv'
<1>1. /\ TypeOK /\ view \in [Node -> ViewType] /\ DOMAIN highQC = Node
      /\ NodeInv(n) /\ EpochCurrent(n) /\ \A x \in msgs : Fresh(x)
  BY DEF Inv, TypeOK, NodeInv
<1>2. PICK phase \in 1 .. 9 : phase = PrecommitVote /\ phase \in 2 .. 10
  BY PhaseNumbers
<1>3. /\ Expired(n, phase) /\ UNCHANGED <<epochs, ctlVars>>
      /\ UNCHANGED <<proposerKey, block, blockHash, timer>>
  BY <1>2 DEF StartPrecommitVotePhase
<1>4. view[n] \in HeaderType /\ view[n].phase = phase
  BY <1>1, <1>3, Running
<1>5. timer' \in [Node -> BOOLEAN] /\ proposerKey' \in [Node -> Node \cup {Nil}] /\ Blocks'
  BY <1>1, <1>3 DEF TypeOK, Blocks
<1>6. CASE RoundInterrupt(n) /\ UNCHANGED highQC
  <2>1. PICK p \in phase .. 10 : p = 10
    OBVIOUS
  <2>2. /\ view' = [view EXCEPT ![n].phase = p] /\ NewMessage(n)
        /\ \A m \in msgs' \ msgs : m.type # "vote"
    BY <1>1, <1>3, <1>6, <2>1, NextPhaseIs
  <2>3. PhaseStep(n)
    BY <1>1, <1>3, <2>2, MakesStep, ControllerSame DEF Counts
  <2> QED
    BY <1>5, <1>6, <2>2, <2>3, LockedPhaseInv
<1>7. ASSUME NEW m \in GetProposal(n), CheckProposerAndProposal(n, m),
             highQC' = [highQC EXCEPT ![n] = [m.qc EXCEPT !.data = block[n]]],
             Send(VoteMsg(n, view[n], Hashes(n), proposerKey[n], Nil, 0)),
             NextPhase(n)
      PROVE  Inv'
  <2>1. PICK l \in Node : l = proposerKey[n]
    BY <1>1, <1>7, ProposalFacts DEF CheckProposerAndProposal
  <2>2. PICK prop \in BlockType \cup {Nil} : prop = Hashes(n)
    BY <1>1, <1>7, HashesOK DEF CheckProposerAndProposal
  <2>3. PICK hq : hq = Nil
    OBVIOUS
  <2>4. PICK rc : rc = 0
    OBVIOUS
  <2>5. PICK v : v = VoteMsg(n, view[n], prop, l, hq, rc)
    OBVIOUS
  <2>6. msgs' = msgs \cup {v}
    BY <1>7, <2>1, <2>2, <2>3, <2>4, <2>5 DEF Send
  <2>7. MessageOK(v) /\ Fresh(v) /\ v.type = "vote" /\ v.from = n /\ v.header = view[n]
    BY <1>4, <2>3, <2>5, VoteOK
  <2>8. PICK p \in phase .. 10 : p = phase + 1
    OBVIOUS
  <2>9. view' = [view EXCEPT ![n].phase = p]
    BY <1>1, <1>3, <1>7, <2>8, NextPhaseIs
  <2>10. view'[n].phase = phase + 1
    BY <1>1, <2>8, <2>9 DEF ViewType
  <2>11. NewMessage(n)
    BY <1>2, <1>4, <2>6, <2>7, <2>10, PhaseNumbers DEF NewMessage
  <2>12. PhaseStep(n)
    BY <1>1, <1>3, <2>9, <2>11, MakesStep, ControllerSame DEF Counts
  <2>13. PICK data \in BlockType : data = block[n]
    BY <1>1, <1>7, NodeTypes DEF CheckProposerAndProposal
  <2>14. PICK qc \in QCType :
           qc = [m.qc EXCEPT !.data = data] /\ qc.header = m.qc.header /\ qc.data = data
    <3>1. m.qc \in QCType
      BY <1>1, ProposalFacts
    <3>2. PICK q : q = m.qc
      OBVIOUS
    <3>3. q \in QCType
      BY <3>1, <3>2
    <3> QED
      BY <3>2, <3>3, AttachedBlock
  <2>15. highQC' = [highQC EXCEPT ![n] = qc]
    BY <1>7, <2>13, <2>14
  <2>16. /\ highQC'[n] = qc /\ DOMAIN highQC' = Node
         /\ \A k \in Node \ {n} : highQC'[k] = highQC[k]
    BY <1>1, <2>15
  <2>17. qc # Nil
    BY NilAssumption
  <2>18. IsLock(qc)
    <3>1. m.qc.header.phase = m.header.phase - 1 /\ m.header.phase = view[n].phase - 1
      BY <1>1, ProposalFacts
    <3> QED
      BY <1>2, <1>4, <2>14, <3>1, PhaseNumbers DEF IsLock
  <2>19. n \notin Restartable \cup Preempted => Locked(n)'
    <3> SUFFICES ASSUME n \notin Restartable \cup Preempted PROVE Locked(n)'
      OBVIOUS
    <3>1. SignedBehind(n)
      BY <1>1 DEF NodeInv, Signing
    <3>2. PICK h \in HeaderType : h = qc.header
      BY <2>14 DEF QCType
    <3>3. h.height = view[n].height /\ h.rootHeight = view[n].rootHeight /\ h.round = view[n].round
      BY <1>1, <1>2, <1>3, <2>14, <3>2, LockHeader
    <3>4. h.phase = ProposeVote
      BY <2>18, <3>2 DEF IsLock
    <3>5. highQC'[n] # Nil /\ highQC'[n].header = h
      BY <2>16, <2>17, <3>2
    <3>6. view'[n].height = view[n].height
      BY <1>1, <2>12, PhaseViews
    <3> QED
      BY <1>1, <1>2, <1>4, <2>6, <2>7, <3>1, <3>3, <3>4, <3>5, <3>6, LockTaken
  <2> QED
    BY <1>5, <2>12, <2>16, <2>18, <2>19, PhaseInv
<1> QED
  BY <1>6, <1>7 DEF StartPrecommitVotePhase

\* StartCommitProcessPhase
LEMMA CommitProcessInv ==
  ASSUME Inv, NEW n \in Node, Counts(n), StartCommitProcessPhase(n)
  PROVE  Inv'
<1>1. /\ TypeOK /\ view \in [Node -> ViewType] /\ timer \in [Node -> BOOLEAN]
  BY DEF Inv, TypeOK
<1>2. PICK phase \in 1 .. 9 : phase = CommitProcess
  BY PhaseNumbers
<1>3. /\ Expired(n, phase) /\ UNCHANGED <<epochs, ctlVars>>
      /\ UNCHANGED <<proposerKey, block, blockHash, highQC>>
  BY <1>2 DEF StartCommitProcessPhase
<1>4. view[n] \in HeaderType /\ view[n].phase = phase
  BY <1>1, <1>3, Running
<1>5. proposerKey' \in [Node -> Node \cup {Nil}] /\ Blocks'
  BY <1>1, <1>3 DEF TypeOK, Blocks
<1>6. CASE RoundInterrupt(n) /\ UNCHANGED timer
  <2>1. PICK p \in phase .. 10 : p = 10
    OBVIOUS
  <2>2. /\ view' = [view EXCEPT ![n].phase = p] /\ NewMessage(n)
        /\ \A m \in msgs' \ msgs : m.type # "vote"
    BY <1>1, <1>3, <1>6, <2>1, NextPhaseIs
  <2>3. PhaseStep(n)
    BY <1>1, <1>3, <2>2, MakesStep, ControllerSame DEF Counts
  <2>4. timer' \in [Node -> BOOLEAN]
    BY <1>1, <1>6
  <2> QED
    BY <1>3, <1>5, <1>6, <2>2, <2>3, <2>4, LockedPhaseInv
<1>7. ASSUME NEW m \in GetProposal(n), CheckProposerAndProposal(n, m),
             Send(BlockMsg([m.qc EXCEPT !.data = block[n]])),
             timer' = [timer EXCEPT ![n] = FALSE], UNCHANGED view
      PROVE  Inv'
  <2>1. PICK data \in BlockType : data = block[n]
    BY <1>1, <1>7, NodeTypes DEF CheckProposerAndProposal
  <2>2. PICK qc \in QCType : qc = [m.qc EXCEPT !.data = data] /\ qc.header = m.qc.header
    BY <1>1, ProposalFacts, AttachedBlock
  <2>3. qc.header.phase = PrecommitVote
    <3>1. m.qc.header.phase = m.header.phase - 1 /\ m.header.phase = view[n].phase - 1
      BY <1>1, ProposalFacts
    <3> QED
      BY <1>2, <1>4, <2>2, <3>1, PhaseNumbers
  <2>4. PICK x : x = BlockMsg(qc)
    OBVIOUS
  <2>5. x.type = "block" /\ x.qc = qc
    BY <2>4 DEF BlockMsg
  <2>6. MessageOK(x) /\ Fresh(x)
    BY <2>3, <2>5 DEF MessageOK, Fresh
  <2>7. msgs' = msgs \cup {x}
    BY <1>7, <2>1, <2>2, <2>4 DEF Send
  <2>8. NewMessage(n) /\ \A y \in msgs' \ msgs : y.type # "vote"
    BY <2>5, <2>6, <2>7 DEF NewMessage
  <2>9. PICK p \in phase .. 10 : p = phase
    OBVIOUS
  <2>10. view' = [view EXCEPT ![n].phase = p]
    BY <1>1, <1>4, <1>7, <2>9 DEF ViewType
  <2>11. PhaseStep(n)
    BY <1>1, <1>3, <2>8, <2>10, MakesStep, ControllerSame DEF Counts
  <2>12. timer' \in [Node -> BOOLEAN]
    BY <1>1, <1>7
  <2> QED
    BY <1>3, <1>5, <2>8, <2>11, <2>12, LockedPhaseInv
<1> QED
  BY <1>6, <1>7 DEF StartCommitProcessPhase

-----------------------------------------------------------------------------
(* Steps that send nothing. *)

\* TypeOK in parts: of whole variables, and of one validator.
VariableTypes ==
  /\ view \in [Node -> ViewType] /\ proposerKey \in [Node -> Node \cup {Nil}] /\ Blocks
  /\ timer \in [Node -> BOOLEAN] /\ syncing \in [Node -> BOOLEAN]
  /\ rootHeight \in [Node -> 1 .. MaxRootHeight]
  /\ resets \in [Node -> Seq(BOOLEAN)] /\ overtaken \in [Node -> Nat]
  /\ DOMAIN chain = Node /\ DOMAIN highQC = Node /\ DOMAIN epochs = Node
  /\ restarts \in 0 .. MaxRestarts
Bounded(n) ==
  /\ Len(resets[n]) <= ResetCap
  /\ chain[n] \in Seq(ToSet(chain[n])) /\ Len(chain[n]) <= MaxHeight
  /\ highQC[n] # Nil => IsLock(highQC[n])

\* TypeOK is the conjunction of its parts.
LEMMA TypeParts ==
  TypeOK <=> VariableTypes /\ (\A n \in Node : Bounded(n)) /\ \A m \in msgs : MessageOK(m)
BY DEF TypeOK, VariableTypes, Bounded, Blocks

\* A step of n that sends nothing keeps the invariant if it keeps what is true of n.
LEMMA QuietInv ==
  ASSUME Inv, NEW n \in Node, UNCHANGED msgs, \A k \in Node \ {n} : SameNode(k),
         VariableTypes', Bounded(n)', ViewReached(n)', EpochCurrent(n)',
         n \notin Restartable => Signing(n)', n \notin Restartable \cup Preempted => Locked(n)'
  PROVE  Inv'
<1>1. ASSUME NEW k \in Node \ {n} PROVE NodeInv(k)' /\ Bounded(k)'
  <2>1. SameNode(k)
    OBVIOUS
  <2>2. NoVoteOf(k)
    BY DEF NoVoteOf
  <2>3. Bounded(k)
    BY TypeParts DEF Inv
  <2>4. Bounded(k)'
    BY <2>1, <2>3 DEF Bounded, SameNode
  <2> QED
    BY <2>1, <2>2, <2>4, OtherNode DEF Inv
<1>2. NodeInv(n)'
  BY DEF NodeInv
<1>3. \A m \in msgs : MessageOK(m)
  BY TypeParts DEF Inv
<1>4. \A m \in msgs' : MessageOK(m)'
  BY <1>3 DEF MessageOK, IsLock
<1>5. TypeOK'
  BY <1>1, <1>4 DEF TypeOK, VariableTypes, Bounded, Blocks
<1>6. OneVoteEach'
  BY DEF Inv, OneVoteEach, Outrun
<1>7. \A m \in msgs' : Fresh(m)'
  BY DEF Inv, Fresh
<1> QED
  BY <1>1, <1>2, <1>5, <1>6, <1>7 DEF Inv

\* What is known of n before a step.
LEMMA NodeFacts ==
  ASSUME Inv, NEW n \in Node
  PROVE  /\ TypeOK /\ VariableTypes /\ Bounded(n) /\ ViewReached(n) /\ EpochCurrent(n)
         /\ n \notin Restartable => SignedBehind(n) /\ ResetsPass(n) /\ OvertakersPass(n)
         /\ n \notin Restartable \cup Preempted => Locked(n)
BY TypeParts DEF Inv, NodeInv, Signing

\* The numbers in a vote.
LEMMA VoteFields ==
  ASSUME TypeOK, NEW n \in Node, NEW x \in SignedBy(n)
  PROVE  /\ x.header \in HeaderType /\ x.header.height \in Nat /\ x.header.rootHeight \in Nat
         /\ x.header.round \in Nat /\ x.header.phase \in Nat
<1>1. x.header \in HeaderType
  BY DEF SignedBy, TypeOK, MessageOK
<1> QED
  BY <1>1, HeaderFields

\* Nothing is signed beyond the chain and the root chain.
LEMMA NoLaterVotes ==
  ASSUME TypeOK, NEW n \in Node, ViewReached(n), SignedBehind(n), NEW x \in SignedBy(n)
  PROVE  \/ Outrun(x.header.height)
         \/ x.header.height < ChainHeight(n)
         \/ x.header.height = ChainHeight(n) /\ x.header.rootHeight <= rootHeight[n]
<1>1. PICK h : h = x.header
  OBVIOUS
<1>2. h.height \in Nat /\ h.rootHeight \in Nat /\ h.round \in Nat /\ h.phase \in Nat
  BY <1>1, VoteFields
<1>3. Outrun(x.header.height) \/ Less(h, view[n])
  BY <1>1 DEF SignedBehind
<1>4. view[n] \in ViewType /\ ChainHeight(n) \in Nat /\ rootHeight[n] \in Nat
  BY NodeTypes
<1>5. view[n].height <= ChainHeight(n) /\ view[n].rootHeight <= rootHeight[n]
  BY DEF ViewReached
<1>6. Less(h, view[n]) => \/ h.height < ChainHeight(n)
                          \/ h.height = ChainHeight(n) /\ h.rootHeight <= rootHeight[n]
  BY <1>2, <1>4, <1>5, ViewFields DEF Less
<1> QED
  BY <1>1, <1>3, <1>6

\* What is signed at the next height of the chain is signed at the height of the view.
LEMMA SignedHeight ==
  ASSUME TypeOK, NEW n \in Node, ViewReached(n), SignedBehind(n), NEW x \in SignedBy(n),
         x.header.height = ChainHeight(n), ~Outrun(x.header.height)
  PROVE  x.header.height = view[n].height
<1>1. PICK h : h = x.header
  OBVIOUS
<1>2. h.height \in Nat /\ h.rootHeight \in Nat /\ h.round \in Nat /\ h.phase \in Nat
  BY <1>1, VoteFields
<1>3. Less(h, view[n]) /\ view[n].height <= ChainHeight(n)
  BY <1>1 DEF SignedBehind, ViewReached
<1>4. view[n] \in ViewType /\ ChainHeight(n) \in Nat
  BY NodeTypes
<1> QED
  BY <1>1, <1>2, <1>3, <1>4, ViewFields DEF Less

\* PausePhase
LEMMA PauseInv ==
  ASSUME Inv, NEW n \in Node, Counts(n), PausePhase(n)
  PROVE  Inv'
<1>1. /\ TypeOK /\ VariableTypes /\ Bounded(n) /\ ViewReached(n) /\ EpochCurrent(n)
      /\ n \notin Restartable => SignedBehind(n) /\ ResetsPass(n) /\ OvertakersPass(n)
      /\ n \notin Restartable \cup Preempted => Locked(n)
  BY NodeFacts
<1>2. /\ timer' = [timer EXCEPT ![n] = FALSE] /\ syncing[n]
      /\ UNCHANGED <<view, proposerKey, block, blockHash, highQC, epochs, msgs>>
      /\ UNCHANGED <<resets, syncing, rootHeight, chain, restarts>>
  BY DEF PausePhase, ctlVars
<1>3. /\ overtaken' \in [Node -> Nat] /\ (overtaken'[n] = 0 => overtaken[n] = 0)
      /\ \A k \in Node \ {n} : overtaken'[k] = overtaken[k]
  <2>1. overtaken \in [Node -> Nat]
    BY <1>1 DEF VariableTypes
  <2> QED
    BY <2>1 DEF Counts
<1>4. VariableTypes' /\ Bounded(n)'
  BY <1>1, <1>2, <1>3 DEF VariableTypes, Bounded, Blocks
<1>5. \A k \in Node \ {n} : SameNode(k)
  BY <1>2, <1>3 DEF SameNode
<1>6. ChainHeight(n)' = ChainHeight(n)
  BY <1>2 DEF ChainHeight
<1>7. ViewReached(n)' /\ EpochCurrent(n)'
  BY <1>1, <1>2, <1>3, <1>6 DEF ViewReached, EpochCurrent
<1>8. n \notin Restartable => Signing(n)'
  <2> SUFFICES ASSUME n \notin Restartable PROVE Signing(n)'
    OBVIOUS
  <2>1. SignedBehind(n)'
    BY <1>1, <1>2 DEF SignedBehind, SignedBy, Outrun
  <2>2. ResetsPass(n)'
    BY <1>1, <1>2, <1>6 DEF ResetsPass, SignedBy, Passed, Closed, Outrun, Unlocks
  <2>3. OvertakersPass(n)'
    BY <1>1, <1>2, <1>3, <1>6 DEF OvertakersPass, Passed, Closed, Outrun, Unlocks
  <2> QED
    BY <2>1, <2>2, <2>3 DEF Signing
<1>9. n \notin Restartable \cup Preempted => Locked(n)'
  BY <1>1, <1>2, LockStays
<1> QED
  BY <1>2, <1>4, <1>5, <1>7, <1>8, <1>9, QuietInv

-----------------------------------------------------------------------------
(* New rounds and new heights. *)

\* NewRound moves n to the newest heights.
LEMMA NewRoundViews ==
  ASSUME TypeOK, NEW n \in Node, NEW r \in 0 .. MaxRound, NewRound(n, r)
  PROVE  /\ view' \in [Node -> ViewType] /\ proposerKey' \in [Node -> Node \cup {Nil}] /\ Blocks'
         /\ view'[n].height = ChainHeight(n) /\ view'[n].rootHeight = rootHeight[n]
         /\ view'[n].round = r /\ view'[n].phase = Election
         /\ \A k \in Node \ {n} : view'[k] = view[k]
<1>1. view \in [Node -> ViewType] /\ proposerKey \in [Node -> Node \cup {Nil}]
      /\ block \in [Node -> BlockType \cup {Nil}] /\ blockHash \in [Node -> HashType \cup {Nil}]
  BY DEF TypeOK
<1>2. ChainHeight(n) \in 1 .. MaxHeight + 1 /\ rootHeight[n] \in 1 .. MaxRootHeight
  BY NodeTypes
<1>3. PICK v : v = [height |-> ChainHeight(n), rootHeight |-> rootHeight[n],
                    round |-> r, phase |-> Election]
  OBVIOUS
<1>4. v.height = ChainHeight(n) /\ v.rootHeight = rootHeight[n] /\ v.round = r /\ v.phase = Election
  BY <1>3
<1>5. v \in ViewType
  BY <1>2, <1>3, PhaseNumbers DEF ViewType
<1>6. view' = [view EXCEPT ![n] = v]
  BY <1>3 DEF NewRound
<1>7. Blocks' /\ proposerKey' \in [Node -> Node \cup {Nil}]
  BY <1>1 DEF NewRound, Blocks
<1> QED
  BY <1>1, <1>4, <1>5, <1>6, <1>7

\* The lock still covers the PRECOMMIT-VOTEs at the height a new round is for.
LEMMA LockMoves ==
  ASSUME TypeOK, NEW n \in Node, ViewReached(n), SignedBehind(n), Locked(n), UNCHANGED msgs,
         highQC'[n] = highQC[n], view'[n].height = ChainHeight(n)
  PROVE  Locked(n)'
<1> SUFFICES ASSUME NEW m \in msgs, m.type = "vote", m.from = n,
                    m.header.phase = PrecommitVote, m.header.height = ChainHeight(n),
                    ~Outrun(m.header.height)
             PROVE  /\ highQC[n] # Nil
                    /\ ~Less(highQC[n].header, [m.header EXCEPT !.phase = ProposeVote])
  BY DEF Locked, Outrun
<1>1. m \in SignedBy(n)
  BY DEF SignedBy
<1>2. m.header.height = view[n].height
  BY <1>1, SignedHeight
<1> QED
  BY <1>2 DEF Locked

\* Pacemaker
LEMMA PacemakerInv ==
  ASSUME Inv, NEW n \in Node, Counts(n), Pacemaker(n)
  PROVE  Inv'
<1>1. /\ TypeOK /\ VariableTypes /\ Bounded(n) /\ ViewReached(n) /\ EpochCurrent(n)
      /\ n \notin Restartable => SignedBehind(n) /\ ResetsPass(n) /\ OvertakersPass(n)
      /\ n \notin Restartable \cup Preempted => Locked(n)
  BY NodeFacts
<1>2. /\ UNCHANGED <<highQC, timer, msgs>> /\ Expired(n, PacemakerPhase)
      /\ UNCHANGED <<resets, syncing, rootHeight, chain, restarts>>
      /\ epochs' = [epochs EXCEPT ![n] = @ \cup {<<ChainHeight(n), rootHeight[n]>>}]
  BY DEF Pacemaker, ctlVars
<1>3. ~syncing[n] /\ view[n].phase = PacemakerPhase /\ view[n] \in ViewType
  BY <1>1, <1>2, Running, NodeTypes
<1>4. UNCHANGED overtaken
  BY <1>3 DEF Counts
<1>5. view[n].round \in 0 .. MaxRound /\ view[n].height \in Nat /\ view[n].rootHeight \in Nat
      /\ view[n].round \in Nat /\ view[n].phase \in Nat
  BY <1>3, ViewFields
<1>6. PICK r \in 0 .. MaxRound : r > view[n].round /\ NewRound(n, r)
  BY <1>5, Bounds DEF Pacemaker
<1>7. /\ view' \in [Node -> ViewType] /\ proposerKey' \in [Node -> Node \cup {Nil}] /\ Blocks'
      /\ view'[n].height = ChainHeight(n) /\ view'[n].rootHeight = rootHeight[n]
      /\ view'[n].round = r /\ view'[n].phase = Election
      /\ \A k \in Node \ {n} : view'[k] = view[k]
  BY <1>1, <1>6, NewRoundViews
<1>8. VariableTypes' /\ Bounded(n)'
  BY <1>1, <1>2, <1>4, <1>7 DEF VariableTypes, Bounded
<1>9. DOMAIN epochs = Node
  BY <1>1 DEF VariableTypes
<1>10. \A k \in Node \ {n} : SameNode(k)
  BY <1>2, <1>4, <1>7, <1>9 DEF SameNode
<1>11. ChainHeight(n)' = ChainHeight(n) /\ ChainHeight(n) \in Nat /\ rootHeight[n] \in Nat
  BY <1>1, <1>2, NodeTypes DEF ChainHeight
<1>12. ViewReached(n)'
  BY <1>2, <1>7, <1>11 DEF ViewReached
<1>13. EpochCurrent(n)'
  <2> SUFFICES ASSUME resets[n] = <<>>
               PROVE  epochs'[n] = {<<view'[n].height, view'[n].rootHeight>>}
    BY <1>2, <1>7, PhaseNumbers DEF EpochCurrent
  <2>1. epochs[n] = {<<view[n].height, view[n].rootHeight>>}
    BY <1>1 DEF EpochCurrent
  <2>2. view[n].height = ChainHeight(n) /\ view[n].rootHeight = rootHeight[n]
    BY <1>1, <1>3 DEF ViewReached
  <2> QED
    BY <1>2, <1>7, <1>9, <2>1, <2>2
<1>14. n \notin Restartable => Signing(n)'
  <2> SUFFICES ASSUME n \notin Restartable PROVE Signing(n)'
    OBVIOUS
  <2>1. SignedBehind(n)'
    <3> SUFFICES ASSUME NEW x \in SignedBy(n), ~Outrun(x.header.height)
                 PROVE  Less(x.header, view'[n])
      BY <1>2 DEF SignedBehind, SignedBy, Outrun
    <3>1. PICK h : h = x.header
      OBVIOUS
    <3>2. h.height \in Nat /\ h.rootHeight \in Nat /\ h.round \in Nat /\ h.phase \in Nat
      BY <1>1, <3>1, VoteFields
    <3>3. Less(h, view[n])
      BY <1>1, <3>1 DEF SignedBehind
    <3>4. view[n].height <= ChainHeight(n) /\ view[n].rootHeight <= rootHeight[n]
      BY <1>1 DEF ViewReached
    <3>5. PICK w : w = view'[n]
      OBVIOUS
    <3>6. Less(h, w)
      BY <1>5, <1>6, <1>7, <1>11, <3>2, <3>3, <3>4, <3>5 DEF Less
    <3> QED
      BY <3>1, <3>5, <3>6
  <2>2. ResetsPass(n)'
    BY <1>1, <1>2, <1>11 DEF ResetsPass, SignedBy, Passed, Closed, Outrun, Unlocks
  <2>3. OvertakersPass(n)'
    BY <1>7, PhaseNumbers DEF OvertakersPass
  <2> QED
    BY <2>1, <2>2, <2>3 DEF Signing
<1>15. n \notin Restartable \cup Preempted => Locked(n)'
  BY <1>1, <1>2, <1>7, LockMoves
<1> QED
  BY <1>2, <1>8, <1>10, <1>12, <1>13, <1>14, <1>15, QuietInv

\* What is left of a channel.
LEMMA TailFacts ==
  ASSUME NEW S, NEW s \in Seq(S), s # <<>>
  PROVE  /\ Tail(s) \in Seq(S) /\ Len(Tail(s)) = Len(s) - 1 /\ Len(s) \in Nat
         /\ \A i \in DOMAIN Tail(s) : i + 1 \in DOMAIN s /\ Tail(s)[i] = s[i + 1]
         /\ 1 \in DOMAIN s /\ Head(s) = s[1]
<1>1. Len(s) \in Nat \ {0} /\ DOMAIN s = 1 .. Len(s)
  OBVIOUS
<1>2. Tail(s) \in Seq(S) /\ Len(Tail(s)) = Len(s) - 1
  OBVIOUS
<1>3. PICK t \in Seq(S) : t = Tail(s)
  BY <1>2
<1>4. DOMAIN t = 1 .. Len(s) - 1
  BY <1>1, <1>2, <1>3
<1>5. ASSUME NEW i \in DOMAIN t PROVE i + 1 \in DOMAIN s /\ t[i] = s[i + 1]
  BY <1>1, <1>2, <1>3, <1>4
<1>6. 1 \in DOMAIN s /\ Head(s) = s[1]
  BY <1>1
<1> QED
  BY <1>1, <1>2, <1>3, <1>5, <1>6

\* ResetBFT
LEMMA ResetInv ==
  ASSUME Inv, NEW n \in Node, ResetBFT(n)
  PROVE  Inv'
<1>1. /\ TypeOK /\ VariableTypes /\ Bounded(n) /\ ViewReached(n) /\ EpochCurrent(n)
      /\ n \notin Restartable => SignedBehind(n) /\ ResetsPass(n) /\ OvertakersPass(n)
      /\ n \notin Restartable \cup Preempted => Locked(n)
  BY NodeFacts
<1>2. /\ UNCHANGED <<syncing, rootHeight, chain, restarts, msgs>> /\ resets[n] # <<>>
      /\ resets' = [resets EXCEPT ![n] = Tail(@)] /\ overtaken' = [overtaken EXCEPT ![n] = 0]
      /\ timer' = [timer EXCEPT ![n] = TRUE]
      /\ epochs' = [epochs EXCEPT ![n] = {<<ChainHeight(n), rootHeight[n]>>}]
      /\ highQC' = IF Head(resets[n]) THEN highQC ELSE [highQC EXCEPT ![n] = Nil]
  BY DEF ResetBFT, NewHeight
<1>3. UNCHANGED <<syncing, rootHeight, chain, restarts, msgs>>
  BY <1>2
<1>4. PICK r \in 0 .. MaxRound : r = 0 /\ NewRound(n, r)
  <2>1. PICK z \in 0 .. MaxRound : z = 0
    BY Bounds
  <2>2. NewRound(n, z)
    BY <2>1 DEF ResetBFT, NewHeight
  <2> QED
    BY <2>1, <2>2
<1>5. /\ view' \in [Node -> ViewType] /\ proposerKey' \in [Node -> Node \cup {Nil}] /\ Blocks'
      /\ view'[n].height = ChainHeight(n) /\ view'[n].rootHeight = rootHeight[n]
      /\ view'[n].round = r /\ view'[n].phase = Election
      /\ \A k \in Node \ {n} : view'[k] = view[k]
  BY <1>1, <1>4, NewRoundViews
<1>6. /\ resets \in [Node -> Seq(BOOLEAN)] /\ overtaken \in [Node -> Nat]
      /\ timer \in [Node -> BOOLEAN] /\ DOMAIN highQC = Node /\ DOMAIN epochs = Node
  BY <1>1 DEF VariableTypes
<1>7. PICK s \in Seq(BOOLEAN) : s = resets[n] /\ s # <<>>
  BY <1>2, <1>6
<1>8. /\ Tail(s) \in Seq(BOOLEAN) /\ Len(Tail(s)) = Len(s) - 1 /\ Len(s) \in Nat
      /\ \A i \in DOMAIN Tail(s) : i + 1 \in DOMAIN s /\ Tail(s)[i] = s[i + 1]
      /\ 1 \in DOMAIN s /\ Head(s) = s[1]
  BY <1>7, TailFacts
<1>9. resets'[n] = Tail(s) /\ resets' \in [Node -> Seq(BOOLEAN)]
  BY <1>2, <1>6, <1>7, <1>8
<1>10. highQC'[n] = highQC[n] \/ (highQC'[n] = Nil /\ ~s[1])
  BY <1>2, <1>6, <1>7, <1>8
<1>11. overtaken' \in [Node -> Nat] /\ timer' \in [Node -> BOOLEAN] /\ DOMAIN highQC' = Node
       /\ DOMAIN epochs' = Node
  BY <1>2, <1>6
<1>12. VariableTypes'
  BY <1>1, <1>2, <1>5, <1>9, <1>11 DEF VariableTypes
<1>13. Bounded(n)'
  <2>1. Len(s) <= ResetCap
    BY <1>1, <1>7 DEF Bounded
  <2>2. Len(resets'[n]) <= ResetCap
    BY <1>8, <1>9, <2>1, Bounds
  <2> QED
    BY <1>1, <1>2, <1>10, <2>2 DEF Bounded
<1>14. \A k \in Node \ {n} : SameNode(k)
  BY <1>2, <1>5, <1>6 DEF SameNode
<1>15. ChainHeight(n)' = ChainHeight(n) /\ ChainHeight(n) \in Nat /\ rootHeight[n] \in Nat
  BY <1>1, <1>2, NodeTypes DEF ChainHeight
<1>16. ViewReached(n)'
  BY <1>5, <1>15, <1>3 DEF ViewReached
<1>17. EpochCurrent(n)'
  BY <1>2, <1>5, <1>6 DEF EpochCurrent
<1>18. Unlocks(n)' => Unlocks(n)
  BY <1>7, <1>8, <1>9 DEF Unlocks
<1>19. ASSUME n \notin Restartable PROVE Signing(n)'
  <2>1. SignedBehind(n)'
    <3> SUFFICES ASSUME NEW x \in SignedBy(n), ~Outrun(x.header.height)
                 PROVE  Less(x.header, view'[n])
      BY <1>3 DEF SignedBehind, SignedBy, Outrun
    <3>1. Passed(x.header, n)
      BY <1>1, <1>2, <1>19 DEF ResetsPass
    <3> QED
      BY <1>5, <3>1 DEF Passed, Less
  <2>2. ResetsPass(n)'
    BY <1>1, <1>2, <1>15, <1>18, <1>19, <1>3 DEF ResetsPass, SignedBy, Passed, Closed, Outrun
  <2>3. OvertakersPass(n)'
    BY <1>5, PhaseNumbers DEF OvertakersPass
  <2> QED
    BY <2>1, <2>2, <2>3 DEF Signing
<1>20. ASSUME n \notin Restartable \cup Preempted PROVE Locked(n)'
  <2>1. CASE highQC'[n] = highQC[n]
    BY <1>1, <1>2, <1>5, <1>20, <2>1, LockMoves
  <2>2. CASE ~s[1]
    <3>1. Unlocks(n)
      BY <1>7, <1>8, <2>2 DEF Unlocks
    <3> SUFFICES ASSUME NEW m \in msgs', m.type = "vote", m.from = n,
                        m.header.phase = PrecommitVote, m.header.height = ChainHeight(n),
                        ~Outrun(m.header.height)'
                 PROVE  FALSE
      BY <1>5 DEF Locked
    <3>2. m \in SignedBy(n)
      BY <1>3, PhaseNumbers DEF SignedBy
    <3>3. Closed(m.header, n)
      BY <1>1, <1>20, <3>1, <3>2 DEF ResetsPass
    <3>4. ~Outrun(m.header.height)
      BY <1>3 DEF Outrun
    <3> QED
      BY <1>15, <3>3, <3>4 DEF Closed
  <2> QED
    BY <1>10, <2>1, <2>2
<1> QED
  BY <1>2, <1>12, <1>13, <1>14, <1>16, <1>17, <1>19, <1>20, QuietInv

-----------------------------------------------------------------------------
(* The controller. *)

\* A lock that is not below w stays not below it when a higher one replaces it.
LEMMA HigherStays ==
  ASSUME NEW u \in HeaderType, NEW v \in HeaderType, NEW w \in HeaderType,
         Less(u, v), ~Less(u, w)
  PROVE  ~Less(v, w)
<1>1. u.height \in Nat /\ u.rootHeight \in Nat /\ u.round \in Nat /\ u.phase \in Nat
  BY HeaderFields
<1>2. v.height \in Nat /\ v.rootHeight \in Nat /\ v.round \in Nat /\ v.phase \in Nat
  BY HeaderFields
<1>3. w.height \in Nat /\ w.rootHeight \in Nat /\ w.round \in Nat /\ w.phase \in Nat
  BY HeaderFields
<1> QED
  BY <1>1, <1>2, <1>3 DEF Less

\* AdoptHighQC
LEMMA AdoptInv ==
  ASSUME Inv, NEW n \in Node, NEW m \in msgs, AdoptHighQC(n, m), UNCHANGED overtaken
  PROVE  Inv'
<1>1. /\ TypeOK /\ VariableTypes /\ Bounded(n) /\ ViewReached(n) /\ EpochCurrent(n)
      /\ n \notin Restartable => SignedBehind(n) /\ ResetsPass(n) /\ OvertakersPass(n)
      /\ n \notin Restartable \cup Preempted => Locked(n)
  BY NodeFacts
<1>2. /\ UNCHANGED <<view, proposerKey, blockHash, epochs, timer, msgs>>
      /\ UNCHANGED <<resets, syncing, rootHeight, chain, restarts>>
  BY DEF AdoptHighQC, ctlVars
<1>3. /\ m.type = "vote" /\ m.highQC # Nil
      /\ highQC[n] # Nil => Less(highQC[n].header, m.highQC.header)
  BY DEF AdoptHighQC, HigherLock
<1>4. IsLock(m.highQC)
  BY <1>1, <1>3 DEF TypeOK, MessageOK
<1>5. PICK qc : qc = m.highQC
  OBVIOUS
<1>6. highQC' = [highQC EXCEPT ![n] = qc] /\ block' = [block EXCEPT ![n] = Nil]
  BY <1>5 DEF AdoptHighQC
<1>7. DOMAIN highQC = Node /\ block \in [Node -> BlockType \cup {Nil}]
  BY <1>1 DEF TypeOK
<1>8. /\ highQC'[n] = qc /\ DOMAIN highQC' = Node /\ block' \in [Node -> BlockType \cup {Nil}]
      /\ \A k \in Node \ {n} : highQC'[k] = highQC[k]
  BY <1>6, <1>7
<1>9. VariableTypes' /\ Bounded(n)'
  BY <1>1, <1>2, <1>4, <1>5, <1>8 DEF VariableTypes, Bounded, Blocks
<1>10. \A k \in Node \ {n} : SameNode(k)
  BY <1>2, <1>8 DEF SameNode
<1>11. ChainHeight(n)' = ChainHeight(n)
  BY <1>2 DEF ChainHeight
<1>12. ViewReached(n)' /\ EpochCurrent(n)'
  BY <1>1, <1>2, <1>11 DEF ViewReached, EpochCurrent
<1>13. ASSUME n \notin Restartable PROVE Signing(n)'
  <2>1. SignedBehind(n)'
    BY <1>1, <1>2, <1>13 DEF SignedBehind, SignedBy, Outrun
  <2>2. ResetsPass(n)'
    BY <1>1, <1>2, <1>11, <1>13 DEF ResetsPass, SignedBy, Passed, Closed, Outrun, Unlocks
  <2>3. OvertakersPass(n)'
    BY <1>1, <1>2, <1>11, <1>13 DEF OvertakersPass, Passed, Closed, Outrun, Unlocks
  <2> QED
    BY <2>1, <2>2, <2>3 DEF Signing
<1>14. ASSUME n \notin Restartable \cup Preempted PROVE Locked(n)'
  <2> SUFFICES ASSUME NEW x \in msgs, x.type = "vote", x.from = n,
                      x.header.phase = PrecommitVote, x.header.height = view[n].height,
                      ~Outrun(x.header.height)
               PROVE  qc # Nil /\ ~Less(qc.header, [x.header EXCEPT !.phase = ProposeVote])
    BY <1>2, <1>8 DEF Locked, Outrun
  <2>1. /\ highQC[n] # Nil
        /\ ~Less(highQC[n].header, [x.header EXCEPT !.phase = ProposeVote])
    BY <1>1, <1>14 DEF Locked
  <2>2. x.header \in HeaderType
    BY <1>1 DEF TypeOK, MessageOK
  <2>3. PICK w \in HeaderType : w = [x.header EXCEPT !.phase = ProposeVote]
    <3>1. [x.header EXCEPT !.phase = ProposeVote] \in HeaderType
      BY <2>2, PhaseNumbers DEF HeaderType
    <3> QED
      BY <3>1
  <2>4. PICK u \in HeaderType : u = highQC[n].header
    BY <1>1, <2>1, NodeTypes DEF IsLock, QCType
  <2>5. PICK v \in HeaderType : v = qc.header
    BY <1>4, <1>5 DEF IsLock, QCType
  <2>6. ~Less(v, w)
    BY <1>3, <1>5, <2>1, <2>3, <2>4, <2>5, HigherStays
  <2> QED
    BY <1>3, <1>5, <2>3, <2>5, <2>6
<1> QED
  BY <1>2, <1>9, <1>10, <1>12, <1>13, <1>14, QuietInv

\* A reset more in the channel.
LEMMA AppendFacts ==
  ASSUME NEW s \in Seq(BOOLEAN), NEW b \in BOOLEAN
  PROVE  /\ Append(s, b) \in Seq(BOOLEAN) /\ Len(Append(s, b)) = Len(s) + 1 /\ Len(s) \in Nat
         /\ Append(s, b) # <<>>
         /\ b => ((\E i \in DOMAIN Append(s, b) : ~Append(s, b)[i]) <=> \E i \in DOMAIN s : ~s[i])
<1>1. Append(s, b) \in Seq(BOOLEAN) /\ Len(Append(s, b)) = Len(s) + 1 /\ Len(s) \in Nat
  OBVIOUS
<1>2. DOMAIN Append(s, b) = 1 .. Len(s) + 1 /\ DOMAIN s = 1 .. Len(s)
  BY <1>1
<1>3. \A i \in 1 .. Len(s) : Append(s, b)[i] = s[i]
  BY <1>1
<1>4. Append(s, b)[Len(s) + 1] = b
  BY <1>1
<1>5. Append(s, b) # <<>>
  BY <1>1
<1>6. ASSUME b, NEW i \in 1 .. Len(s) + 1, ~Append(s, b)[i] PROVE \E j \in 1 .. Len(s) : ~s[j]
  <2>1. i # Len(s) + 1
    BY <1>4, <1>6
  <2> QED
    BY <1>1, <1>3, <1>6, <2>1
<1>7. ASSUME NEW i \in 1 .. Len(s), ~s[i] PROVE \E j \in 1 .. Len(s) + 1 : ~Append(s, b)[j]
  BY <1>1, <1>3, <1>7
<1> QED
  BY <1>1, <1>2, <1>5, <1>6, <1>7

\* A reset is queued.
LEMMA QueueFacts ==
  ASSUME TypeOK, NEW n \in Node, NEW b \in BOOLEAN, Room(n),
         resets' = [resets EXCEPT ![n] = Append(@, b)]
  PROVE  /\ resets' \in [Node -> Seq(BOOLEAN)] /\ resets'[n] # <<>>
         /\ Len(resets'[n]) <= ResetCap /\ \A k \in Node \ {n} : resets'[k] = resets[k]
         /\ b => (Unlocks(n)' <=> Unlocks(n))
<1>1. resets \in [Node -> Seq(BOOLEAN)]
  BY DEF TypeOK
<1>2. PICK s \in Seq(BOOLEAN) : s = resets[n]
  BY <1>1
<1>3. /\ Append(s, b) \in Seq(BOOLEAN) /\ Len(Append(s, b)) = Len(s) + 1 /\ Len(s) \in Nat
      /\ Append(s, b) # <<>>
      /\ b => ((\E i \in DOMAIN Append(s, b) : ~Append(s, b)[i]) <=> \E i \in DOMAIN s : ~s[i])
  BY AppendFacts
<1>4. PICK t \in Seq(BOOLEAN) : t = Append(s, b)
  BY <1>3
<1>5. resets' = [resets EXCEPT ![n] = t]
  BY <1>1, <1>2, <1>4
<1>6. resets'[n] = t /\ resets' \in [Node -> Seq(BOOLEAN)]
      /\ \A k \in Node \ {n} : resets'[k] = resets[k]
  BY <1>1, <1>5
<1>7. Len(t) <= ResetCap
  BY <1>2, <1>3, <1>4, Bounds DEF Room
<1>8. b => (Unlocks(n)' <=> Unlocks(n))
  BY <1>2, <1>3, <1>4, <1>6 DEF Unlocks
<1> QED
  BY <1>3, <1>4, <1>6, <1>7, <1>8

\* A block more in the chain.
LEMMA ChainGrows ==
  ASSUME TypeOK, NEW n \in Node, NEW qc, ChainHeight(n) <= MaxHeight,
         chain' = [chain EXCEPT ![n] = Append(@, qc)]
  PROVE  /\ DOMAIN chain' = Node /\ chain'[n] \in Seq(ToSet(chain'[n]))
         /\ Len(chain'[n]) <= MaxHeight /\ ChainHeight(n)' = ChainHeight(n) + 1
         /\ ChainHeight(n) \in Nat /\ \A k \in Node \ {n} : chain'[k] = chain[k]
<1>1. DOMAIN chain = Node /\ chain[n] \in Seq(ToSet(chain[n]))
  BY DEF TypeOK
<1>2. PICK s : s = chain[n]
  OBVIOUS
<1>3. PICK t : t = Append(s, qc)
  OBVIOUS
<1>4. t \in Seq(ToSet(t)) /\ Len(t) = Len(s) + 1
  BY <1>1, <1>2, <1>3, AppendChain
<1>5. chain' = [chain EXCEPT ![n] = t]
  BY <1>2, <1>3
<1>6. chain'[n] = t /\ DOMAIN chain' = Node /\ \A k \in Node \ {n} : chain'[k] = chain[k]
  BY <1>1, <1>5
<1>7. Len(s) \in Nat /\ Len(s) + 1 <= MaxHeight
  BY <1>2, NodeTypes DEF ChainHeight
<1>8. ChainHeight(n) = Len(s) + 1 /\ ChainHeight(n)' = Len(s) + 2
  BY <1>2, <1>4, <1>6, <1>7 DEF ChainHeight
<1>9. ChainHeight(n)' = ChainHeight(n) + 1 /\ ChainHeight(n) \in Nat /\ Len(t) <= MaxHeight
  BY <1>4, <1>7, <1>8
<1>10. chain'[n] \in Seq(ToSet(chain'[n])) /\ Len(chain'[n]) <= MaxHeight
  BY <1>4, <1>6, <1>9
<1> QED
  BY <1>6, <1>9, <1>10

\* A channel with a reset more asks nothing new of the stores.
LEMMA EpochKept ==
  ASSUME NEW n \in Node, EpochCurrent(n), UNCHANGED <<view, epochs, overtaken>>,
         resets'[n] = resets[n] \/ resets'[n] # <<>>
  PROVE  EpochCurrent(n)'
BY DEF EpochCurrent

\* HandlePeerBlock
LEMMA PeerBlockInv ==
  ASSUME Inv, NEW n \in Node, NEW m \in msgs, HandlePeerBlock(n, m), UNCHANGED overtaken
  PROVE  Inv'
<1>1. /\ TypeOK /\ VariableTypes /\ Bounded(n) /\ ViewReached(n) /\ EpochCurrent(n)
      /\ n \notin Restartable => SignedBehind(n) /\ ResetsPass(n) /\ OvertakersPass(n)
      /\ n \notin Restartable \cup Preempted => Locked(n)
  BY NodeFacts
<1>2. /\ UNCHANGED <<view, proposerKey, block, blockHash, highQC, epochs, timer>>
      /\ UNCHANGED <<syncing, rootHeight, restarts, msgs>> /\ Room(n) /\ ~syncing[n]
  BY DEF HandlePeerBlock, bftVars
<1>3. /\ m.type = "block" /\ m.qc.header.height = ChainHeight(n)
      /\ chain' = [chain EXCEPT ![n] = Append(@, m.qc)]
  BY DEF HandlePeerBlock
<1>4. ChainHeight(n) <= MaxHeight
  <2>1. m.qc.header \in HeaderType
    BY <1>1, <1>3 DEF TypeOK, MessageOK, QCType
  <2> QED
    BY <1>3, <2>1, HeaderFields, Bounds
<1>5. /\ DOMAIN chain' = Node /\ chain'[n] \in Seq(ToSet(chain'[n]))
      /\ Len(chain'[n]) <= MaxHeight /\ ChainHeight(n)' = ChainHeight(n) + 1
      /\ ChainHeight(n) \in Nat /\ \A k \in Node \ {n} : chain'[k] = chain[k]
  BY <1>1, <1>3, <1>4, ChainGrows
<1>6. /\ resets' \in [Node -> Seq(BOOLEAN)] /\ resets'[n] # <<>>
      /\ Len(resets'[n]) <= ResetCap /\ \A k \in Node \ {n} : resets'[k] = resets[k]
  <2>1. PICK b \in BOOLEAN : b = FALSE
    OBVIOUS
  <2>2. resets' = [resets EXCEPT ![n] = Append(@, b)]
    BY <2>1 DEF HandlePeerBlock
  <2> QED
    BY <1>1, <1>2, <2>2, QueueFacts
<1>7. VariableTypes' /\ Bounded(n)'
  BY <1>1, <1>2, <1>5, <1>6 DEF VariableTypes, Bounded, Blocks
<1>8. \A k \in Node \ {n} : SameNode(k)
  BY <1>2, <1>5, <1>6 DEF SameNode
<1>9. view[n] \in ViewType /\ view[n].height \in Nat /\ view[n].height <= ChainHeight(n)
  BY <1>1, NodeTypes, ViewFields DEF ViewReached
<1>10. ViewReached(n)'
  BY <1>1, <1>2, <1>5, <1>6, <1>9 DEF ViewReached
<1>11. EpochCurrent(n)'
  BY <1>1, <1>2, <1>6, EpochKept
<1>12. ASSUME n \notin Restartable, NEW x \in SignedBy(n)
       PROVE  Outrun(x.header.height) \/ x.header.height < ChainHeight(n)'
  <2>1. \/ Outrun(x.header.height)
        \/ x.header.height < ChainHeight(n)
        \/ x.header.height = ChainHeight(n)
    BY <1>1, <1>12, NoLaterVotes
  <2>2. x.header.height \in Nat
    BY <1>1, VoteFields
  <2> QED
    BY <1>5, <2>1, <2>2
<1>13. ASSUME n \notin Restartable PROVE Signing(n)'
  <2>1. SignedBehind(n)'
    BY <1>1, <1>2, <1>13 DEF SignedBehind, SignedBy, Outrun
  <2>2. ASSUME NEW x \in SignedBy(n)' PROVE Passed(x.header, n)' /\ Closed(x.header, n)'
    <3>1. x \in SignedBy(n)
      BY <1>2 DEF SignedBy
    <3>2. Outrun(x.header.height) \/ x.header.height < ChainHeight(n)'
      BY <1>12, <1>13, <3>1
    <3>3. Outrun(x.header.height)' \/ x.header.height < ChainHeight(n)'
      BY <1>2, <3>2 DEF Outrun
    <3> QED
      BY <3>3 DEF Passed, Closed
  <2>3. ResetsPass(n)'
    BY <2>2 DEF ResetsPass
  <2>4. OvertakersPass(n)'
    <3>1. view'[n].height < ChainHeight(n)'
      BY <1>2, <1>5, <1>9
    <3> QED
      BY <3>1 DEF OvertakersPass, Passed, Closed
  <2> QED
    BY <2>1, <2>3, <2>4 DEF Signing
<1>14. n \notin Restartable \cup Preempted => Locked(n)'
  BY <1>1, <1>2, LockStays
<1> QED
  BY <1>2, <1>7, <1>8, <1>10, <1>11, <1>13, <1>14, QuietInv

\* StartSync
LEMMA StartSyncInv ==
  ASSUME Inv, NEW n \in Node, NEW m \in msgs, StartSync(n, m), UNCHANGED overtaken
  PROVE  Inv'
<1>1. /\ TypeOK /\ VariableTypes /\ Bounded(n) /\ ViewReached(n) /\ EpochCurrent(n)
      /\ n \notin Restartable => SignedBehind(n) /\ ResetsPass(n) /\ OvertakersPass(n)
      /\ n \notin Restartable \cup Preempted => Locked(n)
  BY NodeFacts
<1>2. /\ UNCHANGED <<view, proposerKey, block, blockHash, highQC, epochs, timer>>
      /\ UNCHANGED <<resets, rootHeight, chain, restarts, msgs>>
  BY DEF StartSync, bftVars
<1>3. syncing' = [syncing EXCEPT ![n] = TRUE] /\ syncing \in [Node -> BOOLEAN]
  BY <1>1 DEF StartSync, VariableTypes
<1>4. /\ syncing'[n] /\ syncing' \in [Node -> BOOLEAN]
      /\ \A k \in Node \ {n} : syncing'[k] = syncing[k]
  BY <1>3
<1>5. VariableTypes' /\ Bounded(n)'
  BY <1>1, <1>2, <1>4 DEF VariableTypes, Bounded, Blocks
<1>6. \A k \in Node \ {n} : SameNode(k)
  BY <1>2, <1>4 DEF SameNode
<1>7. ChainHeight(n)' = ChainHeight(n) /\ ChainHeight(n) \in Nat
  BY <1>1, <1>2, NodeTypes DEF ChainHeight
<1>8. ViewReached(n)' /\ EpochCurrent(n)'
  BY <1>1, <1>2, <1>4, <1>7 DEF ViewReached, EpochCurrent
<1>9. ASSUME NEW h \in Nat, h <= ChainHeight(n) PROVE Outrun(h)
  <2>1. m.type = "block" /\ m.qc.header.height > ChainHeight(n)
    BY DEF StartSync
  <2>2. m.qc.header \in HeaderType
    BY <1>1, <2>1 DEF TypeOK, MessageOK, QCType
  <2>3. m.qc.header.height \in Nat
    BY <2>2, HeaderFields
  <2>4. m.qc.header.height > h
    BY <1>7, <1>9, <2>1, <2>3
  <2> QED
    BY <2>1, <2>4 DEF Outrun
<1>10. ASSUME n \notin Restartable PROVE Signing(n)'
  <2>1. SignedBehind(n)'
    BY <1>1, <1>2, <1>10 DEF SignedBehind, SignedBy, Outrun
  <2>2. ASSUME NEW x \in SignedBy(n)' PROVE Passed(x.header, n)' /\ Closed(x.header, n)'
    <3>1. x \in SignedBy(n)
      BY <1>2 DEF SignedBy
    <3>2. PICK h \in Nat : h = x.header.height
      BY <1>1, <3>1, VoteFields
    <3>3. Outrun(h)
      <4>1. Outrun(h) \/ h < ChainHeight(n) \/ h = ChainHeight(n)
        BY <1>1, <1>10, <3>1, <3>2, NoLaterVotes
      <4> QED
        BY <1>7, <1>9, <4>1
    <3>4. Outrun(x.header.height)'
      BY <1>2, <3>2, <3>3 DEF Outrun
    <3> QED
      BY <3>4 DEF Passed, Closed
  <2>3. ResetsPass(n)'
    BY <2>2 DEF ResetsPass
  <2>4. OvertakersPass(n)'
    <3>1. PICK h \in Nat : h = view[n].height /\ h <= ChainHeight(n)
      BY <1>1, NodeTypes, ViewFields DEF ViewReached
    <3>2. Outrun(view[n].height)'
      BY <1>2, <1>9, <3>1 DEF Outrun
    <3> QED
      BY <1>2, <3>2 DEF OvertakersPass, Passed, Closed
  <2> QED
    BY <2>1, <2>3, <2>4 DEF Signing
<1>11. n \notin Restartable \cup Preempted => Locked(n)'
  BY <1>1, <1>2, LockStays
<1> QED
  BY <1>2, <1>5, <1>6, <1>8, <1>10, <1>11, QuietInv

\* SyncBlock
LEMMA SyncBlockInv ==
  ASSUME Inv, NEW n \in Node, NEW p \in Node, SyncBlock(n, p), UNCHANGED overtaken
  PROVE  Inv'
<1>1. /\ TypeOK /\ VariableTypes /\ Bounded(n) /\ ViewReached(n) /\ EpochCurrent(n)
      /\ n \notin Restartable => SignedBehind(n) /\ ResetsPass(n) /\ OvertakersPass(n)
      /\ n \notin Restartable \cup Preempted => Locked(n)
  BY NodeFacts
<1>2. /\ UNCHANGED <<view, proposerKey, block, blockHash, highQC, epochs, timer>>
      /\ UNCHANGED <<resets, syncing, rootHeight, restarts, msgs>> /\ syncing[n]
  BY DEF SyncBlock, bftVars
<1>3. PICK qc : chain' = [chain EXCEPT ![n] = Append(@, qc)]
  BY DEF SyncBlock
<1>4. ChainHeight(n) <= MaxHeight
  <2>1. Len(chain[p]) >= ChainHeight(n)
    BY DEF SyncBlock
  <2>2. Len(chain[p]) \in 0 .. MaxHeight /\ ChainHeight(n) \in Nat
    BY <1>1, NodeTypes
  <2> QED
    BY <2>1, <2>2, Bounds
<1>5. /\ DOMAIN chain' = Node /\ chain'[n] \in Seq(ToSet(chain'[n]))
      /\ Len(chain'[n]) <= MaxHeight /\ ChainHeight(n)' = ChainHeight(n) + 1
      /\ ChainHeight(n) \in Nat /\ \A k \in Node \ {n} : chain'[k] = chain[k]
  BY <1>1, <1>3, <1>4, ChainGrows
<1>6. VariableTypes' /\ Bounded(n)'
  BY <1>1, <1>2, <1>5 DEF VariableTypes, Bounded, Blocks
<1>7. \A k \in Node \ {n} : SameNode(k)
  BY <1>2, <1>5 DEF SameNode
<1>8. view[n] \in ViewType /\ view[n].height \in Nat /\ view[n].height <= ChainHeight(n)
      /\ view[n].rootHeight \in Nat /\ rootHeight[n] \in Nat
  BY <1>1, NodeTypes, ViewFields DEF ViewReached
<1>9. ViewReached(n)'
  BY <1>1, <1>2, <1>5, <1>8 DEF ViewReached
<1>10. EpochCurrent(n)'
  BY <1>1, <1>2, EpochKept
<1>11. ASSUME n \notin Restartable, NEW x \in SignedBy(n)
       PROVE  Outrun(x.header.height) \/ x.header.height < ChainHeight(n)
  BY <1>1, <1>2, <1>11 DEF ResetsPass, Closed
<1>12. ASSUME n \notin Restartable PROVE Signing(n)'
  <2>1. SignedBehind(n)'
    BY <1>1, <1>2, <1>12 DEF SignedBehind, SignedBy, Outrun
  <2>2. ASSUME NEW x \in SignedBy(n)' PROVE Passed(x.header, n)' /\ Closed(x.header, n)'
    <3>1. x \in SignedBy(n)
      BY <1>2 DEF SignedBy
    <3>2. Outrun(x.header.height) \/ x.header.height < ChainHeight(n)
      BY <1>11, <1>12, <3>1
    <3>3. x.header.height \in Nat
      BY <1>1, <3>1, VoteFields
    <3>4. Outrun(x.header.height)' \/ x.header.height < ChainHeight(n)'
      BY <1>2, <1>5, <3>2, <3>3 DEF Outrun
    <3> QED
      BY <3>4 DEF Passed, Closed
  <2>3. ResetsPass(n)'
    BY <2>2 DEF ResetsPass
  <2>4. OvertakersPass(n)'
    <3>1. view'[n].height < ChainHeight(n)'
      BY <1>2, <1>5, <1>8
    <3> QED
      BY <3>1 DEF OvertakersPass, Passed, Closed
  <2> QED
    BY <2>1, <2>3, <2>4 DEF Signing
<1>13. n \notin Restartable \cup Preempted => Locked(n)'
  BY <1>1, <1>2, LockStays
<1> QED
  BY <1>2, <1>6, <1>7, <1>9, <1>10, <1>12, <1>13, QuietInv

\* FinishSync
LEMMA FinishSyncInv ==
  ASSUME Inv, NEW n \in Node, FinishSync(n), UNCHANGED overtaken
  PROVE  Inv'
<1>1. /\ TypeOK /\ VariableTypes /\ Bounded(n) /\ ViewReached(n) /\ EpochCurrent(n)
      /\ n \notin Restartable => SignedBehind(n) /\ ResetsPass(n) /\ OvertakersPass(n)
      /\ n \notin Restartable \cup Preempted => Locked(n)
  BY NodeFacts
<1>2. /\ UNCHANGED <<view, proposerKey, block, blockHash, highQC, epochs, timer>>
      /\ UNCHANGED <<rootHeight, chain, restarts, msgs>> /\ Room(n) /\ syncing[n]
  BY DEF FinishSync, bftVars
<1>3. syncing' = [syncing EXCEPT ![n] = FALSE] /\ syncing \in [Node -> BOOLEAN]
  BY <1>1 DEF FinishSync, VariableTypes
<1>4. syncing' \in [Node -> BOOLEAN] /\ \A k \in Node \ {n} : syncing'[k] = syncing[k]
  BY <1>3
<1>5. /\ resets' \in [Node -> Seq(BOOLEAN)] /\ resets'[n] # <<>>
      /\ Len(resets'[n]) <= ResetCap /\ \A k \in Node \ {n} : resets'[k] = resets[k]
  <2>1. PICK b \in BOOLEAN : b = FALSE
    OBVIOUS
  <2>2. resets' = [resets EXCEPT ![n] = Append(@, b)]
    BY <2>1 DEF FinishSync
  <2> QED
    BY <1>1, <1>2, <2>2, QueueFacts
<1>6. VariableTypes' /\ Bounded(n)'
  BY <1>1, <1>2, <1>4, <1>5 DEF VariableTypes, Bounded, Blocks
<1>7. \A k \in Node \ {n} : SameNode(k)
  BY <1>2, <1>4, <1>5 DEF SameNode
<1>8. ChainHeight(n)' = ChainHeight(n)
  BY <1>2 DEF ChainHeight
<1>9. ViewReached(n)'
  BY <1>1, <1>2, <1>5, <1>8 DEF ViewReached
<1>10. EpochCurrent(n)'
  BY <1>1, <1>2, <1>5, EpochKept
<1>11. ASSUME n \notin Restartable PROVE Signing(n)'
  <2>1. SignedBehind(n)'
    BY <1>1, <1>2, <1>11 DEF SignedBehind, SignedBy, Outrun
  <2>2. ResetsPass(n)'
    BY <1>1, <1>2, <1>8, <1>11 DEF ResetsPass, SignedBy, Passed, Closed, Outrun
  <2>3. OvertakersPass(n)'
    BY <1>1, <1>2, <1>8, <1>11 DEF OvertakersPass, Passed, Closed, Outrun
  <2> QED
    BY <2>1, <2>2, <2>3 DEF Signing
<1>12. n \notin Restartable \cup Preempted => Locked(n)'
  BY <1>1, <1>2, LockStays
<1> QED
  BY <1>2, <1>6, <1>7, <1>9, <1>10, <1>11, <1>12, QuietInv

\* UpdateRootChainInfo
LEMMA UpdateRootInv ==
  ASSUME Inv, NEW n \in Node, UpdateRootChainInfo(n), UNCHANGED overtaken
  PROVE  Inv'
<1>1. /\ TypeOK /\ VariableTypes /\ Bounded(n) /\ ViewReached(n) /\ EpochCurrent(n)
      /\ n \notin Restartable => SignedBehind(n) /\ ResetsPass(n) /\ OvertakersPass(n)
      /\ n \notin Restartable \cup Preempted => Locked(n)
  BY NodeFacts
<1>2. /\ UNCHANGED <<view, proposerKey, block, blockHash, highQC, epochs, timer>>
      /\ UNCHANGED <<syncing, chain, restarts, msgs>> /\ Room(n)
  BY DEF UpdateRootChainInfo, bftVars
<1>3. rootHeight' = [rootHeight EXCEPT ![n] = @ + 1] /\ rootHeight[n] < MaxRootHeight
      /\ rootHeight \in [Node -> 1 .. MaxRootHeight]
  BY <1>1 DEF UpdateRootChainInfo, VariableTypes
<1>4. /\ rootHeight' \in [Node -> 1 .. MaxRootHeight] /\ rootHeight'[n] = rootHeight[n] + 1
      /\ rootHeight[n] \in Nat /\ \A k \in Node \ {n} : rootHeight'[k] = rootHeight[k]
  BY <1>3, Bounds
<1>5. /\ resets' \in [Node -> Seq(BOOLEAN)] /\ resets'[n] # <<>> /\ (Unlocks(n)' <=> Unlocks(n))
      /\ Len(resets'[n]) <= ResetCap /\ \A k \in Node \ {n} : resets'[k] = resets[k]
  <2>1. PICK b \in BOOLEAN : b = TRUE
    OBVIOUS
  <2>2. resets' = [resets EXCEPT ![n] = Append(@, b)] /\ b
    BY <2>1 DEF UpdateRootChainInfo
  <2> QED
    BY <1>1, <1>2, <2>2, QueueFacts
<1>6. VariableTypes' /\ Bounded(n)'
  BY <1>1, <1>2, <1>4, <1>5 DEF VariableTypes, Bounded, Blocks
<1>7. \A k \in Node \ {n} : SameNode(k)
  BY <1>2, <1>4, <1>5 DEF SameNode
<1>8. ChainHeight(n)' = ChainHeight(n) /\ ChainHeight(n) \in Nat
  BY <1>1, <1>2, NodeTypes DEF ChainHeight
<1>9. /\ view[n].height \in Nat /\ view[n].height <= ChainHeight(n)
      /\ view[n].rootHeight \in Nat /\ view[n].rootHeight <= rootHeight[n]
  BY <1>1, NodeTypes, ViewFields DEF ViewReached
<1>10. ViewReached(n)'
  BY <1>2, <1>4, <1>5, <1>8, <1>9 DEF ViewReached
<1>11. EpochCurrent(n)'
  BY <1>1, <1>2, <1>5, EpochKept
<1>12. ASSUME n \notin Restartable PROVE Signing(n)'
  <2>1. SignedBehind(n)'
    BY <1>1, <1>2, <1>12 DEF SignedBehind, SignedBy, Outrun
  <2>2. ASSUME NEW x \in SignedBy(n)' PROVE Passed(x.header, n)'
    <3>1. x \in SignedBy(n)
      BY <1>2 DEF SignedBy
    <3>2. \/ Outrun(x.header.height)
          \/ x.header.height < ChainHeight(n)
          \/ x.header.height = ChainHeight(n) /\ x.header.rootHeight <= rootHeight[n]
      BY <1>1, <1>12, <3>1, NoLaterVotes
    <3>3. x.header.rootHeight \in Nat
      BY <1>1, <3>1, VoteFields
    <3>4. \/ Outrun(x.header.height)'
          \/ x.header.height < ChainHeight(n)'
          \/ x.header.height = ChainHeight(n)' /\ x.header.rootHeight < rootHeight'[n]
      BY <1>2, <1>4, <1>8, <3>2, <3>3 DEF Outrun
    <3> QED
      BY <3>4 DEF Passed
  <2>3. ASSUME syncing'[n] \/ Unlocks(n)', NEW x \in SignedBy(n)' PROVE Closed(x.header, n)'
    <3>1. x \in SignedBy(n) /\ (syncing[n] \/ Unlocks(n))
      BY <1>2, <1>5, <2>3 DEF SignedBy
    <3>2. Closed(x.header, n)
      BY <1>1, <1>12, <3>1 DEF ResetsPass
    <3> QED
      BY <1>2, <1>8, <3>2 DEF Closed, Outrun
  <2>4. ResetsPass(n)'
    BY <2>2, <2>3 DEF ResetsPass
  <2>5. OvertakersPass(n)'
    <3>1. Passed(view[n], n)'
      BY <1>2, <1>4, <1>8, <1>9 DEF Passed
    <3>2. syncing'[n] \/ (Unlocks(n)' /\ overtaken'[n] = 0) =>
            view[n].phase <= Election \/ Closed(view[n], n)
      BY <1>1, <1>2, <1>5, <1>12 DEF OvertakersPass
    <3>3. Closed(view[n], n) => Closed(view[n], n)'
      BY <1>2, <1>8 DEF Closed, Outrun
    <3> QED
      BY <1>2, <3>1, <3>2, <3>3 DEF OvertakersPass
  <2> QED
    BY <2>1, <2>4, <2>5 DEF Signing
<1>13. n \notin Restartable \cup Preempted => Locked(n)'
  BY <1>1, <1>2, LockStays
<1> QED
  BY <1>2, <1>6, <1>7, <1>10, <1>11, <1>12, <1>13, QuietInv

\* Restart
LEMMA RestartInv ==
  ASSUME Inv, NEW n \in Node, Restart(n)
  PROVE  Inv'
<1>1. TypeOK /\ VariableTypes /\ Bounded(n)
  BY NodeFacts
<1>2. UNCHANGED <<rootHeight, chain, msgs>> /\ n \in Restartable
  BY DEF Restart
<1>3. restarts' \in 0 .. MaxRestarts
  <2>1. restarts \in 0 .. MaxRestarts /\ restarts < MaxRestarts /\ restarts' = restarts + 1
    BY <1>1 DEF Restart, VariableTypes
  <2> QED
    BY <2>1, Bounds
<1>4. ChainHeight(n) \in 1 .. MaxHeight + 1 /\ rootHeight[n] \in 1 .. MaxRootHeight
      /\ ChainHeight(n)' = ChainHeight(n) /\ ChainHeight(n) \in Nat /\ rootHeight[n] \in Nat
  BY <1>1, <1>2, NodeTypes DEF ChainHeight
<1>5. PICK v : v = [height |-> ChainHeight(n), rootHeight |-> rootHeight[n],
                    round |-> 0, phase |-> Unknown]
  OBVIOUS
<1>6. v \in ViewType /\ v.height = ChainHeight(n) /\ v.rootHeight = rootHeight[n]
      /\ v.phase = Unknown
  BY <1>4, <1>5, PhaseNumbers, Bounds DEF ViewType
<1>7. view' = [view EXCEPT ![n] = v] /\ view \in [Node -> ViewType]
  BY <1>1, <1>5 DEF Restart, VariableTypes
<1>8. view' \in [Node -> ViewType] /\ view'[n] = v /\ \A k \in Node \ {n} : view'[k] = view[k]
  BY <1>6, <1>7
<1>9. proposerKey' \in [Node -> Node \cup {Nil}] /\ Blocks' /\ timer' \in [Node -> BOOLEAN]
  BY <1>1 DEF Restart, VariableTypes, Blocks
<1>10. /\ syncing' \in [Node -> BOOLEAN] /\ syncing'[n]
       /\ \A k \in Node \ {n} : syncing'[k] = syncing[k]
  <2>1. syncing' = [syncing EXCEPT ![n] = TRUE] /\ syncing \in [Node -> BOOLEAN]
    BY <1>1 DEF Restart, VariableTypes
  <2> QED
    BY <2>1
<1>11. /\ resets' \in [Node -> Seq(BOOLEAN)] /\ resets'[n] = <<>>
       /\ \A k \in Node \ {n} : resets'[k] = resets[k]
  <2>1. resets' = [resets EXCEPT ![n] = <<>>] /\ resets \in [Node -> Seq(BOOLEAN)]
    BY <1>1 DEF Restart, VariableTypes
  <2>2. PICK s \in Seq(BOOLEAN) : s = <<>>
    <3>1. <<>> \in Seq(BOOLEAN)
      OBVIOUS
    <3> QED
      BY <3>1
  <2> QED
    BY <2>1, <2>2
<1>12. overtaken' \in [Node -> Nat] /\ \A k \in Node \ {n} : overtaken'[k] = overtaken[k]
  <2>1. overtaken' = [overtaken EXCEPT ![n] = 0] /\ overtaken \in [Node -> Nat]
    BY <1>1 DEF Restart, VariableTypes
  <2> QED
    BY <2>1
<1>13. /\ DOMAIN highQC' = Node /\ highQC'[n] = Nil
       /\ \A k \in Node \ {n} : highQC'[k] = highQC[k]
  <2>1. highQC' = [highQC EXCEPT ![n] = Nil] /\ DOMAIN highQC = Node
    BY <1>1 DEF Restart, VariableTypes
  <2> QED
    BY <2>1
<1>14. /\ DOMAIN epochs' = Node /\ epochs'[n] = {<<ChainHeight(n), rootHeight[n]>>}
       /\ \A k \in Node \ {n} : epochs'[k] = epochs[k]
  <2>1. epochs' = [epochs EXCEPT ![n] = {<<ChainHeight(n), rootHeight[n]>>}] /\ DOMAIN epochs = Node
    BY <1>1 DEF Restart, VariableTypes
  <2> QED
    BY <2>1
<1>15. VariableTypes'
  BY <1>1, <1>2, <1>3, <1>8, <1>9, <1>10, <1>11, <1>12, <1>13, <1>14 DEF VariableTypes
<1>16. Bounded(n)'
  <2>1. Len(resets'[n]) <= ResetCap
    BY <1>11, Bounds
  <2> QED
    BY <1>1, <1>2, <1>13, <2>1 DEF Bounded
<1>17. \A k \in Node \ {n} : SameNode(k)
  BY <1>2, <1>8, <1>10, <1>11, <1>12, <1>13, <1>14 DEF SameNode
<1>18. ViewReached(n)' /\ EpochCurrent(n)'
  BY <1>2, <1>4, <1>6, <1>8, <1>10, <1>14 DEF ViewReached, EpochCurrent
<1> QED
  BY <1>2, <1>15, <1>16, <1>17, <1>18, QuietInv

-----------------------------------------------------------------------------
(* The invariant. *)

\* The invariant holds when height 1 starts.
LEMMA InitInv ==
  ASSUME Init
  PROVE  Inv
<1>1. PICK v : v = [height |-> 1, rootHeight |-> 1, round |-> 0, phase |-> Election]
  OBVIOUS
<1>2. v \in ViewType /\ v.height = 1 /\ v.rootHeight = 1 /\ v.phase = Election
  BY <1>1, PhaseNumbers, Bounds DEF ViewType
<1>3. view = [n \in Node |-> v] /\ msgs = {}
  BY <1>1 DEF Init
<1>4. view \in [Node -> ViewType] /\ \A n \in Node : view[n] = v
  BY <1>2, <1>3
<1>5. proposerKey \in [Node -> Node \cup {Nil}] /\ Blocks /\ timer \in [Node -> BOOLEAN]
      /\ syncing \in [Node -> BOOLEAN] /\ overtaken \in [Node -> Nat]
  BY DEF Init, Blocks
<1>6. rootHeight \in [Node -> 1 .. MaxRootHeight] /\ \A n \in Node : rootHeight[n] = 1
  BY Bounds DEF Init
<1>7. resets \in [Node -> Seq(BOOLEAN)] /\ \A n \in Node : resets[n] = <<>>
  <2>1. <<>> \in Seq(BOOLEAN)
    OBVIOUS
  <2> QED
    BY <2>1 DEF Init
<1>8. restarts \in 0 .. MaxRestarts
  BY Bounds DEF Init
<1>9. /\ DOMAIN chain = Node /\ DOMAIN highQC = Node /\ DOMAIN epochs = Node
      /\ \A n \in Node : chain[n] = <<>> /\ highQC[n] = Nil /\ epochs[n] = {<<1, 1>>} /\ ~syncing[n]
  BY DEF Init
<1>10. VariableTypes
  BY <1>4, <1>5, <1>6, <1>7, <1>8, <1>9 DEF VariableTypes
<1>11. ASSUME NEW n \in Node PROVE Bounded(n) /\ ChainHeight(n) = 1
  <2>1. Len(chain[n]) = 0 /\ Len(resets[n]) = 0
    BY <1>7, <1>9
  <2>2. chain[n] \in Seq(ToSet(chain[n]))
    <3>1. PICK S : S = ToSet(chain[n])
      OBVIOUS
    <3>2. <<>> \in Seq(S)
      OBVIOUS
    <3> QED
      BY <1>9, <3>1, <3>2
  <2> QED
    BY <1>9, <2>1, <2>2, Bounds DEF Bounded, ChainHeight
<1>12. TypeOK
  BY <1>3, <1>10, <1>11, TypeParts
<1>13. ASSUME NEW n \in Node PROVE NodeInv(n)
  <2>1. SignedBy(n) = {}
    BY <1>3 DEF SignedBy
  <2>2. ViewReached(n) /\ EpochCurrent(n)
    BY <1>2, <1>4, <1>6, <1>9, <1>11 DEF ViewReached, EpochCurrent
  <2>3. Signing(n)
    <3>1. ~Unlocks(n)
      BY <1>7, EmptyUnlocks
    <3> QED
      BY <1>7, <1>9, <2>1, <3>1 DEF Signing, SignedBehind, ResetsPass, OvertakersPass
  <2>4. Locked(n)
    BY <1>3 DEF Locked
  <2> QED
    BY <2>2, <2>3, <2>4 DEF NodeInv
<1>14. OneVoteEach
  BY <1>3 DEF OneVoteEach
<1> QED
  BY <1>3, <1>12, <1>13, <1>14 DEF Inv

\* Every step keeps the invariant.
LEMMA NextInv ==
  ASSUME Inv, [Next]_vars
  PROVE  Inv'
<1>1. CASE UNCHANGED vars
  <2>1. UNCHANGED <<view, proposerKey, block, blockHash, highQC, epochs, timer>>
        /\ UNCHANGED <<resets, syncing, rootHeight, chain, restarts, overtaken, msgs>>
    BY <1>1 DEF vars, bftVars, ctlVars
  <2>2. ASSUME NEW k \in Node PROVE NodeInv(k)'
    <3>1. SameNode(k) /\ NoVoteOf(k)
      BY <2>1 DEF SameNode, NoVoteOf
    <3> QED
      BY <3>1, OtherNode DEF Inv
  <2>3. TypeOK'
    BY <2>1 DEF Inv, TypeOK, MessageOK, IsLock
  <2>4. OneVoteEach'
    BY <2>1 DEF Inv, OneVoteEach, Outrun
  <2>5. \A m \in msgs' : Fresh(m)'
    BY <2>1 DEF Inv, Fresh
  <2> QED
    BY <2>2, <2>3, <2>4, <2>5 DEF Inv
<1>2. ASSUME NEW n \in Node, HandlePhase(n) PROVE Inv'
  <2>1. Counts(n)
    BY <1>2 DEF HandlePhase, Counts
  <2>2. CASE StartPrecommitPhase(n)
    <3>1. PICK phase \in 4 .. 9 : phase = Precommit
      BY PhaseNumbers
    <3>2. PICK rc : rc = rcBuildHeight[n]
      OBVIOUS
    <3>3. StartCertifyPhase(n, phase, rc)
      BY <2>2, <3>1, <3>2 DEF StartPrecommitPhase
    <3> QED
      BY <2>1, <3>3, CertifyInv
  <2>3. CASE StartCommitPhase(n)
    <3>1. PICK phase \in 4 .. 9 : phase = Commit
      BY PhaseNumbers
    <3>2. PICK rc : rc = 0
      OBVIOUS
    <3>3. StartCertifyPhase(n, phase, rc)
      BY <2>3, <3>1, <3>2 DEF StartCommitPhase
    <3> QED
      BY <2>1, <3>3, CertifyInv
  <2> QED
    BY <1>2, <2>1, <2>2, <2>3, ElectionInv, ElectionVoteInv, ProposeInv, ProposeVoteInv,
       PrecommitVoteInv, CommitProcessInv, PacemakerInv, PauseInv DEF HandlePhase
<1>3. ASSUME NEW n \in Node, Controller(n) PROVE Inv'
  BY <1>3, AdoptInv, PeerBlockInv, StartSyncInv, SyncBlockInv, FinishSyncInv, UpdateRootInv
     DEF Controller
<1>4. ASSUME NEW n \in Node, ResetBFT(n) \/ Restart(n) PROVE Inv'
  BY <1>4, ResetInv, RestartInv
<1> QED
  BY <1>1, <1>2, <1>3, <1>4 DEF Next

\* The invariant holds of every run of the consensus.
LEMMA Invariant == Spec => []Inv
<1>1. Init => Inv
  BY InitInv
<1>2. Inv /\ [Next]_vars => Inv'
  BY NextInv
<1> QED
  BY <1>1, <1>2, PTL DEF Spec

\* Views stay within their phases and rounds, the ResetBFT channel within its capacity,
\* every lock is a certificate of PROPOSE-VOTEs, and every message is signed for a height
\* still to be decided and carries a certificate of the phase before it.
THEOREM TypeCorrect == Spec => []TypeOK
<1>1. Inv => TypeOK
  BY DEF Inv
<1> QED
  BY <1>1, Invariant, PTL

\* A validator that keeps its memory never signs two payloads for one view at a height the
\* others have not left, whatever resets overtake its phases (sendToReplicas, SignBytes,
\* DoubleSignEvidence.Check).
THEOREM NoDoubleSignHolds == Spec => []NoDoubleSign
<1>1. Inv => NoDoubleSign
  BY DEF Inv, OneVoteEach, NoDoubleSign
<1> QED
  BY <1>1, Invariant, PTL

\* The lock of a validator is at least as high as every PRECOMMIT-VOTE it signed at its
\* height, through new rounds, root-chain updates and the locks of others (HighQC, NewHeight,
\* AddVote).
THEOREM LockKeptHolds == Spec => []LockKept
<1>1. ASSUME Inv PROVE LockKept
  <2> SUFFICES ASSUME NEW n \in Node \ (Restartable \cup Preempted), NEW m \in msgs,
                      m.type = "vote", m.from = n, m.header.phase = PrecommitVote,
                      m.header.height = ChainHeight(n), ~LeftBehind(n)
               PROVE  /\ highQC[n] # Nil
                      /\ ~Less(highQC[n].header, [m.header EXCEPT !.phase = ProposeVote])
    BY DEF LockKept
  <2>1. TypeOK /\ ViewReached(n) /\ SignedBehind(n) /\ Locked(n)
    BY <1>1, NodeFacts
  <2>2. m \in SignedBy(n)
    BY DEF SignedBy
  <2>3. ~Outrun(m.header.height)
    BY DEF LeftBehind
  <2>4. m.header.height = view[n].height
    BY <2>1, <2>2, <2>3, SignedHeight
  <2> QED
    BY <2>1, <2>3, <2>4 DEF Locked
<1> QED
  BY <1>1, Invariant, PTL

-----------------------------------------------------------------------------
(* Steps and locks. *)

\* A lock is not below itself.
LEMMA NotBelowItself == ASSUME NEW v \in HeaderType PROVE ~Less(v, v)
<1>1. v.height \in Nat /\ v.rootHeight \in Nat /\ v.round \in Nat /\ v.phase \in Nat
  BY HeaderFields
<1> QED
  BY <1>1 DEF Less

\* A lock is replaced by three handlers only, beside a restart; a step of another validator
\* leaves it alone.
LEMMA LockChanges ==
  ASSUME TypeOK, [Next]_vars, NEW n \in Node
  PROVE  \/ highQC'[n] = highQC[n]
         \/ StartPrecommitVotePhase(n)
         \/ ResetBFT(n) \/ Restart(n)
         \/ \E m \in msgs : AdoptHighQC(n, m)
<1>0. DOMAIN highQC = Node
  BY DEF TypeOK
<1>1. CASE UNCHANGED vars
  BY <1>1 DEF vars, bftVars
<1>2. ASSUME NEW k \in Node, HandlePhase(k), ~StartPrecommitVotePhase(k)
      PROVE  highQC' = highQC
  BY <1>2 DEF HandlePhase, StartElectionPhase, StartElectionVotePhase, StartProposePhase,
     StartProposeVotePhase, StartPrecommitPhase, StartCommitPhase, StartCertifyPhase,
     StartCommitProcessPhase, Pacemaker, PausePhase
<1>3. ASSUME NEW k \in Node \ {n}, StartPrecommitVotePhase(k)
      PROVE  highQC'[n] = highQC[n]
  BY <1>0, <1>3 DEF StartPrecommitVotePhase
<1>4. ASSUME NEW k \in Node, Controller(k), ~\E m \in msgs : AdoptHighQC(k, m)
      PROVE  highQC' = highQC
  BY <1>4 DEF Controller, HandlePeerBlock, StartSync, SyncBlock, FinishSync,
     UpdateRootChainInfo, bftVars
<1>5. ASSUME NEW k \in Node \ {n}, NEW m \in msgs, AdoptHighQC(k, m)
      PROVE  highQC'[n] = highQC[n]
  BY <1>0, <1>5 DEF AdoptHighQC
<1>6. ASSUME NEW k \in Node \ {n}, ResetBFT(k) \/ Restart(k)
      PROVE  highQC'[n] = highQC[n]
  BY <1>0, <1>6 DEF ResetBFT, NewHeight, Restart
<1> QED
  BY <1>1, <1>2, <1>3, <1>4, <1>5, <1>6 DEF Next

\* A reset that would clear the lock of a validator that has signed at its height is not
\* waiting.
LEMMA NoUnlockAfterSigning ==
  ASSUME Inv, NEW n \in Node \ Restartable, HasSigned(n), ~LeftBehind(n)
  PROVE  ~Unlocks(n)
<1>1. PICK x \in SignedBy(n) : x.header.height = ChainHeight(n)
  BY DEF HasSigned, SignedBy
<1>2. TypeOK /\ ResetsPass(n)
  BY NodeFacts
<1>3. ChainHeight(n) \in Nat
  BY <1>2, NodeTypes
<1>4. ~Closed(x.header, n)
  BY <1>1, <1>3 DEF Closed, LeftBehind
<1> QED
  BY <1>1, <1>2, <1>4 DEF ResetsPass

\* What a step does to the lock of a validator that has signed at its height.
LEMMA LockStep ==
  ASSUME Inv, [Next]_vars, NEW n \in Node \ (Restartable \cup Preempted),
         highQC[n] # Nil, HasSigned(n), ~LeftBehind(n)
  PROVE  /\ highQC'[n] # Nil
         /\ Less(highQC'[n].header, highQC[n].header) => Less(view[n], highQC[n].header)
<1>1. /\ TypeOK /\ DOMAIN highQC = Node /\ EpochCurrent(n) /\ \A x \in msgs : Fresh(x)
  BY NodeFacts DEF TypeOK, Inv
<1>2. IsLock(highQC[n]) /\ highQC[n].header \in HeaderType
  BY <1>1, NodeTypes DEF IsLock, QCType
<1>3. CASE highQC'[n] = highQC[n]
  BY <1>2, <1>3, NotBelowItself
<1>4. CASE StartPrecommitVotePhase(n) /\ highQC'[n] # highQC[n]
  <2>1. PICK phase \in 2 .. 10 : phase = PrecommitVote
    BY PhaseNumbers
  <2>2. Expired(n, phase)
    BY <1>4, <2>1 DEF StartPrecommitVotePhase
  <2>3. PICK m \in GetProposal(n) : /\ CheckProposerAndProposal(n, m)
                                    /\ highQC' = [highQC EXCEPT ![n] = [m.qc EXCEPT !.data = block[n]]]
    BY <1>4 DEF StartPrecommitVotePhase
  <2>4. /\ m.qc.header.height = view[n].height /\ m.qc.header.rootHeight = view[n].rootHeight
        /\ m.qc.header.round = view[n].round
    BY <1>1, <2>2, LockHeader
  <2>5. m \in msgs /\ m.type = "leader" /\ m.header.phase = view[n].phase - 1
    BY DEF GetProposal
  <2>6. view[n].phase = 6 /\ view[n] \in HeaderType
    BY <1>1, <2>1, <2>2, Running, PhaseNumbers
  <2>7. m.qc \in QCType /\ m.qc.header.phase = 4
    <3>1. MessageOK(m)
      BY <1>1, <2>5 DEF TypeOK
    <3>2. m.qc \in QCType /\ m.qc.header.phase = m.header.phase - 1
      BY <2>5, <3>1 DEF MessageOK
    <3> QED
      BY <2>5, <2>6, <3>2
  <2>8. block[n] \in BlockType
    BY <1>1, <2>3, NodeTypes DEF CheckProposerAndProposal
  <2>9. highQC'[n] \in QCType /\ highQC'[n].header = m.qc.header
    BY <1>1, <2>3, <2>7, <2>8, AttachedBlock
  <2>10. highQC[n].header.phase = 4
    BY <1>2, PhaseNumbers DEF IsLock
  <2>11. ASSUME Less(m.qc.header, highQC[n].header) PROVE Less(view[n], highQC[n].header)
    BY <1>2, <2>4, <2>6, <2>7, <2>10, <2>11, HeaderFields DEF Less
  <2> QED
    BY <2>9, <2>11, NilAssumption
<1>5. CASE ResetBFT(n)
  <2>1. resets[n] # <<>> /\ NewHeight(n, Head(resets[n]))
    BY <1>5 DEF ResetBFT
  <2>2. resets[n] \in Seq(BOOLEAN)
    BY <1>1, NodeTypes
  <2>3. 1 \in DOMAIN resets[n] /\ Head(resets[n]) = resets[n][1]
    BY <2>1, <2>2
  <2>4. Head(resets[n])
    BY <2>3, NoUnlockAfterSigning DEF Unlocks
  <2>5. highQC' = highQC
    BY <2>1, <2>4 DEF NewHeight
  <2> QED
    BY <1>3, <2>5
<1>6. ASSUME NEW m \in msgs, AdoptHighQC(n, m)
      PROVE  /\ highQC'[n] # Nil /\ ~Less(highQC'[n].header, highQC[n].header)
  <2>1. /\ m.type = "vote" /\ m.highQC # Nil /\ Less(highQC[n].header, m.highQC.header)
        /\ highQC'[n] = m.highQC
    BY <1>1, <1>6 DEF AdoptHighQC, HigherLock
  <2>2. m.highQC.header \in HeaderType
    BY <1>1, <2>1 DEF TypeOK, MessageOK, IsLock, QCType
  <2>3. ~Less(highQC[n].header, highQC[n].header)
    BY <1>2, NotBelowItself
  <2> QED
    BY <1>2, <2>1, <2>2, <2>3, HigherStays
<1>7. ~Restart(n)
  BY DEF Restart
<1> QED
  BY <1>1, <1>3, <1>4, <1>5, <1>6, <1>7, LockChanges

\* Once a validator has signed at its height, its lock is neither cleared nor lowered before
\* it commits, unless it was taken over from a later view (NewHeight, AddVote,
\* StartPrecommitVotePhase).
THEOREM LockNotLostHolds == Spec => LockNotLost
<1>1. Inv /\ [Next]_vars =>
        [\A n \in Node \ (Restartable \cup Preempted) :
           (highQC[n] # Nil /\ HasSigned(n) /\ ~LeftBehind(n) /\ chain'[n] = chain[n]) =>
              /\ highQC'[n] # Nil
              /\ Less(highQC'[n].header, highQC[n].header)
                   => Less(view[n], highQC[n].header)]_vars
  BY LockStep
<1> QED
  BY <1>1, Invariant, PTL DEF Spec, LockNotLost

-----------------------------------------------------------------------------
(***************************************************************************)
(* Agreement.  What is voted for, certified and proposed is told by the    *)
(* messages alone; all of it stays true as messages are added.             *)
(***************************************************************************)

\* The validators that neither lose their memory nor handle a message across a reset.
Reliable == Node \ (Restartable \cup Preempted)

\* Any three majorities share a reliable validator, and sortition elects reliable ones.
FaultsTolerated ==
  /\ \A Q, R, S \in Maj23 : Q \cap R \cap S \cap Reliable # {}
  /\ \A i \in 0 .. MaxRound : Candidates[i] \subseteq Reliable

\* Views of one round, and of an earlier round at the same height.
SameView(v, w) == v.height = w.height /\ v.rootHeight = w.rootHeight /\ v.round = w.round
Before(v, w) ==
  /\ v.height = w.height
  /\ v.rootHeight < w.rootHeight \/ (v.rootHeight = w.rootHeight /\ v.round < w.round)

\* The votes of n in a phase, and the PROPOSE messages.
VotesOf(n, phase) ==
  {x \in msgs : x.type = "vote" /\ x.from = n /\ x.header.phase = phase}
ProposeMsgs == {m \in msgs : m.type = "leader" /\ m.header.phase = Propose}

\* n voted for prop in a phase of the round of v; a majority did.
VotedFor(n, v, phase, prop) ==
  \E x \in VotesOf(n, phase) : SameView(x.header, v) /\ x.prop = prop
Polled(v, phase, prop) ==
  \E Q \in Maj23 : \A n \in Q : VotedFor(n, v, phase, prop)
Backed(qc) == Polled(qc.header, qc.header.phase, qc.prop)

\* A majority elected the sender of m.
Elected(m) ==
  \E Q \in Maj23 : \A n \in Q :
    \E e \in VotesOf(n, ElectionVote) : SameView(e.header, m.header) /\ e.proposer = m.from

\* What lies behind a message when it is sent.
Justified(m) ==
  /\ m.type = "vote" =>
       /\ m.header.phase = ElectionVote => m.proposer \in Candidates[m.header.round]
       /\ m.highQC # Nil => Backed(m.highQC)
       /\ m.from \in Reliable /\ m.header.phase = ProposeVote /\ ~Outrun(m.header.height) =>
            \E p \in ProposeMsgs : SameView(p.header, m.header) /\ p.qc.prop = m.prop
       /\ m.from \in Reliable /\ m.header.phase = PrecommitVote =>
            Polled(m.header, ProposeVote, m.prop)
  /\ m.type = "leader" =>
       IF m.header.phase = Propose THEN Elected(m) /\ m.qc.prop = m.qc.data ELSE Backed(m.qc)
  /\ m.type = "block" => Backed(m.qc)

\* A lock at least as high as what is signed in view v.
Covers(c, v) == c # Nil /\ ~Less(c.header, [v EXCEPT !.phase = ProposeVote])

\* An ELECTION-VOTE carries a lock that covers the PRECOMMIT-VOTEs of its sender.
LocksSent ==
  \A n \in Reliable : \A e \in VotesOf(n, ElectionVote), x \in VotesOf(n, PrecommitVote) :
    ~Outrun(e.header.height) /\ Before(x.header, e.header) => Covers(e.highQC, x.header)

\* n has signed in a round after that of w.
Gone(n, w) == \E x \in SignedBy(n) : Before(w, x.header)

\* Nothing but prop can get, or has got, a majority of PRECOMMIT-VOTEs in the round of w.
SafeAt(prop, w) ==
  \E Q \in Maj23 : \A n \in Q \cap Reliable :
    /\ Gone(n, w)
    /\ \A x \in VotesOf(n, PrecommitVote) : SameView(x.header, w) => x.prop = prop

\* What is proposed is safe in every earlier round of its height.
ProposalsSafe ==
  \A m \in ProposeMsgs : ~Outrun(m.header.height) =>
    \A w \in HeaderType : Before(w, m.header) => SafeAt(m.qc.prop, w)

\* Whatever the validators outside of S may still sign, no two proposals get a majority of
\* PRECOMMIT-VOTEs at height h.
OneDecision(h, S) ==
  \A v, w \in HeaderType, a, b \in BlockType \cup {Nil}, Q, R \in Maj23 :
    (/\ v.height = h /\ w.height = h
     /\ \A n \in Q \cap S : VotedFor(n, v, PrecommitVote, a)
     /\ \A n \in R \cap S : VotedFor(n, w, PrecommitVote, b)) => a = b

\* A majority has left height h behind, with at most one decision.
Frozen(h) == \E S \in Maj23 : (\A n \in S : view[n].height > h) /\ OneDecision(h, S)

\* Locks and committed certificates have a majority behind them.
LockBacked(n) == highQC[n] # Nil => Backed(highQC[n])
ChainBacked(n) ==
  \A h \in 1 .. Len(chain[n]) :
    /\ chain[n][h].header.height = h /\ chain[n][h].header.phase = PrecommitVote
    /\ Backed(chain[n][h])

\* The cached hash is that of the block proposed, at the leader, and of the block voted for.
HashCached(n) ==
  /\ view[n].phase <= Propose => blockHash[n] = Nil
  /\ n \in Reliable /\ ~Outrun(view[n].height) /\ view[n].phase = ProposeVote
       /\ blockHash[n] # Nil =>
       /\ \E m \in ProposeMsgs : m.from = n /\ SameView(m.header, view[n])
       /\ \A m \in ProposeMsgs :
            m.from = n /\ SameView(m.header, view[n]) => m.qc.data.block = blockHash[n]
  /\ n \in Reliable /\ ~Outrun(view[n].height) /\ view[n].phase \in {Precommit, PrecommitVote}
       /\ block[n] # Nil => GetBlockHash(n, block[n]) = block[n].block

\* A reliable validator holds the block it is locked on.
LockHeld(n) ==
  n \in Reliable /\ highQC[n] # Nil =>
    /\ highQC[n].header.height <= view[n].height
    /\ ~Outrun(highQC[n].header.height) => highQC[n].data = highQC[n].prop

\* Nobody has signed above its height.
SignedBelow(n) == \A x \in SignedBy(n) : x.header.height <= view[n].height

NodeSafe(n) ==
  LockBacked(n) /\ ChainBacked(n) /\ HashCached(n) /\ LockHeld(n) /\ SignedBelow(n)

\* The second inductive invariant.
Safe ==
  /\ \A m \in msgs : Justified(m)
  /\ LocksSent /\ ProposalsSafe
  /\ \A n \in Node : NodeSafe(n)
  /\ \A h \in 1 .. MaxHeight : Outrun(h) => Frozen(h)

-----------------------------------------------------------------------------
(* Views. *)

\* A vote, a leader message and their headers.
LEMMA MessageFields ==
  ASSUME TypeOK
  PROVE  /\ \A n : \A x \in SignedBy(n) : x.header \in HeaderType /\ x \in msgs /\ x.from = n
         /\ \A n, phase : \A x \in VotesOf(n, phase) :
              /\ x \in msgs /\ x \in SignedBy(n) /\ x.type = "vote" /\ x.from = n
              /\ x.header \in HeaderType /\ x.header.phase = phase
              /\ x.prop \in BlockType \cup {Nil} /\ x.proposer \in Node
         /\ \A m \in ProposeMsgs :
              /\ m \in msgs /\ m.type = "leader" /\ m.header \in HeaderType
              /\ m.header.phase = Propose /\ m.from \in Node /\ m \in SignedBy(m.from)
<1>1. \A m \in msgs : MessageOK(m)
  BY DEF TypeOK
<1>2. ASSUME NEW n, NEW x \in SignedBy(n) PROVE x.header \in HeaderType /\ x \in msgs /\ x.from = n
  BY <1>1 DEF SignedBy, MessageOK
<1>3. ASSUME NEW n, NEW phase, NEW x \in VotesOf(n, phase)
      PROVE  /\ x \in msgs /\ x \in SignedBy(n) /\ x.type = "vote" /\ x.from = n
             /\ x.header \in HeaderType /\ x.header.phase = phase
             /\ x.prop \in BlockType \cup {Nil} /\ x.proposer \in Node
  BY <1>1 DEF VotesOf, SignedBy, MessageOK
<1>4. ASSUME NEW m \in ProposeMsgs
      PROVE  /\ m \in msgs /\ m.type = "leader" /\ m.header \in HeaderType
             /\ m.header.phase = Propose /\ m.from \in Node /\ m \in SignedBy(m.from)
  BY <1>1 DEF ProposeMsgs, SignedBy, MessageOK
<1> QED
  BY <1>2, <1>3, <1>4

\* Two rounds of one height.
LEMMA ViewOrder ==
  ASSUME NEW u \in HeaderType, NEW v \in HeaderType, NEW w \in HeaderType
  PROVE  /\ SameView(u, v) => SameView(v, u)
         /\ SameView(u, v) /\ SameView(v, w) => SameView(u, w)
         /\ SameView(u, v) /\ Before(v, w) => Before(u, w)
         /\ Before(u, v) /\ SameView(v, w) => Before(u, w)
         /\ u.height = v.height => SameView(u, v) \/ Before(u, v) \/ Before(v, u)
         /\ SameView(u, v) /\ u.phase = v.phase => u = v
         /\ ~(Before(u, v) /\ SameView(u, v)) /\ ~(Before(u, v) /\ Before(v, u))
         /\ SameView(u, v) \/ Before(u, v) => u.height = v.height
<1>1. u.height \in Nat /\ u.rootHeight \in Nat /\ u.round \in Nat /\ u.phase \in Nat
  BY HeaderFields
<1>2. v.height \in Nat /\ v.rootHeight \in Nat /\ v.round \in Nat /\ v.phase \in Nat
  BY HeaderFields
<1>3. w.height \in Nat /\ w.rootHeight \in Nat /\ w.round \in Nat /\ w.phase \in Nat
  BY HeaderFields
<1>4. SameView(u, v) /\ u.phase = v.phase => u = v
  BY DEF SameView, HeaderType
<1> QED
  BY <1>1, <1>2, <1>3, <1>4 DEF SameView, Before

\* What a node signs next is not before what it has signed.
LEMMA NotBack ==
  ASSUME NEW u \in HeaderType, NEW v \in ViewType, Less(u, v)
  PROVE  ~Before(v, u) /\ (u.height = v.height => SameView(u, v) \/ Before(u, v))
<1>1. u.height \in Nat /\ u.rootHeight \in Nat /\ u.round \in Nat /\ u.phase \in Nat
  BY HeaderFields
<1>2. v.height \in Nat /\ v.rootHeight \in Nat /\ v.round \in Nat /\ v.phase \in Nat
  BY ViewFields
<1> QED
  BY <1>1, <1>2 DEF Less, Before, SameView

\* A lock not above height v.height that covers v is of its round or of a later one.
LEMMA CoverMeans ==
  ASSUME NEW c, IsLock(c), NEW v \in HeaderType, c.header.height <= v.height, Covers(c, v)
  PROVE  SameView(c.header, v) \/ Before(v, c.header)
<1>1. PICK u \in HeaderType : u = c.header /\ u.phase = ProposeVote
  BY DEF IsLock, QCType
<1>2. u.height \in Nat /\ u.rootHeight \in Nat /\ u.round \in Nat /\ u.phase \in Nat
  BY <1>1, HeaderFields
<1>3. v.height \in Nat /\ v.rootHeight \in Nat /\ v.round \in Nat /\ v.phase \in Nat
  BY HeaderFields
<1>4. PICK w : w = [v EXCEPT !.phase = ProposeVote]
  OBVIOUS
<1>5. w.height = v.height /\ w.rootHeight = v.rootHeight /\ w.round = v.round /\ w.phase = ProposeVote
  BY <1>4 DEF HeaderType
<1>6. ~Less(u, w)
  BY <1>1, <1>4 DEF Covers
<1> QED
  BY <1>1, <1>2, <1>3, <1>5, <1>6 DEF Less, SameView, Before

\* A lock that is not below one that covers v covers v.
LEMMA CoverHigher ==
  ASSUME NEW c, IsLock(c), c # Nil, NEW d, IsLock(d), ~Less(c.header, d.header),
         NEW v \in HeaderType, Covers(d, v)
  PROVE  Covers(c, v)
<1>1. PICK u \in HeaderType : u = c.header
  BY DEF IsLock, QCType
<1>2. PICK t \in HeaderType : t = d.header
  BY DEF IsLock, QCType
<1>3. PICK w : w = [v EXCEPT !.phase = ProposeVote]
  OBVIOUS
<1>4. w \in HeaderType
  BY <1>3, PhaseNumbers DEF HeaderType
<1>5. ~Less(u, t) /\ ~Less(t, w)
  BY <1>1, <1>2, <1>3 DEF Covers
<1>6. u.height \in Nat /\ u.rootHeight \in Nat /\ u.round \in Nat /\ u.phase \in Nat
  BY HeaderFields
<1>7. t.height \in Nat /\ t.rootHeight \in Nat /\ t.round \in Nat /\ t.phase \in Nat
  BY HeaderFields
<1>8. w.height \in Nat /\ w.rootHeight \in Nat /\ w.round \in Nat /\ w.phase \in Nat
  BY <1>4, HeaderFields
<1>9. ~Less(u, w)
  BY <1>5, <1>6, <1>7, <1>8 DEF Less
<1> QED
  BY <1>1, <1>3, <1>9 DEF Covers

-----------------------------------------------------------------------------
(* Votes. *)

\* Majorities are sets of validators that share a reliable one.
LEMMA Intersect ==
  ASSUME FaultsTolerated, NEW Q \in Maj23, NEW R \in Maj23, NEW S \in Maj23
  PROVE  \E n \in Reliable : n \in Q /\ n \in R /\ n \in S /\ n \in Node
BY DEF FaultsTolerated, Maj23, Reliable

\* A reliable validator votes once in a phase of a round.
LEMMA VotesOnce ==
  ASSUME Inv, NEW n \in Reliable, NEW phase, NEW x \in VotesOf(n, phase),
         NEW y \in VotesOf(n, phase), SameView(x.header, y.header), ~Outrun(x.header.height)
  PROVE  x.prop = y.prop /\ x.proposer = y.proposer
<1>1. /\ x \in msgs /\ x.type = "vote" /\ x.from = n /\ x.header \in HeaderType
      /\ y \in msgs /\ y.type = "vote" /\ y.from = n /\ y.header \in HeaderType
      /\ x.header.phase = phase /\ y.header.phase = phase
  BY MessageFields DEF Inv
<1>2. x.header = y.header
  BY <1>1, ViewOrder
<1>3. n \notin Restartable
  BY DEF Reliable
<1>4. Payload(x) = Payload(y)
  BY <1>1, <1>2, <1>3 DEF Inv, OneVoteEach
<1> QED
  BY <1>4 DEF Payload

\* One proposal gets a majority in a phase of a round.
LEMMA OnePoll ==
  ASSUME Inv, FaultsTolerated, NEW v \in HeaderType, ~Outrun(v.height), NEW phase,
         NEW a, NEW b, Polled(v, phase, a), Polled(v, phase, b)
  PROVE  a = b
<1>1. PICK Q \in Maj23 : \A n \in Q : VotedFor(n, v, phase, a)
  BY DEF Polled
<1>2. PICK R \in Maj23 : \A n \in R : VotedFor(n, v, phase, b)
  BY DEF Polled
<1>3. PICK n \in Reliable : n \in Q /\ n \in R
  BY Intersect
<1>4. PICK x \in VotesOf(n, phase) : SameView(x.header, v) /\ x.prop = a
  BY <1>1, <1>3 DEF VotedFor
<1>5. PICK y \in VotesOf(n, phase) : SameView(y.header, v) /\ y.prop = b
  BY <1>2, <1>3 DEF VotedFor
<1>6. x.header \in HeaderType /\ y.header \in HeaderType
  BY MessageFields DEF Inv
<1>7. SameView(x.header, y.header) /\ x.header.height = v.height
  BY <1>4, <1>5 DEF SameView
<1> QED
  BY <1>4, <1>5, <1>7, VotesOnce

\* One leader is elected in a round.
LEMMA OneLeader ==
  ASSUME Inv, FaultsTolerated, NEW m \in ProposeMsgs, NEW p \in ProposeMsgs,
         Elected(m), Elected(p), SameView(m.header, p.header), ~Outrun(m.header.height)
  PROVE  m.from = p.from
<1>1. PICK Q \in Maj23 : \A n \in Q :
        \E e \in VotesOf(n, ElectionVote) : SameView(e.header, m.header) /\ e.proposer = m.from
  BY DEF Elected
<1>2. PICK R \in Maj23 : \A n \in R :
        \E e \in VotesOf(n, ElectionVote) : SameView(e.header, p.header) /\ e.proposer = p.from
  BY DEF Elected
<1>3. PICK n \in Reliable : n \in Q /\ n \in R
  BY Intersect
<1>4. PICK d \in VotesOf(n, ElectionVote) : SameView(d.header, m.header) /\ d.proposer = m.from
  BY <1>1, <1>3
<1>5. PICK e \in VotesOf(n, ElectionVote) : SameView(e.header, p.header) /\ e.proposer = p.from
  BY <1>2, <1>3
<1>6. SameView(d.header, e.header) /\ d.header.height = m.header.height
  BY <1>4, <1>5 DEF SameView
<1> QED
  BY <1>4, <1>5, <1>6, VotesOnce

\* What a majority votes for in PROPOSE-VOTE was proposed in that round.
LEMMA PolledProposal ==
  ASSUME Inv, Safe, FaultsTolerated, NEW v \in HeaderType, ~Outrun(v.height), NEW a,
         Polled(v, ProposeVote, a)
  PROVE  \E p \in ProposeMsgs : SameView(p.header, v) /\ p.qc.prop = a
<1>1. PICK Q \in Maj23 : \A n \in Q : VotedFor(n, v, ProposeVote, a)
  BY DEF Polled
<1>2. PICK n \in Reliable : n \in Q
  BY Intersect
<1>3. PICK x \in VotesOf(n, ProposeVote) : SameView(x.header, v) /\ x.prop = a
  BY <1>1, <1>2 DEF VotedFor
<1>4. x \in msgs /\ x.type = "vote" /\ x.from = n /\ x.header.phase = ProposeVote
  BY MessageFields DEF Inv
<1>5. ~Outrun(x.header.height)
  BY <1>3 DEF SameView
<1>6. \E p \in ProposeMsgs : SameView(p.header, x.header) /\ p.qc.prop = x.prop
  BY <1>4, <1>5 DEF Safe, Justified
<1> QED
  BY <1>3, <1>6 DEF SameView

\* At a height that is not left, a proposal that gets a majority of PRECOMMIT-VOTEs, as far
\* as S goes, is the one of every later round.
LEMMA EarlierDecision ==
  ASSUME Inv, Safe, FaultsTolerated, NEW S \in Maj23, NEW v \in HeaderType, NEW w \in HeaderType,
         ~Outrun(v.height), Before(v, w), NEW a, NEW b, NEW Q \in Maj23, NEW R \in Maj23,
         \A n \in Q \cap S : VotedFor(n, v, PrecommitVote, a),
         \A n \in R \cap S : VotedFor(n, w, PrecommitVote, b)
  PROVE  a = b
<1>1. PICK k \in Reliable : k \in R /\ k \in S
  BY Intersect
<1>2. PICK y \in VotesOf(k, PrecommitVote) : SameView(y.header, w) /\ y.prop = b
  BY <1>1 DEF VotedFor
<1>3. y \in msgs /\ y.type = "vote" /\ y.from = k /\ y.header.phase = PrecommitVote
      /\ y.header \in HeaderType
  BY MessageFields DEF Inv
<1>4. Polled(y.header, ProposeVote, b)
  BY <1>2, <1>3 DEF Safe, Justified
<1>5. w.height = v.height /\ y.header.height = v.height /\ Before(v, y.header)
  BY <1>2, <1>3, ViewOrder DEF SameView
<1>6. ~Outrun(y.header.height)
  BY <1>5
<1>7. PICK p \in ProposeMsgs : SameView(p.header, y.header) /\ p.qc.prop = b
  BY <1>3, <1>4, <1>6, PolledProposal
<1>8. p.header \in HeaderType /\ Before(v, p.header) /\ p.header.height = v.height
  BY <1>3, <1>5, <1>7, MessageFields, ViewOrder DEF Inv, SameView
<1>9. SafeAt(b, v)
  BY <1>7, <1>8 DEF Safe, ProposalsSafe
<1>10. PICK P \in Maj23 : \A n \in P \cap Reliable :
         \A x \in VotesOf(n, PrecommitVote) : SameView(x.header, v) => x.prop = b
  BY <1>9 DEF SafeAt
<1>11. PICK n \in Reliable : n \in P /\ n \in Q /\ n \in S
  BY Intersect
<1>12. PICK x \in VotesOf(n, PrecommitVote) : SameView(x.header, v) /\ x.prop = a
  BY <1>11 DEF VotedFor
<1> QED
  BY <1>10, <1>11, <1>12

\* At a height that is not left there is one decision, whichever majority is asked.
LEMMA Undecided ==
  ASSUME Inv, Safe, FaultsTolerated, NEW h, ~Outrun(h), NEW S \in Maj23
  PROVE  OneDecision(h, S)
<1> SUFFICES ASSUME NEW v \in HeaderType, NEW w \in HeaderType, NEW a, NEW b,
                    NEW Q \in Maj23, NEW R \in Maj23, v.height = h, w.height = h,
                    \A n \in Q \cap S : VotedFor(n, v, PrecommitVote, a),
                    \A n \in R \cap S : VotedFor(n, w, PrecommitVote, b)
             PROVE  a = b
  BY DEF OneDecision
<1>1. CASE SameView(v, w)
  <2>1. PICK n \in Reliable : n \in Q /\ n \in R /\ n \in S
    BY Intersect
  <2>2. PICK x \in VotesOf(n, PrecommitVote) : SameView(x.header, v) /\ x.prop = a
    BY <2>1 DEF VotedFor
  <2>3. PICK y \in VotesOf(n, PrecommitVote) : SameView(y.header, w) /\ y.prop = b
    BY <2>1 DEF VotedFor
  <2>4. SameView(x.header, y.header) /\ x.header.height = h
    BY <1>1, <2>2, <2>3 DEF SameView
  <2> QED
    BY <2>2, <2>3, <2>4, VotesOnce
<1>2. CASE Before(v, w)
  BY <1>2, EarlierDecision
<1>3. CASE Before(w, v)
  BY <1>3, EarlierDecision
<1> QED
  BY <1>1, <1>2, <1>3, ViewOrder

\* What a leader proposes, having heard of the locks of the majority that elected it, is safe
\* in every earlier round.
LEMMA NewProposalSafe ==
  ASSUME Inv, Safe, FaultsTolerated, NEW n \in Reliable, NEW v \in HeaderType, v = view[n],
         ~Outrun(v.height), NEW Q \in Maj23,
         \A k \in Q : \E e \in VotesOf(k, ElectionVote) :
           /\ SameView(e.header, v)
           /\ e.highQC # Nil => highQC[n] # Nil /\ ~Less(highQC[n].header, e.highQC.header),
         NEW prop, highQC[n] # Nil /\ highQC[n].header.height = v.height => prop = highQC[n].prop,
         NEW w \in HeaderType, Before(w, v)
  PROVE  SafeAt(prop, w)
<1>1. n \in Node /\ TypeOK
  BY DEF Reliable, Inv
<1>2. w.height = v.height /\ ~Outrun(w.height)
  BY DEF Before
<1>3. ASSUME highQC[n] # Nil
      PROVE  /\ IsLock(highQC[n]) /\ highQC[n].header \in HeaderType
             /\ highQC[n].header.height <= v.height
             /\ Polled(highQC[n].header, ProposeVote, highQC[n].prop)
  <2>1. IsLock(highQC[n]) /\ highQC[n].header \in HeaderType /\ highQC[n].header.phase = ProposeVote
    BY <1>1, <1>3, NodeTypes DEF IsLock, QCType
  <2>2. LockBacked(n) /\ LockHeld(n)
    BY <1>1 DEF Safe, NodeSafe
  <2>3. highQC[n].header.height <= v.height
    BY <1>3, <2>2 DEF LockHeld
  <2>4. Backed(highQC[n])
    BY <1>3, <2>2 DEF LockBacked
  <2> QED
    BY <2>1, <2>3, <2>4 DEF Backed
<1>4. CASE highQC[n] # Nil /\ Before(w, highQC[n].header)
  <2>1. PICK c \in HeaderType : c = highQC[n].header
    BY <1>3, <1>4
  <2>2. c.height = w.height /\ ~Outrun(c.height) /\ Before(w, c)
    BY <1>2, <1>4, <2>1 DEF Before
  <2>3. Polled(c, ProposeVote, prop)
    BY <1>2, <1>3, <1>4, <2>1, <2>2
  <2>4. PICK p \in ProposeMsgs : SameView(p.header, c) /\ p.qc.prop = prop
    BY <2>2, <2>3, PolledProposal
  <2>5. p.header \in HeaderType
    BY <1>1, MessageFields
  <2>6. Before(w, p.header) /\ p.header.height = c.height
    BY <2>2, <2>4, <2>5, ViewOrder DEF SameView
  <2> QED
    BY <2>2, <2>4, <2>6 DEF Safe, ProposalsSafe
<1>5. CASE ~(highQC[n] # Nil /\ Before(w, highQC[n].header))
  <2> SUFFICES ASSUME NEW k \in Q \cap Reliable
               PROVE  /\ Gone(k, w)
                      /\ \A x \in VotesOf(k, PrecommitVote) : SameView(x.header, w) => x.prop = prop
    BY DEF SafeAt
  <2>1. PICK e \in VotesOf(k, ElectionVote) :
          /\ SameView(e.header, v)
          /\ e.highQC # Nil => highQC[n] # Nil /\ ~Less(highQC[n].header, e.highQC.header)
    OBVIOUS
  <2>2. e.header \in HeaderType /\ e \in SignedBy(k) /\ e \in msgs /\ e.type = "vote"
    BY <1>1, MessageFields
  <2>3. Before(w, e.header) /\ e.header.height = w.height
    BY <1>2, <2>1, <2>2, ViewOrder DEF SameView
  <2>4. Gone(k, w)
    BY <2>2, <2>3 DEF Gone
  <2>5. ASSUME NEW x \in VotesOf(k, PrecommitVote), SameView(x.header, w) PROVE x.prop = prop
    <3>1. x \in msgs /\ x.type = "vote" /\ x.from = k /\ x.header.phase = PrecommitVote
          /\ x.header \in HeaderType
      BY <1>1, MessageFields
    <3>2. Before(x.header, e.header) /\ x.header.height = w.height
      BY <2>2, <2>3, <2>5, <3>1, ViewOrder DEF SameView
    <3>3. Covers(e.highQC, x.header)
      BY <1>2, <2>3, <3>2 DEF Safe, LocksSent
    <3>4. e.highQC # Nil /\ IsLock(e.highQC)
      BY <1>1, <2>2, <3>3 DEF Covers, TypeOK, MessageOK
    <3>5. highQC[n] # Nil /\ ~Less(highQC[n].header, e.highQC.header) /\ IsLock(highQC[n])
      BY <1>3, <2>1, <3>4
    <3>6. PICK c, d : c = highQC[n] /\ d = e.highQC
      OBVIOUS
    <3>7. Covers(c, x.header)
      BY <3>1, <3>3, <3>4, <3>5, <3>6, CoverHigher
    <3>8. c.header \in HeaderType /\ c.header.height <= x.header.height /\ IsLock(c)
      BY <1>2, <1>3, <3>2, <3>5, <3>6
    <3>9. SameView(c.header, x.header)
      <4>1. SameView(c.header, x.header) \/ Before(x.header, c.header)
        BY <3>1, <3>7, <3>8, CoverMeans
      <4>2. ~Before(w, c.header)
        BY <1>5, <3>5, <3>6
      <4>3. Before(x.header, c.header) => Before(w, c.header)
        BY <2>5, <3>1, <3>8, ViewOrder
      <4> QED
        BY <4>1, <4>2, <4>3
    <3>10. Polled(c.header, ProposeVote, c.prop)
      BY <1>3, <3>5, <3>6
    <3>11. Polled(x.header, ProposeVote, x.prop)
      BY <3>1 DEF Safe, Justified
    <3>12. Polled(x.header, ProposeVote, c.prop)
      BY <3>9, <3>10 DEF Polled, VotedFor, SameView
    <3>13. ~Outrun(x.header.height)
      BY <1>2, <3>2
    <3>14. x.prop = c.prop
      BY <3>1, <3>11, <3>12, <3>13, OnePoll
    <3>15. c.header.height = v.height
      BY <1>2, <3>2, <3>9 DEF SameView
    <3> QED
      BY <3>5, <3>6, <3>14, <3>15
  <2> QED
    BY <2>4, <2>5
<1> QED
  BY <1>4, <1>5

-----------------------------------------------------------------------------
(* Steps. *)

\* What a step of n sends, if anything.
Sent(n) ==
  \/ msgs' = msgs
  \/ \E m : /\ msgs' = msgs \cup {m}
            /\ m.type \in {"vote", "leader"} => m.from = n /\ m.header = view[n]

\* Messages are kept, and what is new is signed by n in its view.
LEMMA SentKept ==
  ASSUME NEW n, Sent(n)
  PROVE  /\ msgs \subseteq msgs'
         /\ \A h : ~Outrun(h)' => ~Outrun(h)
         /\ \A k, phase : /\ VotesOf(k, phase) \subseteq VotesOf(k, phase)'
                          /\ \A x \in VotesOf(k, phase)' : x \notin VotesOf(k, phase) =>
                               k = n /\ x.header = view[n] /\ x \notin msgs
         /\ \A k : /\ SignedBy(k) \subseteq SignedBy(k)'
                   /\ \A x \in SignedBy(k)' : x \notin SignedBy(k) => k = n /\ x.header = view[n]
         /\ ProposeMsgs \subseteq ProposeMsgs'
         /\ \A m \in ProposeMsgs' : m \notin ProposeMsgs =>
              m.from = n /\ m.header = view[n] /\ m \notin msgs
<1>1. /\ msgs \subseteq msgs'
      /\ \A m \in msgs' \ msgs : m.type \in {"vote", "leader"} => m.from = n /\ m.header = view[n]
  BY DEF Sent
<1>2. \A h : ~Outrun(h)' => ~Outrun(h)
  BY <1>1, OutrunKept
<1> QED
  BY <1>1, <1>2 DEF VotesOf, SignedBy, ProposeMsgs

\* What the messages show stays shown.
LEMMA PolledKept ==
  ASSUME msgs \subseteq msgs'
  PROVE  /\ \A n, v, phase, prop : VotedFor(n, v, phase, prop) => VotedFor(n, v, phase, prop)'
         /\ \A v, phase, prop : Polled(v, phase, prop) => Polled(v, phase, prop)'
         /\ \A m : Elected(m) => Elected(m)'
<1>1. \A n, phase : VotesOf(n, phase) \subseteq VotesOf(n, phase)'
  BY DEF VotesOf
<1>2. \A n, v, phase, prop : VotedFor(n, v, phase, prop) => VotedFor(n, v, phase, prop)'
  BY <1>1 DEF VotedFor
<1>3. \A v, phase, prop : Polled(v, phase, prop) => Polled(v, phase, prop)'
  BY <1>2 DEF Polled
<1>4. \A m : Elected(m) => Elected(m)'
  BY <1>1 DEF Elected
<1> QED
  BY <1>2, <1>3, <1>4

\* A message stays justified.
LEMMA JustifiedKept ==
  ASSUME msgs \subseteq msgs', NEW m, Justified(m)
  PROVE  Justified(m)'
<1>1. Backed(m.highQC) => Backed(m.highQC)'
  BY PolledKept DEF Backed
<1>2. Backed(m.qc) => Backed(m.qc)'
  BY PolledKept DEF Backed
<1>3. Polled(m.header, ProposeVote, m.prop) => Polled(m.header, ProposeVote, m.prop)'
  BY PolledKept
<1>4. Elected(m) => Elected(m)'
  BY PolledKept
<1>5. ~Outrun(m.header.height)' => ~Outrun(m.header.height)
  BY OutrunKept
<1>6. ProposeMsgs \subseteq ProposeMsgs'
  BY DEF ProposeMsgs
<1> QED
  BY <1>1, <1>2, <1>3, <1>4, <1>5, <1>6 DEF Justified

\* Who has gone on does not come back.
LEMMA SafeAtKept ==
  ASSUME Inv, NEW n \in Node, Sent(n), NEW prop, NEW w \in HeaderType, ~Outrun(w.height),
         SafeAt(prop, w)
  PROVE  SafeAt(prop, w)'
<1>1. PICK Q \in Maj23 : \A k \in Q \cap Reliable :
        /\ Gone(k, w)
        /\ \A x \in VotesOf(k, PrecommitVote) : SameView(x.header, w) => x.prop = prop
  BY DEF SafeAt
<1> SUFFICES ASSUME NEW k \in Q \cap Reliable
             PROVE  /\ Gone(k, w)'
                    /\ \A x \in VotesOf(k, PrecommitVote)' : SameView(x.header, w) => x.prop = prop
  BY DEF SafeAt
<1>2. PICK y \in SignedBy(k) : Before(w, y.header)
  BY <1>1 DEF Gone
<1>3. Gone(k, w)'
  BY <1>2, SentKept DEF Gone
<1>4. ASSUME NEW x \in VotesOf(k, PrecommitVote)', SameView(x.header, w),
             x \notin VotesOf(k, PrecommitVote)
      PROVE  FALSE
  <2>1. k = n /\ x.header = view[n] /\ n \notin Restartable
    BY <1>4, SentKept DEF Reliable
  <2>2. SignedBehind(n) /\ view[n] \in ViewType /\ y.header \in HeaderType
    BY <2>1, NodeFacts, NodeTypes, MessageFields
  <2>3. y.header.height = w.height
    BY <1>2 DEF Before
  <2>4. Less(y.header, view[n])
    BY <1>2, <2>1, <2>2, <2>3 DEF SignedBehind
  <2>5. ~Before(view[n], y.header)
    BY <2>2, <2>4, NotBack
  <2> QED
    BY <1>2, <1>4, <2>1, <2>5 DEF SameView, Before
<1> QED
  BY <1>1, <1>3, <1>4

\* Proposals stay safe, if a new one is.
LEMMA ProposalsSafeKept ==
  ASSUME Inv, Safe, NEW n \in Node, Sent(n),
         \A m \in ProposeMsgs' \ ProposeMsgs : ~Outrun(m.header.height) =>
           \A w \in HeaderType : Before(w, m.header) => SafeAt(m.qc.prop, w)
  PROVE  ProposalsSafe'
<1> SUFFICES ASSUME NEW m \in ProposeMsgs', ~Outrun(m.header.height)', NEW w \in HeaderType,
                    Before(w, m.header)
             PROVE  SafeAt(m.qc.prop, w)'
  BY DEF ProposalsSafe
<1>1. ~Outrun(m.header.height)
  BY SentKept
<1>2. SafeAt(m.qc.prop, w)
  BY <1>1 DEF Safe, ProposalsSafe
<1>3. ~Outrun(w.height)
  BY <1>1 DEF Before
<1> QED
  BY <1>2, <1>3, SafeAtKept

\* The locks that are sent cover what was signed, and stay ahead of what is signed later.
LEMMA LocksSentKept ==
  ASSUME Inv, Safe, NEW n \in Node, Sent(n),
         \A e \in VotesOf(n, ElectionVote)' \ VotesOf(n, ElectionVote) : e.highQC = highQC[n]
  PROVE  LocksSent'
<1> SUFFICES ASSUME NEW k \in Reliable, NEW e \in VotesOf(k, ElectionVote)',
                    NEW x \in VotesOf(k, PrecommitVote)', ~Outrun(e.header.height)',
                    Before(x.header, e.header)
             PROVE  Covers(e.highQC, x.header)
  BY DEF LocksSent, Covers
<1>1. ~Outrun(e.header.height) /\ x.header.height = e.header.height
  BY SentKept DEF Before
<1>2. k \notin Restartable /\ k \notin Preempted /\ k \in Node
  BY DEF Reliable
<1>3. TypeOK /\ SignedBehind(k) /\ Locked(k) /\ view[k] \in ViewType
  BY <1>2, NodeFacts, NodeTypes
<1>4. CASE x \in VotesOf(k, PrecommitVote) /\ e \in VotesOf(k, ElectionVote)
  BY <1>1, <1>4 DEF Safe, LocksSent
<1>5. CASE x \in VotesOf(k, PrecommitVote) /\ e \notin VotesOf(k, ElectionVote)
  <2>1. k = n /\ e.header = view[n] /\ e.highQC = highQC[n]
    BY <1>5, SentKept
  <2>2. x \in msgs /\ x.type = "vote" /\ x.from = n /\ x.header.phase = PrecommitVote
    BY <1>3, <1>5, <2>1, MessageFields
  <2> QED
    BY <1>1, <1>3, <2>1, <2>2 DEF Locked, Covers
<1>6. CASE x \notin VotesOf(k, PrecommitVote)
  <2>1. k = n /\ x.header = view[n]
    BY <1>6, SentKept
  <2>2. CASE e \in VotesOf(k, ElectionVote)
    <3>1. e \in SignedBy(k) /\ e.header \in HeaderType
      BY <1>3, <2>2, MessageFields
    <3>2. Less(e.header, view[k])
      BY <1>1, <1>3, <3>1 DEF SignedBehind
    <3>3. ~Before(view[k], e.header)
      BY <1>3, <3>1, <3>2, NotBack
    <3> QED
      BY <2>1, <3>3
  <2>3. CASE e \notin VotesOf(k, ElectionVote)
    <3>1. e.header = view[n]
      BY <2>3, SentKept
    <3>2. ~Before(view[k], view[k])
      BY <1>3, ViewFields DEF Before
    <3> QED
      BY <2>1, <3>1, <3>2
  <2> QED
    BY <2>2, <2>3
<1> QED
  BY <1>4, <1>5, <1>6

\* A decision stays the only one if nobody in S signs another PRECOMMIT-VOTE at the height.
LEMMA DecisionKept ==
  ASSUME NEW h, NEW S, OneDecision(h, S),
         \A k \in S : \A x \in VotesOf(k, PrecommitVote)' :
           x.header.height = h => x \in VotesOf(k, PrecommitVote)
  PROVE  OneDecision(h, S)'
<1> SUFFICES ASSUME NEW v \in HeaderType, NEW w \in HeaderType, NEW a \in BlockType \cup {Nil},
                    NEW b \in BlockType \cup {Nil}, NEW Q \in Maj23, NEW R \in Maj23,
                    v.height = h, w.height = h,
                    \A n \in Q \cap S : VotedFor(n, v, PrecommitVote, a)',
                    \A n \in R \cap S : VotedFor(n, w, PrecommitVote, b)'
             PROVE  a = b
  BY DEF OneDecision
<1>1. ASSUME NEW k \in S, NEW u, u.height = h, NEW prop, VotedFor(k, u, PrecommitVote, prop)'
      PROVE  VotedFor(k, u, PrecommitVote, prop)
  <2>1. PICK x \in VotesOf(k, PrecommitVote)' : SameView(x.header, u) /\ x.prop = prop
    BY <1>1 DEF VotedFor
  <2>2. x.header.height = h
    BY <1>1, <2>1 DEF SameView
  <2>3. x \in VotesOf(k, PrecommitVote)
    BY <1>1, <2>2
  <2> QED
    BY <2>1, <2>3 DEF VotedFor
<1>2. \A n \in Q \cap S : VotedFor(n, v, PrecommitVote, a)
  BY <1>1
<1>3. \A n \in R \cap S : VotedFor(n, w, PrecommitVote, b)
  BY <1>1
<1> QED
  BY <1>2, <1>3 DEF OneDecision

\* A height that is left has one decision: its majority went on, and votes there no more.
LEMMA FrozenKept ==
  ASSUME Inv, Safe, FaultsTolerated, TypeOK', NEW n \in Node, Sent(n),
         \A k \in Node : view'[k].height >= view[k].height,
         \A m \in msgs' \ msgs : Justified(m)', \A k \in Node : SignedBelow(k)',
         NEW h \in 1 .. MaxHeight, Outrun(h)'
  PROVE  Frozen(h)'
<1>1. TypeOK /\ h \in Nat
  BY Bounds DEF Inv
<1>2. ASSUME NEW k \in Node PROVE view[k].height \in Nat /\ view'[k].height \in Nat
  <2>1. view[k] \in ViewType /\ view'[k] \in ViewType
    BY <1>1 DEF TypeOK
  <2> QED
    BY <2>1, ViewFields
<1>3. \A S \in Maj23 : S \subseteq Node
  BY DEF Maj23
<1>4. CASE Outrun(h)
  <2>1. PICK S \in Maj23 : (\A k \in S : view[k].height > h) /\ OneDecision(h, S)
    BY <1>4 DEF Safe, Frozen
  <2>2. \A k \in S : view'[k].height > h
    BY <1>1, <1>2, <1>3, <2>1
  <2>3. ASSUME NEW k \in S, NEW x \in VotesOf(k, PrecommitVote)', x.header.height = h
        PROVE  x \in VotesOf(k, PrecommitVote)
    <3> SUFFICES ASSUME x \notin VotesOf(k, PrecommitVote) PROVE FALSE
      OBVIOUS
    <3>1. k = n /\ x.header = view[n]
      BY SentKept
    <3> QED
      BY <1>1, <1>2, <2>1, <2>3, <3>1
  <2>4. OneDecision(h, S)'
    BY <2>1, <2>3, DecisionKept
  <2> QED
    BY <2>2, <2>4 DEF Frozen
<1>5. CASE ~Outrun(h)
  <2>1. PICK m \in msgs' : m.type = "block" /\ m.qc.header.height > h
    BY DEF Outrun
  <2>2. m \notin msgs
    BY <1>5, <2>1 DEF Outrun
  <2>3. msgs' = msgs \cup {m}
    BY <2>2 DEF Sent
  <2>4. Backed(m.qc)' /\ MessageOK(m)
    <3>1. Justified(m)'
      BY <2>2
    <3>2. MessageOK(m)'
      BY DEF TypeOK
    <3> QED
      BY <2>1, <3>1, <3>2 DEF Justified, MessageOK, IsLock
  <2>5. m.qc.header.phase = PrecommitVote /\ m.qc.header.height \in Nat
    BY <2>1, <2>4, HeaderFields DEF MessageOK, QCType
  <2>6. PICK S \in Maj23 : \A k \in S : VotedFor(k, m.qc.header, m.qc.header.phase, m.qc.prop)'
    BY <2>4 DEF Backed, Polled
  <2>7. ASSUME NEW k \in S PROVE view'[k].height > h
    <3>1. PICK x \in VotesOf(k, m.qc.header.phase)' : SameView(x.header, m.qc.header)
      BY <2>6 DEF VotedFor
    <3>2. x \in SignedBy(k)' /\ x.header.height = m.qc.header.height /\ k \in Node
      BY <1>3, <3>1 DEF VotesOf, SignedBy, SameView
    <3>3. x.header.height <= view'[k].height
      BY <3>2 DEF SignedBelow
    <3> QED
      BY <1>1, <1>2, <2>1, <2>5, <3>2, <3>3
  <2>8. OneDecision(h, S)
    BY <1>5, Undecided
  <2>9. ASSUME NEW k \in S, NEW x \in VotesOf(k, PrecommitVote)' PROVE x \in VotesOf(k, PrecommitVote)
    BY <2>1, <2>3 DEF VotesOf
  <2>10. OneDecision(h, S)'
    BY <2>8, <2>9, DecisionKept
  <2> QED
    BY <2>7, <2>10 DEF Frozen
<1> QED
  BY <1>4, <1>5

\* Committed certificates keep their majorities.
LEMMA ChainKept ==
  ASSUME msgs \subseteq msgs', NEW k, ChainBacked(k), chain'[k] = chain[k]
  PROVE  ChainBacked(k)'
<1> SUFFICES ASSUME NEW h \in 1 .. Len(chain'[k])
             PROVE  /\ chain'[k][h].header.height = h
                    /\ chain'[k][h].header.phase = PrecommitVote
                    /\ Backed(chain[k][h])'
  BY DEF ChainBacked
<1>1. PICK c : c = chain[k][h] /\ c = chain'[k][h]
  OBVIOUS
<1>2. c.header.height = h /\ c.header.phase = PrecommitVote /\ Backed(c)
  BY <1>1 DEF ChainBacked
<1>3. Backed(c)'
  BY <1>2, PolledKept DEF Backed
<1>4. Backed(chain[k][h])'
  BY <1>1, <1>3 DEF Backed, Polled, VotedFor
<1> QED
  BY <1>1, <1>2, <1>4

\* The rest of the state of k, as far as Safe goes.
SameBlocks(k) ==
  /\ view'[k] = view[k] /\ highQC'[k] = highQC[k] /\ chain'[k] = chain[k]
  /\ block'[k] = block[k] /\ blockHash'[k] = blockHash[k]

\* The steps of the others leave what is true of k.
LEMMA OtherSafe ==
  ASSUME NEW k \in Node, NodeSafe(k), SameBlocks(k), NEW n \in Node \ {k}, Sent(n)
  PROVE  NodeSafe(k)'
<1>1. msgs \subseteq msgs' /\ \A h : ~Outrun(h)' => ~Outrun(h)
  BY SentKept
<1>2. LockBacked(k)'
  <2>1. PICK q : q = highQC[k] /\ q = highQC'[k]
    BY DEF SameBlocks
  <2>2. Backed(q) => Backed(q)'
    BY <1>1, PolledKept DEF Backed
  <2>3. q # Nil => Backed(q)
    BY <2>1 DEF NodeSafe, LockBacked
  <2> QED
    BY <2>1, <2>2, <2>3 DEF LockBacked, Backed, Polled, VotedFor
<1>3. ChainBacked(k)'
  BY <1>1, ChainKept DEF NodeSafe, SameBlocks
<1>4. HashCached(k)'
  <2>1. \A m \in ProposeMsgs' : m.from = k => m \in ProposeMsgs
    BY SentKept
  <2>2. ProposeMsgs \subseteq ProposeMsgs'
    BY SentKept
  <2>3. ~Outrun(view[k].height)' => ~Outrun(view[k].height)
    <3>1. PICK h : h = view[k].height /\ h = view'[k].height
      BY DEF SameBlocks
    <3>2. ~Outrun(h)' => ~Outrun(h)
      BY <1>1
    <3> QED
      BY <3>1, <3>2 DEF Outrun
  <2>4. GetBlockHash(k, block[k])' = GetBlockHash(k, block[k])
    BY DEF SameBlocks, GetBlockHash
  <2> QED
    BY <2>1, <2>2, <2>3, <2>4 DEF NodeSafe, HashCached, SameBlocks
<1>5. LockHeld(k)'
  <2>1. ~Outrun(highQC[k].header.height)' => ~Outrun(highQC[k].header.height)
    <3>1. PICK h : h = highQC[k].header.height /\ h = highQC'[k].header.height
      BY DEF SameBlocks
    <3>2. ~Outrun(h)' => ~Outrun(h)
      BY <1>1
    <3> QED
      BY <3>1, <3>2 DEF Outrun
  <2> QED
    BY <2>1 DEF NodeSafe, LockHeld, SameBlocks
<1>6. SignedBelow(k)'
  <2>1. \A x \in SignedBy(k)' : x \in SignedBy(k)
    BY SentKept
  <2> QED
    BY <2>1 DEF NodeSafe, SignedBelow, SameBlocks
<1> QED
  BY <1>2, <1>3, <1>4, <1>5, <1>6 DEF NodeSafe

\* What a step of n has to show.
LEMMA SafeStep ==
  ASSUME Inv, Inv', Safe, FaultsTolerated, NEW n \in Node, Sent(n),
         \A k \in Node \ {n} : SameBlocks(k), view'[n].height >= view[n].height,
         \A m \in msgs' \ msgs : Justified(m)',
         \A m \in ProposeMsgs' \ ProposeMsgs : ~Outrun(m.header.height) =>
           \A w \in HeaderType : Before(w, m.header) => SafeAt(m.qc.prop, w),
         \A e \in VotesOf(n, ElectionVote)' \ VotesOf(n, ElectionVote) : e.highQC = highQC[n],
         NodeSafe(n)'
  PROVE  Safe'
<1>1. TypeOK /\ TypeOK'
  BY DEF Inv
<1>2. \A k \in Node : NodeSafe(k)'
  <2>1. ASSUME NEW k \in Node \ {n} PROVE NodeSafe(k)'
    <3>1. NodeSafe(k) /\ SameBlocks(k) /\ n \in Node \ {k}
      BY DEF Safe
    <3> QED
      BY <3>1, OtherSafe
  <2> QED
    BY <2>1
<1>3. \A m \in msgs' : Justified(m)'
  <2>1. \A m \in msgs : Justified(m)'
    BY SentKept, JustifiedKept DEF Safe
  <2> QED
    BY <2>1
<1>4. LocksSent'
  BY LocksSentKept
<1>5. ProposalsSafe'
  BY ProposalsSafeKept
<1>6. ASSUME NEW k \in Node PROVE view'[k].height >= view[k].height
  <2>1. view[k] \in ViewType
    BY <1>1 DEF TypeOK
  <2> QED
    BY <2>1, ViewFields DEF SameBlocks
<1>7. ASSUME NEW h \in 1 .. MaxHeight, Outrun(h)' PROVE Frozen(h)'
  <2>1. \A k \in Node : SignedBelow(k)'
    BY <1>2 DEF NodeSafe
  <2> QED
    BY <1>1, <1>6, <1>7, <2>1, FrozenKept
<1> QED
  BY <1>2, <1>3, <1>4, <1>5, <1>7 DEF Safe

-----------------------------------------------------------------------------
(* What steps have in common. *)

\* A change of phase.
LEMMA ViewChange ==
  ASSUME TypeOK, NEW n \in Node, NEW p, view' = [view EXCEPT ![n].phase = p]
  PROVE  /\ view'[n].height = view[n].height /\ SameView(view'[n], view[n])
         /\ SameView(view[n], view'[n]) /\ view'[n].phase = p
         /\ view[n].height \in Nat /\ view'[n].height >= view[n].height
         /\ \A k \in Node \ {n} : view'[k] = view[k]
<1>1. view \in [Node -> ViewType]
  BY DEF TypeOK
<1>2. /\ view'[n].height = view[n].height /\ view'[n].rootHeight = view[n].rootHeight
      /\ view'[n].round = view[n].round /\ view'[n].phase = p
      /\ \A k \in Node \ {n} : view'[k] = view[k]
  BY <1>1 DEF ViewType
<1>3. view[n].height \in Nat
  BY <1>1, ViewFields
<1> QED
  BY <1>2, <1>3 DEF SameView

\* A step that does not take n back a height signs nothing above it.
LEMMA SignedBelowKept ==
  ASSUME Inv, Safe, NEW n \in Node, Sent(n), view'[n].height \in Nat,
         view'[n].height >= view[n].height
  PROVE  SignedBelow(n)'
<1>1. NodeSafe(n) /\ TypeOK /\ view[n] \in ViewType
  BY NodeTypes DEF Safe, Inv
<1>2. view[n].height \in Nat
  BY <1>1, ViewFields
<1> SUFFICES ASSUME NEW x \in SignedBy(n)' PROVE x.header.height <= view'[n].height
  BY DEF SignedBelow
<1>3. CASE x \in SignedBy(n)
  <2>1. x.header.height <= view[n].height
    BY <1>1, <1>3 DEF NodeSafe, SignedBelow
  <2>2. x.header.height \in Nat
    BY <1>1, <1>3, VoteFields
  <2> QED
    BY <1>2, <2>1, <2>2
<1>4. CASE x \notin SignedBy(n)
  BY <1>4, SentKept
<1> QED
  BY <1>3, <1>4

\* A step that leaves or clears the lock of n and leaves its chain.
LEMMA KeepsLock ==
  ASSUME Inv, Safe, NEW n \in Node, Sent(n), view'[n].height \in Nat,
         view'[n].height >= view[n].height,
         chain'[n] = chain[n], highQC'[n] = highQC[n] \/ highQC'[n] = Nil, HashCached(n)'
  PROVE  NodeSafe(n)'
<1>1. NodeSafe(n) /\ TypeOK /\ view[n] \in ViewType
  BY NodeTypes DEF Safe, Inv
<1>2. view[n].height \in Nat
  BY <1>1, ViewFields
<1>3. msgs \subseteq msgs' /\ \A h : ~Outrun(h)' => ~Outrun(h)
  BY SentKept
<1>4. LockBacked(n)'
  <2>1. PICK q : q = highQC'[n]
    OBVIOUS
  <2>2. Backed(q) => Backed(q)'
    BY <1>3, PolledKept DEF Backed
  <2>3. q # Nil => Backed(q)
    BY <1>1, <2>1 DEF NodeSafe, LockBacked
  <2> QED
    BY <2>1, <2>2, <2>3 DEF LockBacked, Backed, Polled, VotedFor
<1>5. ChainBacked(n)'
  BY <1>1, <1>3, ChainKept DEF NodeSafe
<1>6. LockHeld(n)'
  <2>1. PICK q : q = highQC'[n]
    OBVIOUS
  <2>2. CASE q = Nil
    BY <2>1, <2>2 DEF LockHeld
  <2>3. CASE q # Nil /\ q = highQC[n]
    <3>1. n \in Reliable =>
            q.header.height <= view[n].height /\ (~Outrun(q.header.height) => q.data = q.prop)
      BY <1>1, <2>3 DEF NodeSafe, LockHeld
    <3>2. q.header.height \in Nat
      BY <1>1, <2>3, NodeTypes, HeaderFields DEF IsLock, QCType
    <3>3. n \in Reliable => q.header.height <= view'[n].height
      BY <1>2, <3>1, <3>2
    <3>4. ~Outrun(q.header.height)' => ~Outrun(q.header.height)
      BY <1>3
    <3>5. Outrun(q.header.height)' <=> Outrun(highQC[n].header.height)'
      BY <2>1 DEF Outrun
    <3> QED
      BY <2>1, <3>1, <3>3, <3>4, <3>5 DEF LockHeld
  <2> QED
    BY <2>1, <2>2, <2>3
<1>7. SignedBelow(n)'
  BY SignedBelowKept
<1> QED
  BY <1>4, <1>5, <1>6, <1>7 DEF NodeSafe

\* A step of n that sends nothing.
LEMMA QuietSafe ==
  ASSUME Inv, Inv', Safe, FaultsTolerated, NEW n \in Node, UNCHANGED msgs,
         \A k \in Node \ {n} : SameBlocks(k), view'[n].height >= view[n].height, NodeSafe(n)'
  PROVE  Safe'
<1>1. Sent(n)
  BY DEF Sent
<1>2. ProposeMsgs' \ ProposeMsgs = {}
      /\ VotesOf(n, ElectionVote)' \ VotesOf(n, ElectionVote) = {} /\ msgs' \ msgs = {}
  BY DEF ProposeMsgs, VotesOf
<1> QED
  BY <1>1, <1>2, SafeStep

\* A step that changes nothing Safe is about.
LEMMA IdleSafe ==
  ASSUME Safe, UNCHANGED <<view, highQC, chain, block, blockHash, msgs>>
  PROVE  Safe'
<1>1. \A m : Justified(m)' <=> Justified(m)
  BY DEF Justified, Backed, Polled, VotedFor, VotesOf, Elected, ProposeMsgs, Outrun
<1>2. LocksSent'
  BY DEF Safe, LocksSent, VotesOf, Outrun, Covers
<1>3. ProposalsSafe'
  BY DEF Safe, ProposalsSafe, ProposeMsgs, Outrun, SafeAt, Gone, SignedBy, VotesOf
<1>4. ASSUME NEW n \in Node PROVE NodeSafe(n)'
  <2>1. NodeSafe(n)
    BY DEF Safe
  <2>2. LockBacked(n)' /\ ChainBacked(n)'
    BY <2>1 DEF NodeSafe, LockBacked, ChainBacked, Backed, Polled, VotedFor, VotesOf
  <2>3. HashCached(n)'
    BY <2>1 DEF NodeSafe, HashCached, ProposeMsgs, Outrun, GetBlockHash
  <2>4. LockHeld(n)' /\ SignedBelow(n)'
    BY <2>1 DEF NodeSafe, LockHeld, SignedBelow, SignedBy, Outrun
  <2> QED
    BY <2>2, <2>3, <2>4 DEF NodeSafe
<1>5. ASSUME NEW h \in 1 .. MaxHeight, Outrun(h)' PROVE Frozen(h)'
  <2>1. PICK S \in Maj23 : (\A n \in S : view[n].height > h) /\ OneDecision(h, S)
    BY <1>5 DEF Safe, Outrun, Frozen
  <2>2. OneDecision(h, S)'
    BY <2>1, DecisionKept DEF VotesOf
  <2> QED
    BY <2>1, <2>2 DEF Frozen
<1> QED
  BY <1>1, <1>2, <1>3, <1>4, <1>5 DEF Safe

\* A round that is interrupted.
LEMMA InterruptSafe ==
  ASSUME Inv, Inv', Safe, FaultsTolerated, NEW n \in Node, RoundInterrupt(n),
         UNCHANGED <<highQC, chain, block, blockHash>>
  PROVE  Safe'
<1>1. TypeOK
  BY DEF Inv
<1>2. view' = [view EXCEPT ![n].phase = PacemakerPhase]
  BY DEF RoundInterrupt
<1>3. /\ view'[n].height = view[n].height /\ view'[n].phase = PacemakerPhase
      /\ view[n].height \in Nat /\ view'[n].height >= view[n].height
      /\ \A k \in Node \ {n} : view'[k] = view[k]
  BY <1>1, <1>2, ViewChange
<1>4. PICK m : msgs' = msgs \cup {m} /\ m.type = "pacemaker"
  <2>1. PICK m : m = PacemakerMsg(n, [view[n] EXCEPT !.phase = RoundInterruptPhase])
    OBVIOUS
  <2>2. m.type = "pacemaker"
    BY <2>1 DEF PacemakerMsg
  <2>3. msgs' = msgs \cup {m}
    BY <2>1 DEF RoundInterrupt, Send
  <2> QED
    BY <2>2, <2>3
<1>5. Sent(n) /\ \A x \in msgs' \ msgs : Justified(x)'
  <2>1. m.type # "vote" /\ m.type # "leader" /\ m.type # "block"
    BY <1>4
  <2>2. Sent(n)
    BY <1>4, <2>1 DEF Sent
  <2>3. Justified(m)'
    BY <2>1 DEF Justified
  <2> QED
    BY <1>4, <2>2, <2>3
<1>6. ProposeMsgs' \ ProposeMsgs = {}
      /\ VotesOf(n, ElectionVote)' \ VotesOf(n, ElectionVote) = {}
  BY <1>4 DEF ProposeMsgs, VotesOf
<1>7. HashCached(n)'
  BY <1>3, PhaseNumbers DEF HashCached
<1>8. NodeSafe(n)'
  BY <1>3, <1>5, <1>7, KeepsLock
<1>9. \A k \in Node \ {n} : SameBlocks(k)
  BY <1>3 DEF SameBlocks
<1> QED
  BY <1>3, <1>5, <1>6, <1>8, <1>9, SafeStep

\* Before the block is proposed no hash is cached, and after PRECOMMIT-VOTE none matters.
LEMMA HashEarly ==
  ASSUME NEW n, view'[n].phase \in 0 .. 4, blockHash'[n] = Nil
  PROVE  HashCached(n)'
BY PhaseNumbers DEF HashCached

LEMMA HashLate ==
  ASSUME NEW n, view'[n].phase \in 7 .. 10
  PROVE  HashCached(n)'
BY PhaseNumbers DEF HashCached

-----------------------------------------------------------------------------
(* The phase handlers. *)

\* StartElectionPhase
LEMMA ElectionSafe ==
  ASSUME Inv, Inv', Safe, FaultsTolerated, NEW n \in Node, StartElectionPhase(n)
  PROVE  Safe'
<1>1. TypeOK /\ HashCached(n)
  BY DEF Inv, Safe, NodeSafe
<1>2. PICK phase \in 1 .. 9 : phase = Election
  BY PhaseNumbers
<1>3. /\ Expired(n, phase) /\ NextPhase(n)
      /\ UNCHANGED <<highQC, chain, block, blockHash, msgs>>
  BY <1>2 DEF StartElectionPhase, ctlVars
<1>4. PICK p \in Nat : p = phase + 1
  OBVIOUS
<1>5. view' = [view EXCEPT ![n].phase = p] /\ view[n].phase = phase
  BY <1>1, <1>3, <1>4, NextPhaseIs, Running
<1>6. /\ view'[n].height = view[n].height /\ view'[n].phase = p /\ view[n].height \in Nat
      /\ view'[n].height >= view[n].height /\ \A k \in Node \ {n} : view'[k] = view[k]
  BY <1>1, <1>5, ViewChange
<1>7. blockHash'[n] = Nil
  BY <1>1, <1>2, <1>3, <1>5, PhaseNumbers DEF HashCached
<1>8. HashCached(n)'
  BY <1>2, <1>4, <1>6, <1>7, HashEarly, PhaseNumbers
<1>9. Sent(n)
  BY <1>3 DEF Sent
<1>10. NodeSafe(n)'
  BY <1>3, <1>6, <1>8, <1>9, KeepsLock
<1>11. \A k \in Node \ {n} : SameBlocks(k)
  BY <1>3, <1>6 DEF SameBlocks
<1> QED
  BY <1>3, <1>6, <1>10, <1>11, QuietSafe

\* StartElectionVotePhase
LEMMA ElectionVoteSafe ==
  ASSUME Inv, Inv', Safe, FaultsTolerated, NEW n \in Node, StartElectionVotePhase(n)
  PROVE  Safe'
<1>1. TypeOK /\ HashCached(n) /\ LockBacked(n)
  BY DEF Inv, Safe, NodeSafe
<1>2. PICK phase \in 1 .. 9 : phase = ElectionVote
  BY PhaseNumbers
<1>3. Expired(n, phase) /\ NextPhase(n) /\ UNCHANGED <<highQC, chain, block, blockHash>>
  BY <1>2 DEF StartElectionVotePhase, ctlVars
<1>4. PICK p \in Nat : p = phase + 1
  OBVIOUS
<1>5. view' = [view EXCEPT ![n].phase = p] /\ view[n].phase = phase
  BY <1>1, <1>3, <1>4, NextPhaseIs, Running
<1>6. /\ view'[n].height = view[n].height /\ view'[n].phase = p /\ view[n].height \in Nat
      /\ view'[n].height >= view[n].height /\ \A k \in Node \ {n} : view'[k] = view[k]
  BY <1>1, <1>5, ViewChange
<1>7. PICK l \in Candidates[view[n].round] :
         msgs' = msgs \cup {VoteMsg(n, view[n], Nil, l, highQC[n], rcBuildHeight[n])}
  BY DEF StartElectionVotePhase, Send
<1>8. PICK m : m = VoteMsg(n, view[n], Nil, l, highQC[n], rcBuildHeight[n])
  OBVIOUS
<1>9. /\ m.type = "vote" /\ m.from = n /\ m.header = view[n] /\ m.highQC = highQC[n]
      /\ m.proposer = l
  BY <1>8 DEF VoteMsg
<1>10. msgs' = msgs \cup {m}
  BY <1>7, <1>8
<1>11. Sent(n)
  BY <1>9, <1>10 DEF Sent
<1>12. Justified(m)'
  <2>1. m.type # "leader" /\ m.type # "block" /\ m.header.phase # ProposeVote
        /\ m.header.phase # PrecommitVote
    BY <1>2, <1>5, <1>9, PhaseNumbers
  <2>2. m.proposer \in Candidates[m.header.round]
    BY <1>9
  <2>3. m.highQC # Nil => Backed(m.highQC)'
    <3>1. msgs \subseteq msgs'
      BY <1>10
    <3>2. m.highQC # Nil => Backed(m.highQC)
      BY <1>1, <1>9 DEF LockBacked
    <3> QED
      BY <3>1, <3>2, PolledKept DEF Backed
  <2> QED
    BY <2>1, <2>2, <2>3 DEF Justified
<1>13. ProposeMsgs' \ ProposeMsgs = {}
  BY <1>9, <1>10 DEF ProposeMsgs
<1>14. \A e \in VotesOf(n, ElectionVote)' \ VotesOf(n, ElectionVote) : e.highQC = highQC[n]
  BY <1>9, <1>10 DEF VotesOf
<1>15. blockHash'[n] = Nil
  BY <1>1, <1>2, <1>3, <1>5, PhaseNumbers DEF HashCached
<1>16. HashCached(n)'
  BY <1>2, <1>4, <1>6, <1>15, HashEarly, PhaseNumbers
<1>17. NodeSafe(n)'
  BY <1>3, <1>6, <1>11, <1>16, KeepsLock
<1>18. \A k \in Node \ {n} : SameBlocks(k)
  BY <1>3, <1>6 DEF SameBlocks
<1>19. \A x \in msgs' \ msgs : Justified(x)'
  BY <1>10, <1>12
<1> QED
  BY <1>6, <1>11, <1>13, <1>14, <1>17, <1>18, <1>19, SafeStep

\* The votes a leader counts are a majority's.
LEMMA MajorityBacked ==
  ASSUME NEW n \in Node, NEW v \in MajorityVotes(n)
  PROVE  Polled(v.header, v.header.phase, v.prop)
<1>1. PICK Q : Q = {m.from : m \in {x \in Votes(n) : Payload(x) = v}}
  OBVIOUS
<1>2. Q \in Maj23
  BY <1>1 DEF MajorityVotes
<1>3. ASSUME NEW k \in Q PROVE VotedFor(k, v.header, v.header.phase, v.prop)
  <2>1. PICK m \in Votes(n) : Payload(m) = v /\ m.from = k
    BY <1>1
  <2>2. m \in msgs /\ m.type = "vote"
    BY DEF Votes
  <2>3. m.header = v.header /\ m.prop = v.prop
    BY <2>1 DEF Payload
  <2>4. m \in VotesOf(k, v.header.phase) /\ SameView(m.header, v.header)
    BY <2>1, <2>2, <2>3 DEF VotesOf, SameView
  <2> QED
    BY <2>3, <2>4 DEF VotedFor
<1> QED
  BY <1>2, <1>3 DEF Polled

\* A leader is elected by a majority, whose locks are not above its own.
LEMMA MajorityElects ==
  ASSUME TypeOK, NEW n \in Node, EpochCurrent(n), Expired(n, Propose), NEW v \in MajorityVotes(n)
  PROVE  /\ v.proposer = n
         /\ \E Q \in Maj23 : \A k \in Q : \E e \in VotesOf(k, ElectionVote) :
              /\ SameView(e.header, view[n]) /\ e.proposer = n
              /\ e.highQC # Nil => highQC[n] # Nil /\ ~Less(highQC[n].header, e.highQC.header)
<1>1. PICK Q : Q = {m.from : m \in {x \in Votes(n) : Payload(x) = v}}
  OBVIOUS
<1>2. Q \in Maj23
  BY <1>1 DEF MajorityVotes
<1>3. v.proposer = n
  <2>1. PICK m \in Votes(n) : v = Payload(m)
    BY DEF MajorityVotes
  <2> QED
    BY <2>1 DEF Votes, Payload
<1>4. PICK phase \in 2 .. 10 : phase = Propose
  BY PhaseNumbers
<1>5. epochs[n] = {<<view[n].height, view[n].rootHeight>>} /\ view[n].phase = phase
  BY <1>4, RunningEpoch, Running
<1>6. ASSUME NEW k \in Q
      PROVE  \E e \in VotesOf(k, ElectionVote) :
               /\ SameView(e.header, view[n]) /\ e.proposer = n
               /\ e.highQC # Nil => highQC[n] # Nil /\ ~Less(highQC[n].header, e.highQC.header)
  <2>1. PICK m \in Votes(n) : m.from = k
    BY <1>1
  <2>2. /\ m \in msgs /\ m.type = "vote" /\ m.proposer = n /\ m.header.round = view[n].round
        /\ m.header.phase = view[n].phase - 1
        /\ \E e \in epochs[n] : CheckReplicaMessage(m, e)
        /\ m.highQC # Nil => highQC[n] # Nil /\ ~Less(highQC[n].header, m.highQC.header)
    BY DEF Votes
  <2>3. <<m.header.height, m.header.rootHeight>> = <<view[n].height, view[n].rootHeight>>
    BY <1>5, <2>2 DEF CheckReplicaMessage
  <2>4. m \in VotesOf(k, ElectionVote)
    BY <1>4, <1>5, <2>1, <2>2, PhaseNumbers DEF VotesOf
  <2>5. SameView(m.header, view[n])
    BY <2>2, <2>3 DEF SameView
  <2> QED
    BY <2>2, <2>4, <2>5
<1> QED
  BY <1>2, <1>3, <1>6

\* Who is elected is reliable.
LEMMA LeaderReliable ==
  ASSUME Inv, Safe, FaultsTolerated, NEW n \in Node, Expired(n, Propose), NEW v \in MajorityVotes(n)
  PROVE  n \in Reliable
<1>1. TypeOK /\ EpochCurrent(n)
  BY DEF Inv, NodeInv
<1>2. PICK Q \in Maj23 : \A k \in Q : \E e \in VotesOf(k, ElectionVote) :
        SameView(e.header, view[n]) /\ e.proposer = n
  BY <1>1, MajorityElects
<1>3. PICK k \in Reliable : k \in Q
  BY Intersect
<1>4. PICK e \in VotesOf(k, ElectionVote) : SameView(e.header, view[n]) /\ e.proposer = n
  BY <1>2, <1>3
<1>5. e \in msgs /\ e.type = "vote" /\ e.header.phase = ElectionVote /\ e.header \in HeaderType
  BY <1>1, MessageFields
<1>6. n \in Candidates[e.header.round]
  BY <1>4, <1>5 DEF Safe, Justified
<1>7. e.header.round \in 0 .. MaxRound
  BY <1>5, HeaderFields
<1> QED
  BY <1>6, <1>7 DEF FaultsTolerated

\* A block with the hash it has.
LEMMA SameHash ==
  ASSUME NEW data \in BlockType
  PROVE  [data EXCEPT !.block = data.block] = data
BY DEF BlockType

\* StartProposePhase
LEMMA ProposeSafe ==
  ASSUME Inv, Inv', Safe, FaultsTolerated, NEW n \in Node, StartProposePhase(n)
  PROVE  Safe'
<1>1. TypeOK /\ EpochCurrent(n) /\ HashCached(n) /\ LockHeld(n)
  BY DEF Inv, NodeInv, Safe, NodeSafe
<1>2. PICK phase \in 1 .. 9 : phase = Propose /\ phase \in 2 .. 10
  BY PhaseNumbers
<1>3. Expired(n, phase) /\ NextPhase(n) /\ UNCHANGED <<highQC, chain>> /\ Expired(n, Propose)
  BY <1>2 DEF StartProposePhase, ctlVars
<1>4. PICK p \in Nat : p = phase + 1
  OBVIOUS
<1>5. view' = [view EXCEPT ![n].phase = p] /\ view[n].phase = phase /\ view[n] \in HeaderType
  BY <1>1, <1>3, <1>4, NextPhaseIs, Running
<1>6. /\ view'[n].height = view[n].height /\ view'[n].phase = p /\ view[n].height \in Nat
      /\ view'[n].height >= view[n].height /\ \A k \in Node \ {n} : view'[k] = view[k]
      /\ SameView(view'[n], view[n]) /\ SameView(view[n], view'[n])
  BY <1>1, <1>5, ViewChange
<1>7. blockHash[n] = Nil
  BY <1>1, <1>2, <1>5, PhaseNumbers DEF HashCached
<1>8. block \in [Node -> BlockType \cup {Nil}] /\ blockHash \in [Node -> HashType \cup {Nil}]
  BY <1>1 DEF TypeOK
<1>9. ASSUME UNCHANGED <<blockHash, msgs>>, \A k \in Node \ {n} : block'[k] = block[k]
      PROVE  Safe'
  <2>1. HashCached(n)'
    <3>1. view'[n].phase \in 0 .. 4 /\ blockHash'[n] = Nil
      BY <1>2, <1>4, <1>6, <1>7, <1>9, PhaseNumbers
    <3> QED
      BY <3>1, HashEarly
  <2>2. Sent(n)
    BY <1>9 DEF Sent
  <2>3. NodeSafe(n)'
    BY <1>3, <1>6, <2>1, <2>2, KeepsLock
  <2>4. \A k \in Node \ {n} : SameBlocks(k)
    BY <1>3, <1>6, <1>9 DEF SameBlocks
  <2> QED
    BY <1>6, <1>9, <2>3, <2>4, QuietSafe
<1>10. CASE UNCHANGED <<block, blockHash, msgs>>
  BY <1>9, <1>10
<1>11. CASE block' = [block EXCEPT ![n] = Nil] /\ UNCHANGED <<blockHash, msgs>>
  <2>1. \A k \in Node \ {n} : block'[k] = block[k]
    BY <1>8, <1>11
  <2> QED
    BY <1>9, <1>11, <2>1
<1>12. ASSUME NEW v \in MajorityVotes(n), NEW d \in ToPropose(n), ProposeData(n, v, d[1], d[2])
       PROVE  Safe'
  <2>1. PICK data \in BlockType : data = d[1]
    BY <1>1, ToProposeOK
  <2>2. PICK hq, rc : hq = highQC[n] /\ rc = d[2]
    OBVIOUS
  <2>3. PICK m : m = LeaderMsg(n, view[n], Certificate(v.header, data, data, v.proposer), hq, rc)
    OBVIOUS
  <2>4. GetBlockHash(n, data) = data.block /\ [data EXCEPT !.block = data.block] = data
    BY <1>7, SameHash DEF GetBlockHash
  <2>5. /\ block' = [block EXCEPT ![n] = data] /\ msgs' = msgs \cup {m}
        /\ blockHash' = [blockHash EXCEPT ![n] = data.block]
    BY <1>12, <2>1, <2>2, <2>3, <2>4 DEF ProposeData, Send
  <2>6. /\ m.type = "leader" /\ m.from = n /\ m.header = view[n]
        /\ m.qc.prop = data /\ m.qc.data = data
    BY <2>3 DEF LeaderMsg, Certificate
  <2>7. m.header.phase = Propose /\ m.type # "vote" /\ m.type # "block"
    BY <1>2, <1>5, <2>6
  <2>8. Sent(n)
    BY <2>5, <2>6 DEF Sent
  <2>9. n \in Reliable /\ n \notin Restartable
    BY <1>3, LeaderReliable DEF Reliable
  <2>10. PICK Q \in Maj23 : \A k \in Q : \E e \in VotesOf(k, ElectionVote) :
           /\ SameView(e.header, view[n]) /\ e.proposer = n
           /\ e.highQC # Nil => highQC[n] # Nil /\ ~Less(highQC[n].header, e.highQC.header)
    BY <1>1, <1>3, MajorityElects
  <2>11. Justified(m)'
    <3>1. Elected(m)
      BY <2>6, <2>10 DEF Elected
    <3>2. Elected(m)'
      BY <2>5, <3>1, PolledKept
    <3> QED
      BY <2>6, <2>7, <3>2 DEF Justified
  <2>12. ASSUME ~Outrun(view[n].height), NEW w \in HeaderType, Before(w, view[n])
         PROVE  SafeAt(data, w)
    <3>1. highQC[n] # Nil /\ highQC[n].header.height = view[n].height => data = highQC[n].prop
      <4> SUFFICES ASSUME highQC[n] # Nil, highQC[n].header.height = view[n].height
                   PROVE  data = highQC[n].prop
        OBVIOUS
      <4>1. data = highQC[n].data
        BY <2>1 DEF ToPropose
      <4>2. highQC[n].data = highQC[n].prop
        BY <1>1, <2>9, <2>12 DEF LockHeld
      <4> QED
        BY <4>1, <4>2
    <3>2. PICK h \in HeaderType : h = view[n]
      BY <1>5
    <3>3. ~Outrun(h.height) /\ Before(w, h)
      BY <2>12, <3>2
    <3>4. highQC[n] # Nil /\ highQC[n].header.height = h.height => data = highQC[n].prop
      BY <3>1, <3>2
    <3>5. \A k \in Q : \E e \in VotesOf(k, ElectionVote) :
            /\ SameView(e.header, h)
            /\ e.highQC # Nil => highQC[n] # Nil /\ ~Less(highQC[n].header, e.highQC.header)
      BY <2>10, <3>2
    <3> QED
      BY <2>9, <3>2, <3>3, <3>4, <3>5, NewProposalSafe
  <2>13. \A x \in ProposeMsgs' \ ProposeMsgs : ~Outrun(x.header.height) =>
           \A w \in HeaderType : Before(w, x.header) => SafeAt(x.qc.prop, w)
    <3>1. \A x \in ProposeMsgs' \ ProposeMsgs : x = m
      BY <2>5 DEF ProposeMsgs
    <3> QED
      BY <2>6, <2>12, <3>1
  <2>14. VotesOf(n, ElectionVote)' \ VotesOf(n, ElectionVote) = {}
    BY <2>5, <2>7 DEF VotesOf
  <2>15. HashCached(n)'
    <3>1. view'[n].phase = ProposeVote /\ ~(view'[n].phase <= Propose)
          /\ view'[n].phase \notin {Precommit, PrecommitVote}
      BY <1>2, <1>4, <1>6, PhaseNumbers
    <3>2. m \in ProposeMsgs'
      BY <2>5, <2>6, <2>7 DEF ProposeMsgs
    <3>3. SameView(m.header, view'[n])
      BY <1>6, <2>6
    <3>4. ASSUME ~Outrun(view[n].height)', NEW x \in ProposeMsgs', x.from = n,
                 SameView(x.header, view'[n])
          PROVE  x.qc.data.block = blockHash'[n]
      <4>1. CASE x = m
        BY <1>8, <2>5, <2>6, <4>1
      <4>2. CASE x # m
        <5>1. x \in ProposeMsgs
          BY <2>5, <4>2 DEF ProposeMsgs
        <5>2. x \in SignedBy(n) /\ x.header \in HeaderType /\ x.header.phase = Propose
          BY <1>1, <3>4, <5>1, MessageFields
        <5>3. x.header.height = view'[n].height
          BY <3>4 DEF SameView
        <5>4. ~Outrun(x.header.height)
          <6>1. PICK h : h = x.header.height /\ h = view'[n].height
            BY <5>3
          <6>2. ~Outrun(h)'
            BY <3>4, <6>1 DEF Outrun
          <6>3. ~Outrun(h)
            BY <2>8, <6>2, SentKept
          <6> QED
            BY <6>1, <6>3
        <5>5. SignedBehind(n)
          BY <2>9, NodeFacts
        <5>6. Less(x.header, view[n])
          BY <5>2, <5>4, <5>5 DEF SignedBehind
        <5>7. SameView(x.header, view[n])
          BY <1>6, <3>4 DEF SameView
        <5>8. x.header.phase = view[n].phase /\ view[n].phase \in Nat /\ view[n].height \in Nat
              /\ view[n].rootHeight \in Nat /\ view[n].round \in Nat
          BY <1>2, <1>5, <5>2, HeaderFields
        <5> QED
          BY <5>6, <5>7, <5>8 DEF Less, SameView
      <4> QED
        BY <4>1, <4>2
    <3> QED
      BY <2>6, <3>1, <3>2, <3>3, <3>4 DEF HashCached
  <2>16. NodeSafe(n)'
    BY <1>3, <1>6, <2>8, <2>15, KeepsLock
  <2>17. \A k \in Node \ {n} : SameBlocks(k)
    BY <1>3, <1>6, <1>8, <2>5 DEF SameBlocks
  <2>18. \A x \in msgs' \ msgs : Justified(x)'
    BY <2>5, <2>11
  <2> QED
    BY <1>6, <2>8, <2>13, <2>14, <2>16, <2>17, <2>18, SafeStep
<1> QED
  BY <1>10, <1>11, <1>12 DEF StartProposePhase

\* The proposal a reliable validator looks at is of its own round, has the hashes of its block,
\* and is the one proposed by the validator itself if it is the leader.
LEMMA ProposalKnown ==
  ASSUME Inv, Safe, FaultsTolerated, NEW n \in Reliable, Expired(n, ProposeVote),
         NEW m \in GetProposal(n), ~Outrun(view[n].height)
  PROVE  /\ m \in ProposeMsgs /\ SameView(m.header, view[n]) /\ m.qc.prop = m.qc.data
         /\ GetBlockHash(n, m.qc.data) = m.qc.data.block
<1>1. /\ TypeOK /\ n \in Node /\ n \notin Preempted /\ \A x \in msgs : Fresh(x)
      /\ EpochCurrent(n) /\ HashCached(n)
  BY DEF Inv, NodeInv, Safe, NodeSafe, Reliable
<1>2. PICK phase \in 2 .. 10 : phase = ProposeVote
  BY PhaseNumbers
<1>3. Expired(n, phase) /\ view[n].phase = ProposeVote
  BY <1>2 DEF Expired
<1>4. /\ m \in msgs /\ m.type = "leader" /\ m.header.phase = view[n].phase - 1
      /\ m.header.round = view[n].round
  BY <1>1, ProposalFacts
<1>5. m.header.phase = Propose /\ m \in ProposeMsgs
  BY <1>3, <1>4, PhaseNumbers DEF ProposeMsgs
<1>6. SameView(m.header, view[n])
  <2>1. m.qc.header.height = view[n].height /\ m.qc.header.rootHeight = view[n].rootHeight
    BY <1>1, <1>3, LockHeader
  <2>2. m.qc.header.height = m.header.height /\ m.qc.header.rootHeight = m.header.rootHeight
    BY <1>1, <1>4 DEF Fresh
  <2> QED
    BY <1>4, <2>1, <2>2 DEF SameView
<1>7. Elected(m) /\ m.qc.prop = m.qc.data
  BY <1>4, <1>5 DEF Safe, Justified
<1>8. GetBlockHash(n, m.qc.data) = m.qc.data.block
  <2>1. CASE blockHash[n] = Nil
    BY <2>1 DEF GetBlockHash
  <2>2. CASE blockHash[n] # Nil
    <3>1. PICK q \in ProposeMsgs : q.from = n /\ SameView(q.header, view[n])
      BY <1>1, <1>3, <2>2 DEF HashCached
    <3>2. q \in msgs /\ q.type = "leader" /\ q.header.phase = Propose
      BY <1>1, MessageFields
    <3>3. Elected(q)
      BY <3>2 DEF Safe, Justified
    <3>4. SameView(m.header, q.header) /\ ~Outrun(m.header.height)
      BY <1>6, <3>1 DEF SameView
    <3>5. m.from = n
      BY <1>5, <1>7, <3>1, <3>3, <3>4, OneLeader
    <3>6. m.qc.data.block = blockHash[n]
      BY <1>1, <1>3, <1>5, <1>6, <2>2, <3>5 DEF HashCached
    <3> QED
      BY <2>2, <3>6 DEF GetBlockHash
  <2> QED
    BY <2>1, <2>2
<1> QED
  BY <1>5, <1>6, <1>7, <1>8

\* StartProposeVotePhase
LEMMA ProposeVoteSafe ==
  ASSUME Inv, Inv', Safe, FaultsTolerated, NEW n \in Node, StartProposeVotePhase(n)
  PROVE  Safe'
<1>1. /\ TypeOK /\ block \in [Node -> BlockType \cup {Nil}]
      /\ blockHash \in [Node -> HashType \cup {Nil}]
  BY DEF Inv, TypeOK
<1>2. PICK phase \in 1 .. 9 : phase = ProposeVote
  BY PhaseNumbers
<1>3. Expired(n, phase) /\ UNCHANGED <<highQC, chain>> /\ Expired(n, ProposeVote)
  BY <1>2 DEF StartProposeVotePhase, ctlVars
<1>4. CASE RoundInterrupt(n) /\ UNCHANGED <<block, blockHash>>
  BY <1>3, <1>4, InterruptSafe
<1>5. ASSUME NEW m \in GetProposal(n), NextPhase(n),
             block' = [block EXCEPT ![n] = m.qc.data],
             blockHash' = [blockHash EXCEPT ![n] = GetBlockHash(n, m.qc.data)],
             Send(VoteMsg(n, view[n], [m.qc.data EXCEPT !.block = GetBlockHash(n, m.qc.data)],
                          m.from, Nil, 0))
      PROVE  Safe'
  <2>1. PICK p \in Nat : p = phase + 1
    OBVIOUS
  <2>2. view' = [view EXCEPT ![n].phase = p] /\ view[n].phase = phase
    BY <1>1, <1>3, <1>5, <2>1, NextPhaseIs, Running
  <2>3. /\ view'[n].height = view[n].height /\ view'[n].phase = p /\ view[n].height \in Nat
        /\ view'[n].height >= view[n].height /\ \A k \in Node \ {n} : view'[k] = view[k]
    BY <1>1, <2>2, ViewChange
  <2>4. PICK data \in BlockType : data = m.qc.data
    <3>1. m.header.phase = Propose
      BY <1>1, <1>2, <2>2, ProposalFacts, PhaseNumbers
    <3> QED
      BY <1>1, <3>1, ProposalFacts
  <2>5. PICK prop, l : prop = [data EXCEPT !.block = GetBlockHash(n, data)] /\ l = m.from
    OBVIOUS
  <2>6. PICK x : x = VoteMsg(n, view[n], prop, l, Nil, 0)
    OBVIOUS
  <2>7. msgs' = msgs \cup {x}
    BY <1>5, <2>4, <2>5, <2>6 DEF Send
  <2>8. /\ x.type = "vote" /\ x.from = n /\ x.header = view[n] /\ x.prop = prop
        /\ x.highQC = Nil
    BY <2>6 DEF VoteMsg
  <2>9. Sent(n)
    BY <2>7, <2>8 DEF Sent
  <2>10. /\ x.type # "leader" /\ x.type # "block" /\ x.header.phase = ProposeVote
         /\ x.header.phase # ElectionVote /\ x.header.phase # PrecommitVote
    BY <1>2, <2>2, <2>8, PhaseNumbers
  <2>11. ~Outrun(view[n].height)' => ~Outrun(view[n].height)
    <3>1. PICK h : h = view[n].height /\ h = view'[n].height
      BY <2>3
    <3>2. ~Outrun(h)' => ~Outrun(h)
      BY <2>9, SentKept
    <3> QED
      BY <3>1, <3>2 DEF Outrun
  <2>12. ASSUME n \in Reliable, ~Outrun(view[n].height)
         PROVE  /\ GetBlockHash(n, data) = data.block /\ prop = data
                /\ m \in ProposeMsgs /\ SameView(m.header, view[n]) /\ m.qc.prop = prop
    <3>1. /\ m \in ProposeMsgs /\ SameView(m.header, view[n]) /\ m.qc.prop = m.qc.data
          /\ GetBlockHash(n, m.qc.data) = m.qc.data.block
      BY <1>3, <2>12, ProposalKnown
    <3>2. GetBlockHash(n, data) = data.block
      BY <2>4, <3>1
    <3>3. prop = data
      BY <2>5, <3>2, SameHash
    <3> QED
      BY <2>4, <3>1, <3>2, <3>3
  <2>13. Justified(x)'
    <3>1. ASSUME n \in Reliable, ~Outrun(x.header.height)'
          PROVE  \E q \in ProposeMsgs' : SameView(q.header, x.header) /\ q.qc.prop = x.prop
      <4>1. ~Outrun(x.header.height)
        BY <2>9, <3>1, SentKept
      <4>2. m \in ProposeMsgs /\ SameView(m.header, view[n]) /\ m.qc.prop = prop
        BY <2>8, <2>12, <3>1, <4>1
      <4>3. m \in ProposeMsgs'
        BY <2>9, <4>2, SentKept
      <4> QED
        BY <2>8, <4>2, <4>3
    <3> QED
      BY <2>8, <2>10, <3>1 DEF Justified
  <2>14. ProposeMsgs' \ ProposeMsgs = {}
         /\ VotesOf(n, ElectionVote)' \ VotesOf(n, ElectionVote) = {}
    BY <2>7, <2>10 DEF ProposeMsgs, VotesOf
  <2>15. HashCached(n)'
    <3>1. view'[n].phase = Precommit /\ ~(view'[n].phase <= Propose)
          /\ view'[n].phase # ProposeVote
      BY <1>2, <2>1, <2>3, PhaseNumbers
    <3>2. block'[n] = data /\ blockHash'[n] = GetBlockHash(n, data)
      BY <1>1, <1>5, <2>4
    <3>3. ASSUME n \in Reliable, ~Outrun(view[n].height)'
          PROVE  GetBlockHash(n, block[n])' = block'[n].block
      <4>1. GetBlockHash(n, data) = data.block
        BY <2>11, <2>12, <3>3
      <4> QED
        BY <3>2, <4>1 DEF GetBlockHash
    <3> QED
      BY <3>1, <3>3 DEF HashCached
  <2>16. NodeSafe(n)'
    BY <1>3, <2>3, <2>9, <2>15, KeepsLock
  <2>17. \A k \in Node \ {n} : SameBlocks(k)
    BY <1>1, <1>3, <1>5, <2>3 DEF SameBlocks
  <2>18. \A y \in msgs' \ msgs : Justified(y)'
    BY <2>7, <2>13
  <2> QED
    BY <2>3, <2>9, <2>14, <2>16, <2>17, <2>18, SafeStep
<1> QED
  BY <1>4, <1>5 DEF StartProposeVotePhase

\* StartPrecommitPhase and StartCommitPhase
LEMMA CertifySafe ==
  ASSUME Inv, Inv', Safe, FaultsTolerated, NEW n \in Node, NEW phase \in {5, 7}, NEW rc,
         StartCertifyPhase(n, phase, rc)
  PROVE  Safe'
<1>1. TypeOK /\ EpochCurrent(n) /\ HashCached(n)
  BY DEF Inv, NodeInv, Safe, NodeSafe
<1>2. phase \in 1 .. 9 /\ phase \in 2 .. 10
  OBVIOUS
<1>3. Expired(n, phase) /\ UNCHANGED <<highQC, chain, block, blockHash>>
  BY DEF StartCertifyPhase, ctlVars
<1>4. CASE RoundInterrupt(n)
  BY <1>3, <1>4, InterruptSafe
<1>5. ASSUME NextPhase(n), Sent(n), \A x \in msgs' \ msgs : Justified(x)',
             \A x \in msgs' \ msgs : x.type = "leader" /\ x.header.phase # Propose
      PROVE  Safe'
  <2>1. PICK p \in Nat : p = phase + 1
    OBVIOUS
  <2>2. view' = [view EXCEPT ![n].phase = p] /\ view[n].phase = phase
    BY <1>1, <1>2, <1>3, <1>5, <2>1, NextPhaseIs, Running
  <2>3. /\ view'[n].height = view[n].height /\ view'[n].phase = p /\ view[n].height \in Nat
        /\ view'[n].height >= view[n].height /\ \A k \in Node \ {n} : view'[k] = view[k]
    BY <1>1, <2>2, ViewChange
  <2>4. ProposeMsgs' \ ProposeMsgs = {}
        /\ VotesOf(n, ElectionVote)' \ VotesOf(n, ElectionVote) = {}
    BY <1>5 DEF ProposeMsgs, VotesOf
  <2>5. HashCached(n)'
    <3>1. CASE phase = 7
      BY <2>1, <2>3, <3>1, HashLate
    <3>2. CASE phase = 5
      <4>1. view'[n].phase = PrecommitVote /\ ~(view'[n].phase <= Propose)
            /\ view'[n].phase # ProposeVote /\ view[n].phase = Precommit
        BY <2>1, <2>2, <2>3, <3>2, PhaseNumbers
      <4>2. ~Outrun(view[n].height)' => ~Outrun(view[n].height)
        <5>1. PICK h : h = view[n].height /\ h = view'[n].height
          BY <2>3
        <5>2. ~Outrun(h)' => ~Outrun(h)
          BY <1>5, SentKept
        <5> QED
          BY <5>1, <5>2 DEF Outrun
      <4>3. GetBlockHash(n, block[n])' = GetBlockHash(n, block[n]) /\ block'[n] = block[n]
        BY <1>3 DEF GetBlockHash
      <4> QED
        BY <1>1, <4>1, <4>2, <4>3 DEF HashCached
    <3> QED
      BY <3>1, <3>2
  <2>6. NodeSafe(n)'
    BY <1>3, <1>5, <2>3, <2>5, KeepsLock
  <2>7. \A k \in Node \ {n} : SameBlocks(k)
    BY <1>3, <2>3 DEF SameBlocks
  <2> QED
    BY <1>5, <2>3, <2>4, <2>6, <2>7, SafeStep
<1>6. CASE NextPhase(n) /\ UNCHANGED msgs
  BY <1>5, <1>6 DEF Sent
<1>7. ASSUME NextPhase(n), NEW v \in MajorityVotes(n), Certify(n, v, rc)
      PROVE  Safe'
  <2>1. PICK q : q = Certificate(v.header, v.prop, Nil, v.proposer)
    OBVIOUS
  <2>2. PICK m : m = LeaderMsg(n, view[n], q, Nil, rc)
    OBVIOUS
  <2>3. m.type = "leader" /\ m.from = n /\ m.header = view[n] /\ m.qc = q
    BY <2>2 DEF LeaderMsg
  <2>4. q.header = v.header /\ q.prop = v.prop
    BY <2>1 DEF Certificate
  <2>5. msgs' = msgs \/ msgs' = msgs \cup {m}
    BY <1>7, <2>1, <2>2 DEF Certify, Send
  <2>6. m.type # "vote" /\ m.type # "block" /\ m.header.phase # Propose
    <3>1. view[n].phase = phase
      BY <1>3 DEF Expired
    <3> QED
      BY <2>3, <3>1, PhaseNumbers
  <2>7. Sent(n)
    BY <2>3, <2>5 DEF Sent
  <2>8. Justified(m)'
    <3>1. Backed(m.qc)
      BY <2>3, <2>4, MajorityBacked DEF Backed
    <3>2. msgs \subseteq msgs'
      BY <2>5
    <3>3. Backed(m.qc)'
      BY <3>1, <3>2, PolledKept DEF Backed
    <3> QED
      BY <2>6, <3>3 DEF Justified
  <2> QED
    BY <1>5, <1>7, <2>3, <2>5, <2>6, <2>7, <2>8
<1> QED
  BY <1>4, <1>6, <1>7 DEF StartCertifyPhase

\* A certificate with the block attached.
LEMMA AttachedHashes ==
  ASSUME NEW qc \in QCType, NEW data \in BlockType
  PROVE  [qc EXCEPT !.data = data].prop = qc.prop
<1>1. PICK new : new = [qc EXCEPT !.data = data]
  OBVIOUS
<1>2. new.prop = qc.prop
  BY <1>1 DEF QCType
<1> QED
  BY <1>1, <1>2

\* A step of n that takes a lock.
LEMMA TakesLock ==
  ASSUME Inv, Safe, NEW n \in Node, Sent(n), view'[n].height \in Nat,
         view'[n].height >= view[n].height, chain'[n] = chain[n],
         NEW qc, highQC'[n] = qc, Backed(qc), HashCached(n)', LockHeld(n)'
  PROVE  NodeSafe(n)'
<1>1. msgs \subseteq msgs' /\ ChainBacked(n)
  BY SentKept DEF Safe, NodeSafe
<1>2. ChainBacked(n)'
  BY <1>1, ChainKept
<1>3. Backed(qc)'
  BY <1>1, PolledKept DEF Backed
<1>4. LockBacked(n)'
  BY <1>3 DEF LockBacked, Backed, Polled, VotedFor
<1>5. SignedBelow(n)'
  BY SignedBelowKept
<1> QED
  BY <1>2, <1>4, <1>5 DEF NodeSafe

\* StartPrecommitVotePhase
LEMMA PrecommitVoteSafe ==
  ASSUME Inv, Inv', Safe, FaultsTolerated, NEW n \in Node, StartPrecommitVotePhase(n)
  PROVE  Safe'
<1>1. /\ TypeOK /\ DOMAIN highQC = Node /\ EpochCurrent(n) /\ \A x \in msgs : Fresh(x)
      /\ HashCached(n)
  BY DEF Inv, TypeOK, NodeInv, Safe, NodeSafe
<1>2. PICK phase \in 1 .. 9 : phase = PrecommitVote /\ phase \in 2 .. 10
  BY PhaseNumbers
<1>3. Expired(n, phase) /\ UNCHANGED <<chain, block, blockHash>>
  BY <1>2 DEF StartPrecommitVotePhase, ctlVars
<1>4. CASE RoundInterrupt(n) /\ UNCHANGED highQC
  BY <1>3, <1>4, InterruptSafe
<1>5. ASSUME NEW m \in GetProposal(n), CheckProposerAndProposal(n, m), NextPhase(n),
             highQC' = [highQC EXCEPT ![n] = [m.qc EXCEPT !.data = block[n]]],
             Send(VoteMsg(n, view[n], Hashes(n), proposerKey[n], Nil, 0))
      PROVE  Safe'
  <2>1. PICK p \in Nat : p = phase + 1
    OBVIOUS
  <2>2. view' = [view EXCEPT ![n].phase = p] /\ view[n].phase = phase
    BY <1>1, <1>3, <1>5, <2>1, NextPhaseIs, Running
  <2>3. /\ view'[n].height = view[n].height /\ view'[n].phase = p /\ view[n].height \in Nat
        /\ view'[n].height >= view[n].height /\ \A k \in Node \ {n} : view'[k] = view[k]
    BY <1>1, <2>2, ViewChange
  <2>4. PICK data \in BlockType : data = block[n]
    BY <1>1, <1>5, NodeTypes DEF CheckProposerAndProposal
  <2>5. PICK qc \in QCType : /\ qc = [m.qc EXCEPT !.data = data] /\ qc.header = m.qc.header
                             /\ qc.data = data /\ qc.prop = m.qc.prop
    <3>1. PICK q \in QCType : q = m.qc
      BY <1>1, ProposalFacts
    <3> QED
      BY <3>1, AttachedBlock, AttachedHashes
  <2>6. Hashes(n) = qc.prop /\ block[n] # Nil
    BY <1>5, <2>5 DEF CheckProposerAndProposal
  <2>7. PICK x : x = VoteMsg(n, view[n], Hashes(n), proposerKey[n], Nil, 0)
    OBVIOUS
  <2>8. msgs' = msgs \cup {x}
    BY <1>5, <2>7 DEF Send
  <2>9. /\ x.type = "vote" /\ x.from = n /\ x.header = view[n] /\ x.prop = qc.prop
        /\ x.highQC = Nil
    BY <2>6, <2>7 DEF VoteMsg
  <2>10. Sent(n)
    BY <2>8, <2>9 DEF Sent
  <2>11. /\ x.type # "leader" /\ x.type # "block" /\ x.header.phase = PrecommitVote
         /\ x.header.phase # ElectionVote /\ x.header.phase # ProposeVote
    BY <1>2, <2>2, <2>9, PhaseNumbers
  <2>12. Backed(qc) /\ qc.header.phase = ProposeVote
    <3>1. /\ m \in msgs /\ m.type = "leader" /\ m.header.phase = view[n].phase - 1
          /\ m.qc.header.phase = m.header.phase - 1
      BY <1>1, ProposalFacts
    <3>2. m.header.phase # Propose /\ m.qc.header.phase = ProposeVote
      BY <1>2, <2>2, <3>1, PhaseNumbers
    <3>3. Backed(m.qc)
      BY <3>1, <3>2 DEF Safe, Justified
    <3> QED
      BY <2>5, <3>2, <3>3 DEF Backed
  <2>13. n \in Reliable => SameView(qc.header, view[n])
    <3> SUFFICES ASSUME n \in Reliable PROVE SameView(qc.header, view[n])
      OBVIOUS
    <3>1. n \notin Preempted
      BY DEF Reliable
    <3>2. /\ m.qc.header.height = view[n].height /\ m.qc.header.rootHeight = view[n].rootHeight
          /\ m.qc.header.round = view[n].round
      BY <1>1, <1>2, <1>3, <3>1, LockHeader
    <3> QED
      BY <2>5, <3>2 DEF SameView
  <2>14. Justified(x)'
    <3>1. ASSUME n \in Reliable PROVE Polled(x.header, ProposeVote, x.prop)'
      <4>1. Polled(qc.header, ProposeVote, qc.prop)
        BY <2>12 DEF Backed
      <4>2. Polled(x.header, ProposeVote, x.prop)
        BY <2>9, <2>13, <3>1, <4>1 DEF Polled, VotedFor, SameView
      <4> QED
        BY <2>8, <4>2, PolledKept
    <3> QED
      BY <2>9, <2>11, <3>1 DEF Justified
  <2>15. ProposeMsgs' \ ProposeMsgs = {}
         /\ VotesOf(n, ElectionVote)' \ VotesOf(n, ElectionVote) = {}
    BY <2>8, <2>11 DEF ProposeMsgs, VotesOf
  <2>16. HashCached(n)'
    BY <1>2, <2>1, <2>3, HashLate, PhaseNumbers
  <2>17. highQC'[n] = qc /\ \A k \in Node \ {n} : highQC'[k] = highQC[k]
    BY <1>1, <1>5, <2>4, <2>5
  <2>18. LockHeld(n)'
    <3>1. ASSUME n \in Reliable
          PROVE  /\ highQC'[n].header.height <= view'[n].height
                 /\ ~Outrun(highQC[n].header.height)' => highQC'[n].data = highQC'[n].prop
      <4>1. PICK h \in Nat : h = qc.header.height /\ h = view'[n].height /\ h = view[n].height
        BY <2>3, <2>13, <3>1 DEF SameView
      <4>2. ASSUME ~Outrun(highQC[n].header.height)' PROVE data = qc.prop
        <5>1. ~Outrun(h)'
          BY <2>17, <4>1, <4>2 DEF Outrun
        <5>2. ~Outrun(view[n].height)
          BY <2>10, <4>1, <5>1, SentKept
        <5>3. GetBlockHash(n, data) = data.block
          BY <1>1, <1>2, <2>2, <2>4, <2>6, <3>1, <5>2 DEF HashCached
        <5>4. Hashes(n) = [block |-> data.block, results |-> data.results]
          BY <2>4, <2>6, <5>3 DEF Hashes
        <5>5. [block |-> data.block, results |-> data.results] = data
          BY DEF BlockType
        <5> QED
          BY <2>6, <5>4, <5>5
      <4> QED
        BY <2>5, <2>17, <4>1, <4>2
    <3> QED
      BY <3>1 DEF LockHeld
  <2>19. NodeSafe(n)'
    BY <1>3, <2>3, <2>10, <2>12, <2>16, <2>17, <2>18, TakesLock
  <2>20. \A k \in Node \ {n} : SameBlocks(k)
    BY <1>3, <2>3, <2>17 DEF SameBlocks
  <2>21. \A y \in msgs' \ msgs : Justified(y)'
    BY <2>8, <2>14
  <2> QED
    BY <2>3, <2>10, <2>15, <2>19, <2>20, <2>21, SafeStep
<1> QED
  BY <1>4, <1>5 DEF StartPrecommitVotePhase

\* StartCommitProcessPhase
LEMMA CommitProcessSafe ==
  ASSUME Inv, Inv', Safe, FaultsTolerated, NEW n \in Node, StartCommitProcessPhase(n)
  PROVE  Safe'
<1>1. TypeOK
  BY DEF Inv
<1>2. PICK phase \in 1 .. 9 : phase = CommitProcess
  BY PhaseNumbers
<1>3. Expired(n, phase) /\ UNCHANGED <<highQC, chain, block, blockHash>>
  BY <1>2 DEF StartCommitProcessPhase, ctlVars
<1>4. CASE RoundInterrupt(n)
  BY <1>3, <1>4, InterruptSafe
<1>5. ASSUME NEW m \in GetProposal(n), CheckProposerAndProposal(n, m), UNCHANGED view,
             Send(BlockMsg([m.qc EXCEPT !.data = block[n]]))
      PROVE  Safe'
  <2>1. view[n].phase = phase /\ view[n].height \in Nat /\ view[n] \in ViewType
    BY <1>1, <1>3, NodeTypes, ViewFields DEF Expired
  <2>2. PICK data \in BlockType : data = block[n]
    BY <1>1, <1>5, NodeTypes DEF CheckProposerAndProposal
  <2>3. PICK qc \in QCType : /\ qc = [m.qc EXCEPT !.data = data] /\ qc.header = m.qc.header
                             /\ qc.prop = m.qc.prop
    <3>1. PICK q \in QCType : q = m.qc
      BY <1>1, ProposalFacts
    <3> QED
      BY <3>1, AttachedBlock, AttachedHashes
  <2>4. PICK x : x = BlockMsg(qc)
    OBVIOUS
  <2>5. x.type = "block" /\ x.qc = qc /\ x.type # "vote" /\ x.type # "leader"
    BY <2>4 DEF BlockMsg
  <2>6. msgs' = msgs \cup {x}
    BY <1>5, <2>2, <2>3, <2>4 DEF Send
  <2>7. Sent(n)
    BY <2>5, <2>6 DEF Sent
  <2>8. Backed(qc)
    <3>1. m \in msgs /\ m.type = "leader" /\ m.header.phase = view[n].phase - 1
      BY <1>1, ProposalFacts
    <3>2. m.header.phase # Propose
      BY <1>2, <2>1, <3>1, PhaseNumbers
    <3>3. Backed(m.qc)
      BY <3>1, <3>2 DEF Safe, Justified
    <3> QED
      BY <2>3, <3>3 DEF Backed
  <2>9. Justified(x)'
    <3>1. Backed(x.qc)'
      BY <2>5, <2>6, <2>8, PolledKept DEF Backed
    <3> QED
      BY <2>5, <3>1 DEF Justified
  <2>10. ProposeMsgs' \ ProposeMsgs = {}
         /\ VotesOf(n, ElectionVote)' \ VotesOf(n, ElectionVote) = {}
    BY <2>5, <2>6 DEF ProposeMsgs, VotesOf
  <2>11. HashCached(n)'
    BY <1>2, <1>5, <2>1, HashLate, PhaseNumbers
  <2>12. view'[n].height \in Nat /\ view'[n].height >= view[n].height
    BY <1>5, <2>1
  <2>13. NodeSafe(n)'
    BY <1>3, <2>7, <2>11, <2>12, KeepsLock
  <2>14. \A k \in Node \ {n} : SameBlocks(k)
    BY <1>3, <1>5 DEF SameBlocks
  <2>15. \A y \in msgs' \ msgs : Justified(y)'
    BY <2>6, <2>9
  <2> QED
    BY <2>7, <2>10, <2>12, <2>13, <2>14, <2>15, SafeStep
<1> QED
  BY <1>4, <1>5 DEF StartCommitProcessPhase

-----------------------------------------------------------------------------
(* New rounds, the controller, restart. *)

\* A step that takes n to the next height of its chain and clears the block.
LEMMA RoundSafe ==
  ASSUME Inv, Inv', Safe, FaultsTolerated, NEW n \in Node, UNCHANGED <<chain, msgs>>,
         view'[n].height = ChainHeight(n), view'[n].phase \in 0 .. 4, blockHash'[n] = Nil,
         highQC'[n] = highQC[n] \/ highQC'[n] = Nil, \A k \in Node \ {n} : SameBlocks(k)
  PROVE  Safe'
<1>1. TypeOK /\ ViewReached(n)
  BY DEF Inv, NodeInv
<1>2. ChainHeight(n) \in Nat /\ view[n] \in ViewType
  BY <1>1, NodeTypes
<1>3. view'[n].height \in Nat /\ view'[n].height >= view[n].height
  BY <1>1, <1>2, ViewFields DEF ViewReached
<1>4. HashCached(n)'
  BY HashEarly
<1>5. Sent(n)
  BY DEF Sent
<1>6. NodeSafe(n)'
  BY <1>3, <1>4, <1>5, KeepsLock
<1> QED
  BY <1>3, <1>6, QuietSafe

\* What NewRound leaves of the others, and its phase.
LEMMA NewRoundBlocks ==
  ASSUME TypeOK, NEW n \in Node, NEW r \in 0 .. MaxRound, NewRound(n, r), UNCHANGED chain,
         \A k \in Node \ {n} : highQC'[k] = highQC[k]
  PROVE  /\ view'[n].height = ChainHeight(n) /\ view'[n].phase \in 0 .. 4 /\ blockHash'[n] = Nil
         /\ \A k \in Node \ {n} : SameBlocks(k)
<1>1. block \in [Node -> BlockType \cup {Nil}] /\ blockHash \in [Node -> HashType \cup {Nil}]
  BY DEF TypeOK
<1>2. /\ block' = [block EXCEPT ![n] = Nil] /\ blockHash' = [blockHash EXCEPT ![n] = Nil]
  BY DEF NewRound
<1>3. /\ view'[n].height = ChainHeight(n) /\ view'[n].phase = Election
      /\ \A k \in Node \ {n} : view'[k] = view[k]
  BY NewRoundViews
<1> QED
  BY <1>1, <1>2, <1>3, PhaseNumbers DEF SameBlocks

\* Pacemaker
LEMMA PacemakerSafe ==
  ASSUME Inv, Inv', Safe, FaultsTolerated, NEW n \in Node, Pacemaker(n)
  PROVE  Safe'
<1>1. TypeOK /\ UNCHANGED <<chain, msgs, highQC>>
  BY DEF Inv, Pacemaker, ctlVars
<1>2. PICK r \in view[n].round + 1 .. MaxRound : NewRound(n, r)
  BY DEF Pacemaker
<1>3. r \in 0 .. MaxRound
  <2>1. view[n].round \in Nat
    BY <1>1, NodeTypes, ViewFields
  <2> QED
    BY <2>1, Bounds
<1>4. /\ view'[n].height = ChainHeight(n) /\ view'[n].phase \in 0 .. 4 /\ blockHash'[n] = Nil
      /\ \A k \in Node \ {n} : SameBlocks(k)
  BY <1>1, <1>2, <1>3, NewRoundBlocks
<1> QED
  BY <1>1, <1>4, RoundSafe

\* ResetBFT
LEMMA ResetSafe ==
  ASSUME Inv, Inv', Safe, FaultsTolerated, NEW n \in Node, ResetBFT(n)
  PROVE  Safe'
<1>1. TypeOK /\ DOMAIN highQC = Node /\ UNCHANGED <<chain, msgs>>
  BY DEF Inv, TypeOK, ResetBFT
<1>2. NewRound(n, 0)
  BY DEF ResetBFT, NewHeight
<1>3. highQC' = highQC \/ highQC' = [highQC EXCEPT ![n] = Nil]
  BY DEF ResetBFT, NewHeight
<1>4. /\ \A k \in Node \ {n} : highQC'[k] = highQC[k]
      /\ highQC'[n] = highQC[n] \/ highQC'[n] = Nil
  BY <1>1, <1>3
<1>5. PICK r \in 0 .. MaxRound : r = 0
  BY Bounds
<1>6. NewRound(n, r)
  BY <1>2, <1>5
<1>7. /\ view'[n].height = ChainHeight(n) /\ view'[n].phase \in 0 .. 4 /\ blockHash'[n] = Nil
      /\ \A k \in Node \ {n} : SameBlocks(k)
  BY <1>1, <1>4, <1>6, NewRoundBlocks
<1> QED
  BY <1>1, <1>4, <1>7, RoundSafe

\* Restart
LEMMA RestartSafe ==
  ASSUME Inv, Inv', Safe, FaultsTolerated, NEW n \in Node, Restart(n)
  PROVE  Safe'
<1>1. /\ TypeOK /\ DOMAIN highQC = Node /\ view \in [Node -> ViewType]
      /\ block \in [Node -> BlockType \cup {Nil}] /\ blockHash \in [Node -> HashType \cup {Nil}]
  BY DEF Inv, TypeOK
<1>2. PICK v : v = [height |-> ChainHeight(n), rootHeight |-> rootHeight[n],
                    round |-> 0, phase |-> Unknown]
  OBVIOUS
<1>3. v.height = ChainHeight(n) /\ v.phase \in 0 .. 4
  BY <1>2, PhaseNumbers
<1>4. /\ view' = [view EXCEPT ![n] = v] /\ block' = [block EXCEPT ![n] = Nil]
      /\ blockHash' = [blockHash EXCEPT ![n] = Nil] /\ highQC' = [highQC EXCEPT ![n] = Nil]
      /\ UNCHANGED <<chain, msgs>>
  BY <1>2 DEF Restart
<1>5. /\ view'[n].height = ChainHeight(n) /\ view'[n].phase \in 0 .. 4 /\ blockHash'[n] = Nil
      /\ highQC'[n] = Nil
  BY <1>1, <1>3, <1>4
<1>6. \A k \in Node \ {n} : SameBlocks(k)
  BY <1>1, <1>4 DEF SameBlocks
<1> QED
  BY <1>4, <1>5, <1>6, RoundSafe

\* AdoptHighQC: the lock of a vote has a majority behind it and its block attached.
LEMMA AdoptSafe ==
  ASSUME Inv, Inv', Safe, FaultsTolerated, NEW n \in Node, NEW m \in msgs, AdoptHighQC(n, m)
  PROVE  Safe'
<1>1. /\ TypeOK /\ DOMAIN highQC = Node /\ block \in [Node -> BlockType \cup {Nil}]
      /\ HashCached(n) /\ view[n] \in ViewType
  BY NodeTypes DEF Inv, TypeOK, Safe, NodeSafe
<1>2. /\ highQC' = [highQC EXCEPT ![n] = m.highQC] /\ block' = [block EXCEPT ![n] = Nil]
      /\ UNCHANGED <<view, blockHash, chain, msgs>>
  BY DEF AdoptHighQC, ctlVars
<1>3. /\ m.type = "vote" /\ m.highQC # Nil /\ CheckBasic(m.highQC)
      /\ m.highQC.header.height = view[n].height
  BY DEF AdoptHighQC, HigherLock, CheckHighQC
<1>4. PICK qc : qc = m.highQC
  OBVIOUS
<1>5. Backed(qc)
  BY <1>3, <1>4 DEF Safe, Justified
<1>6. IsLock(qc)
  BY <1>1, <1>3, <1>4 DEF TypeOK, MessageOK
<1>7. qc.data = qc.prop
  BY <1>3, <1>4, <1>6, NilAssumption DEF CheckBasic, IsLock
<1>8. highQC'[n] = qc /\ block'[n] = Nil /\ blockHash'[n] = blockHash[n]
  BY <1>1, <1>2, <1>4
<1>9. view[n].height \in Nat /\ view'[n].height >= view[n].height /\ view'[n] = view[n]
  BY <1>1, <1>2, ViewFields
<1>10. LockHeld(n)'
  BY <1>3, <1>4, <1>7, <1>8, <1>9 DEF LockHeld
<1>11. HashCached(n)'
  <2>1. Outrun(view[n].height)' <=> Outrun(view[n].height)
    BY <1>2 DEF Outrun
  <2>2. ProposeMsgs' = ProposeMsgs
    BY <1>2 DEF ProposeMsgs
  <2> QED
    BY <1>1, <1>8, <1>9, <2>1, <2>2 DEF HashCached
<1>12. Sent(n)
  BY <1>2 DEF Sent
<1>13. NodeSafe(n)'
  BY <1>2, <1>5, <1>8, <1>9, <1>10, <1>11, <1>12, TakesLock
<1>14. \A k \in Node \ {n} : SameBlocks(k)
  BY <1>1, <1>2 DEF SameBlocks
<1> QED
  BY <1>2, <1>9, <1>13, <1>14, QuietSafe

\* A certified block more in the chain of n.
LEMMA ChainSafe ==
  ASSUME Inv, Inv', Safe, FaultsTolerated, NEW n \in Node,
         UNCHANGED <<view, highQC, block, blockHash, msgs>>,
         NEW qc, qc.header.height = ChainHeight(n), qc.header.phase = PrecommitVote, Backed(qc),
         chain' = [chain EXCEPT ![n] = Append(@, qc)]
  PROVE  Safe'
<1>1. /\ TypeOK /\ DOMAIN chain = Node /\ chain[n] \in Seq(ToSet(chain[n]))
      /\ NodeSafe(n) /\ view[n] \in ViewType
  BY NodeTypes DEF Inv, TypeOK, Safe
<1>2. PICK s : s = chain[n]
  OBVIOUS
<1>3. PICK t : t = Append(s, qc)
  OBVIOUS
<1>4. /\ Len(s) \in Nat /\ Len(t) = Len(s) + 1 /\ t[Len(s) + 1] = qc
      /\ \A h \in 1 .. Len(s) : t[h] = s[h]
  <2>1. PICK S : S = ToSet(s) \cup {qc}
    OBVIOUS
  <2>2. s \in Seq(S) /\ qc \in S
    BY <1>1, <1>2, <2>1
  <2> QED
    BY <1>3, <2>2
<1>5. chain'[n] = t /\ \A k \in Node \ {n} : chain'[k] = chain[k]
  BY <1>1, <1>2, <1>3
<1>6. ChainHeight(n) = Len(s) + 1
  BY <1>2 DEF ChainHeight
<1>7. ASSUME NEW h \in 1 .. Len(t)
      PROVE  t[h].header.height = h /\ t[h].header.phase = PrecommitVote /\ Backed(t[h])
  <2>1. CASE h \in 1 .. Len(s)
    BY <1>1, <1>2, <1>4, <2>1 DEF NodeSafe, ChainBacked
  <2>2. CASE h = Len(s) + 1
    BY <1>4, <1>6, <2>2
  <2> QED
    BY <1>4, <2>1, <2>2
<1>8. ChainBacked(n)'
  <2> SUFFICES ASSUME NEW h \in 1 .. Len(chain'[n])
               PROVE  /\ chain'[n][h].header.height = h
                      /\ chain'[n][h].header.phase = PrecommitVote
                      /\ Backed(chain[n][h])'
    BY DEF ChainBacked
  <2>1. PICK c : c = t[h] /\ c = chain'[n][h]
    BY <1>5
  <2>2. c.header.height = h /\ c.header.phase = PrecommitVote /\ Backed(c)
    BY <1>5, <1>7, <2>1
  <2>3. Backed(c)'
    BY <2>2, PolledKept DEF Backed
  <2>4. Backed(chain[n][h])'
    BY <2>1, <2>3 DEF Backed, Polled, VotedFor
  <2> QED
    BY <2>1, <2>2, <2>4
<1>9. LockBacked(n)'
  BY <1>1 DEF NodeSafe, LockBacked, Backed, Polled, VotedFor, VotesOf
<1>10. HashCached(n)'
  BY <1>1 DEF NodeSafe, HashCached, ProposeMsgs, Outrun, GetBlockHash
<1>11. LockHeld(n)' /\ SignedBelow(n)'
  BY <1>1 DEF NodeSafe, LockHeld, SignedBelow, SignedBy, Outrun
<1>12. NodeSafe(n)'
  BY <1>8, <1>9, <1>10, <1>11 DEF NodeSafe
<1>13. \A k \in Node \ {n} : SameBlocks(k)
  BY <1>5 DEF SameBlocks
<1>14. view'[n].height >= view[n].height
  BY <1>1, ViewFields
<1> QED
  BY <1>12, <1>13, <1>14, QuietSafe

\* HandlePeerBlock
LEMMA PeerBlockSafe ==
  ASSUME Inv, Inv', Safe, FaultsTolerated, NEW n \in Node, NEW m \in msgs, HandlePeerBlock(n, m)
  PROVE  Safe'
<1>1. /\ m.type = "block" /\ m.qc.header.phase = PrecommitVote
      /\ m.qc.header.height = ChainHeight(n) /\ chain' = [chain EXCEPT ![n] = Append(@, m.qc)]
      /\ UNCHANGED <<view, highQC, block, blockHash, msgs>>
  BY DEF HandlePeerBlock, bftVars
<1>2. PICK qc : qc = m.qc
  OBVIOUS
<1>3. Backed(qc)
  BY <1>1, <1>2 DEF Safe, Justified
<1>4. /\ qc.header.phase = PrecommitVote /\ qc.header.height = ChainHeight(n)
      /\ chain' = [chain EXCEPT ![n] = Append(@, qc)]
  BY <1>1, <1>2
<1> QED
  BY <1>1, <1>3, <1>4, ChainSafe

\* SyncBlock
LEMMA SyncBlockSafe ==
  ASSUME Inv, Inv', Safe, FaultsTolerated, NEW n \in Node, NEW p \in Node, SyncBlock(n, p)
  PROVE  Safe'
<1>1. /\ Len(chain[p]) >= ChainHeight(n)
      /\ chain' = [chain EXCEPT ![n] = Append(@, chain[p][ChainHeight(n)])]
      /\ UNCHANGED <<view, highQC, block, blockHash, msgs>>
  BY DEF SyncBlock, bftVars
<1>2. ChainHeight(n) \in 1 .. Len(chain[p])
  <2>1. TypeOK
    BY DEF Inv
  <2>2. ChainHeight(n) \in 1 .. MaxHeight + 1 /\ Len(chain[p]) \in 0 .. MaxHeight
    BY <2>1, NodeTypes
  <2> QED
    BY <1>1, <2>2, Bounds
<1>3. PICK qc : qc = chain[p][ChainHeight(n)]
  OBVIOUS
<1>4. /\ qc.header.phase = PrecommitVote /\ qc.header.height = ChainHeight(n) /\ Backed(qc)
  BY <1>2, <1>3 DEF Safe, NodeSafe, ChainBacked
<1>5. chain' = [chain EXCEPT ![n] = Append(@, qc)]
  BY <1>1, <1>3
<1> QED
  BY <1>1, <1>4, <1>5, ChainSafe

-----------------------------------------------------------------------------
(* The second invariant. *)

\* Nothing is signed or locked when height 1 starts.
LEMMA InitSafe ==
  ASSUME Init
  PROVE  Safe
<1>1. msgs = {}
  BY DEF Init
<1>2. ASSUME NEW n \in Node
      PROVE  highQC[n] = Nil /\ chain[n] = <<>> /\ blockHash[n] = Nil /\ view[n].phase = 1
  BY PhaseNumbers DEF Init
<1>3. LocksSent /\ ProposalsSafe
  BY <1>1 DEF LocksSent, ProposalsSafe, VotesOf, ProposeMsgs
<1>4. ASSUME NEW n \in Node PROVE NodeSafe(n)
  <2>1. LockBacked(n) /\ LockHeld(n)
    BY <1>2 DEF LockBacked, LockHeld
  <2>2. ChainBacked(n)
    <3>1. Len(chain[n]) = 0
      BY <1>2
    <3> QED
      BY <3>1 DEF ChainBacked
  <2>3. HashCached(n)
    BY <1>2, PhaseNumbers DEF HashCached
  <2>4. SignedBelow(n)
    BY <1>1 DEF SignedBelow, SignedBy
  <2> QED
    BY <2>1, <2>2, <2>3, <2>4 DEF NodeSafe
<1>5. \A h : ~Outrun(h)
  BY <1>1 DEF Outrun
<1> QED
  BY <1>1, <1>3, <1>4, <1>5 DEF Safe

\* Every step keeps the second invariant.
LEMMA NextSafe ==
  ASSUME Inv, Inv', Safe, FaultsTolerated, [Next]_vars
  PROVE  Safe'
<1>1. CASE UNCHANGED vars
  BY <1>1, IdleSafe DEF vars, bftVars, ctlVars
<1>2. ASSUME NEW n \in Node, HandlePhase(n) PROVE Safe'
  <2>1. CASE StartPrecommitPhase(n)
    <3>1. PICK phase \in {5, 7} : phase = Precommit
      BY PhaseNumbers
    <3>2. PICK rc : rc = rcBuildHeight[n]
      OBVIOUS
    <3>3. StartCertifyPhase(n, phase, rc)
      BY <2>1, <3>1, <3>2 DEF StartPrecommitPhase
    <3> QED
      BY <3>3, CertifySafe
  <2>2. CASE StartCommitPhase(n)
    <3>1. PICK phase \in {5, 7} : phase = Commit
      BY PhaseNumbers
    <3>2. PICK rc : rc = 0
      OBVIOUS
    <3>3. StartCertifyPhase(n, phase, rc)
      BY <2>2, <3>1, <3>2 DEF StartCommitPhase
    <3> QED
      BY <3>3, CertifySafe
  <2>3. CASE PausePhase(n)
    BY <2>3, IdleSafe DEF PausePhase, ctlVars
  <2> QED
    BY <1>2, <2>1, <2>2, <2>3, ElectionSafe, ElectionVoteSafe, ProposeSafe, ProposeVoteSafe,
       PrecommitVoteSafe, CommitProcessSafe, PacemakerSafe DEF HandlePhase
<1>3. ASSUME NEW n \in Node, Controller(n) PROVE Safe'
  <2>1. ASSUME NEW m \in msgs, StartSync(n, m) PROVE Safe'
    BY <2>1, IdleSafe DEF StartSync, bftVars
  <2>2. CASE FinishSync(n) \/ UpdateRootChainInfo(n)
    BY <2>2, IdleSafe DEF FinishSync, UpdateRootChainInfo, bftVars
  <2> QED
    BY <1>3, <2>1, <2>2, AdoptSafe, PeerBlockSafe, SyncBlockSafe DEF Controller
<1>4. ASSUME NEW n \in Node, ResetBFT(n) \/ Restart(n) PROVE Safe'
  BY <1>4, ResetSafe, RestartSafe
<1> QED
  BY <1>1, <1>2, <1>3, <1>4 DEF Next

\* The second invariant holds of every run of a committee that tolerates its faults.
LEMMA SafeInvariant ==
  ASSUME FaultsTolerated
  PROVE  Spec => [](Inv /\ Safe)
<1>1. Init => Safe
  BY InitSafe
<1>2. Inv /\ Inv' /\ Safe /\ [Next]_vars => Safe'
  BY NextSafe
<1> QED
  BY <1>1, <1>2, Invariant, PTL DEF Spec

\* Two certificates of PRECOMMIT-VOTEs of one height are for one proposal.
LEMMA CertificatesAgree ==
  ASSUME Inv, Safe, FaultsTolerated, NEW p, NEW q, p.header.height = q.header.height,
         p.header.phase = PrecommitVote, q.header.phase = PrecommitVote, Backed(p), Backed(q)
  PROVE  p.prop = q.prop
<1>1. TypeOK
  BY DEF Inv
<1>2. PICK Q \in Maj23 : \A n \in Q : VotedFor(n, p.header, PrecommitVote, p.prop)
  BY DEF Backed, Polled
<1>3. PICK R \in Maj23 : \A n \in R : VotedFor(n, q.header, PrecommitVote, q.prop)
  BY DEF Backed, Polled
<1>4. PICK h : h = p.header.height /\ h = q.header.height
  OBVIOUS
<1>5. PICK n : n \in Q /\ n \in R
  BY Intersect
<1>6. PICK x \in VotesOf(n, PrecommitVote) : SameView(x.header, p.header) /\ x.prop = p.prop
  BY <1>2, <1>5 DEF VotedFor
<1>7. PICK y \in VotesOf(n, PrecommitVote) : SameView(y.header, q.header) /\ y.prop = q.prop
  BY <1>3, <1>5 DEF VotedFor
<1>8. /\ x.header \in HeaderType /\ y.header \in HeaderType
      /\ x.prop \in BlockType \cup {Nil} /\ y.prop \in BlockType \cup {Nil}
  BY <1>1, MessageFields
<1>9. x.header.height = h /\ y.header.height = h /\ h \in 1 .. MaxHeight
  BY <1>4, <1>6, <1>7, <1>8, HeaderFields DEF SameView
<1>10. PICK S \in Maj23 : OneDecision(h, S)
  <2>1. CASE Outrun(h)
    BY <1>9, <2>1 DEF Safe, Frozen
  <2>2. CASE ~Outrun(h)
    BY <2>2, Undecided
  <2> QED
    BY <2>1, <2>2
<1>11. \A k \in Q \cap S : VotedFor(k, x.header, PrecommitVote, x.prop)
  BY <1>2, <1>6 DEF VotedFor, SameView
<1>12. \A k \in R \cap S : VotedFor(k, y.header, PrecommitVote, y.prop)
  BY <1>3, <1>7 DEF VotedFor, SameView
<1>13. x.prop = y.prop
  BY <1>8, <1>9, <1>10, <1>11, <1>12 DEF OneDecision
<1> QED
  BY <1>6, <1>7, <1>13

\* No two validators commit different proposals at a height, through any new rounds,
\* root-chain updates, syncs and lost or late messages, as long as the faults are tolerated
\* (HighQC, StartPrecommitVotePhase, CommitCertificate).
THEOREM AgreementHolds == FaultsTolerated => (Spec => []Agreement)
<1> SUFFICES ASSUME FaultsTolerated PROVE Spec => []Agreement
  OBVIOUS
<1>1. ASSUME Inv, Safe PROVE Agreement
  <2> SUFFICES ASSUME NEW x \in Node, NEW y \in Node,
                      NEW h \in 1 .. Min({Len(chain[x]), Len(chain[y])})
               PROVE  chain[x][h].prop = chain[y][h].prop
    BY DEF Agreement
  <2>1. Len(chain[x]) \in Nat /\ Len(chain[y]) \in Nat
    BY <1>1, NodeTypes DEF Inv
  <2>2. h \in 1 .. Len(chain[x]) /\ h \in 1 .. Len(chain[y])
    <3>1. PICK a, b : a = Len(chain[x]) /\ b = Len(chain[y])
      OBVIOUS
    <3>2. Min({a, b}) \in {a, b} /\ Min({a, b}) <= a /\ Min({a, b}) <= b
      BY <2>1, <3>1 DEF Min
    <3> QED
      BY <2>1, <3>1, <3>2
  <2>3. PICK p, q : p = chain[x][h] /\ q = chain[y][h]
    OBVIOUS
  <2>4. /\ p.header.height = h /\ p.header.phase = PrecommitVote /\ Backed(p)
        /\ q.header.height = h /\ q.header.phase = PrecommitVote /\ Backed(q)
    BY <1>1, <2>2, <2>3 DEF Safe, NodeSafe, ChainBacked
  <2>5. p.prop = q.prop
    BY <1>1, <2>4, CertificatesAgree
  <2> QED
    BY <2>3, <2>5
<1> QED
  BY <1>1, SafeInvariant, PTL

\* Once +2/3 have signed a PRECOMMIT-VOTE, every later PROPOSE message of that height carries
\* the same proposal: a leader hears of the lock from the majority that elects it, and takes
\* it over (AddVote, StartProposePhase).
THEOREM LaterProposalsHold == FaultsTolerated => (Spec => []LaterProposalsSafe)
<1> SUFFICES ASSUME FaultsTolerated PROVE Spec => []LaterProposalsSafe
  OBVIOUS
<1>1. ASSUME Inv, Safe PROVE LaterProposalsSafe
  <2> SUFFICES ASSUME NEW m \in msgs, m.type = "leader", m.header.phase = Propose,
                      ~Outrun(m.header.height), NEW p \in Certified(PrecommitVote),
                      p.header.height = m.header.height, Less(p.header, m.header)
               PROVE  m.qc.prop = p.prop
    BY DEF LaterProposalsSafe
  <2>1. TypeOK /\ m \in ProposeMsgs
    BY <1>1 DEF Inv, ProposeMsgs
  <2>2. PICK y \in msgs : y.type = "vote" /\ y.header.phase = PrecommitVote /\ p = Payload(y)
    BY DEF Certified
  <2>3. PICK h \in HeaderType : h = p.header /\ h.phase = PrecommitVote
    <3>1. y.header \in HeaderType
      BY <2>1, <2>2 DEF TypeOK, MessageOK
    <3> QED
      BY <2>2, <3>1 DEF Payload
  <2>4. PICK g \in HeaderType : g = m.header
    BY <2>1, MessageFields
  <2>5. Before(h, g)
    <3>1. h.height \in Nat /\ h.rootHeight \in Nat /\ h.round \in Nat /\ h.phase = 6
      BY <2>3, HeaderFields, PhaseNumbers
    <3>2. g.height \in Nat /\ g.rootHeight \in Nat /\ g.round \in Nat /\ g.phase = 3
      BY <2>4, HeaderFields, PhaseNumbers
    <3>3. Less(h, g) /\ h.height = g.height
      BY <2>3, <2>4
    <3> QED
      BY <3>1, <3>2, <3>3 DEF Less, Before
  <2>6. SafeAt(m.qc.prop, h)
    BY <1>1, <2>1, <2>4, <2>5 DEF Safe, ProposalsSafe
  <2>7. PICK Q \in Maj23 : \A n \in Q \cap Reliable :
          \A x \in VotesOf(n, PrecommitVote) : SameView(x.header, h) => x.prop = m.qc.prop
    BY <2>6 DEF SafeAt
  <2>8. PICK R \in Maj23 : R = Signers(p)
    BY DEF Certified
  <2>9. PICK n \in Reliable : n \in Q /\ n \in R
    BY Intersect
  <2>10. PICK x \in msgs : x.type = "vote" /\ Payload(x) = p /\ x.from = n
    BY <2>8, <2>9 DEF Signers
  <2>11. x.header = p.header /\ x.prop = p.prop
    BY <2>10 DEF Payload
  <2>12. x \in VotesOf(n, PrecommitVote) /\ SameView(x.header, h)
    BY <2>3, <2>10, <2>11 DEF VotesOf, SameView
  <2> QED
    BY <2>7, <2>9, <2>11, <2>12
<1> QED
  BY <1>1, SafeInvariant, PTL

-----------------------------------------------------------------------------
(* Which faults are tolerated. *)

\* The powers of the members of A, and 0 for the others.
Part(A) == [x \in Node |-> IF x \in A THEN Power[x] ELSE 0]

\* The power of A, as a sum over the committee.
LEMMA PartSum ==
  ASSUME NEW A \in SUBSET Node
  PROVE  /\ PowerOf(A) = SumFunctionOnSet(Part(A), Node) /\ PowerOf(A) \in Nat
         /\ \A x \in Node : Part(A)[x] \in Int
<1>1. IsFiniteSet(Node) /\ \A x \in Node : Power[x] \in Nat /\ Power[x] \in Int
  BY CommitteeAssumption
<1>2. PICK e : e = Part(A)
  OBVIOUS
<1>3. (\A x \in A : e[x] = Power[x]) /\ (\A x \in Node \ A : e[x] = 0) /\ \A x \in Node : e[x] \in Int
  BY <1>1, <1>2 DEF Part
<1>4. SumFunctionOnSet(e, Node) = SumFunctionOnSet(Power, A)
  BY <1>1, <1>3, SumOfPart
<1>5. IsFiniteSet(A)
  BY <1>1, FS_Subset
<1>6. SumFunctionOnSet(Power, A) \in Nat
  BY <1>1, <1>5, SumNat
<1> QED
  BY <1>2, <1>3, <1>4, <1>6 DEF PowerOf

\* If three sets have no reliable member in common, their powers add up to at most twice that
\* of the committee and once that of the others.
LEMMA ThreeParts ==
  ASSUME NEW Q \in SUBSET Node, NEW R \in SUBSET Node, NEW S \in SUBSET Node,
         NEW F \in SUBSET Node, Q \cap R \cap S \subseteq F
  PROVE  PowerOf(Q) + PowerOf(R) + PowerOf(S) <= PowerOf(Node) + PowerOf(Node) + PowerOf(F)
<1>1. IsFiniteSet(Node) /\ \A x \in Node : Power[x] \in Nat
  BY CommitteeAssumption
<1>2. PICK q, r, s, f, w : /\ q = Part(Q) /\ r = Part(R) /\ s = Part(S) /\ f = Part(F)
                           /\ w = Part(Node)
  OBVIOUS
<1>3. ASSUME NEW x \in Node
      PROVE  /\ q[x] \in Int /\ r[x] \in Int /\ s[x] \in Int /\ f[x] \in Int /\ w[x] \in Int
             /\ q[x] + r[x] + s[x] <= w[x] + w[x] + f[x]
  <2>1. Power[x] \in Nat
    BY <1>1
  <2>2. /\ q[x] = (IF x \in Q THEN Power[x] ELSE 0) /\ r[x] = (IF x \in R THEN Power[x] ELSE 0)
        /\ s[x] = (IF x \in S THEN Power[x] ELSE 0) /\ f[x] = (IF x \in F THEN Power[x] ELSE 0)
        /\ w[x] = Power[x]
    BY <1>2 DEF Part
  <2> QED
    BY <2>1, <2>2
<1>4. PICK qr, qrs, ww, wwf :
        /\ qr = [x \in Node |-> q[x] + r[x]] /\ qrs = [x \in Node |-> qr[x] + s[x]]
        /\ ww = [x \in Node |-> w[x] + w[x]] /\ wwf = [x \in Node |-> ww[x] + f[x]]
  OBVIOUS
<1>5. ASSUME NEW x \in Node
      PROVE  /\ qr[x] = q[x] + r[x] /\ qrs[x] = qr[x] + s[x] /\ ww[x] = w[x] + w[x]
             /\ wwf[x] = ww[x] + f[x]
  BY <1>4
<1>6. ASSUME NEW x \in Node
      PROVE  /\ qr[x] \in Int /\ qrs[x] \in Int /\ ww[x] \in Int /\ wwf[x] \in Int
             /\ qrs[x] <= wwf[x]
  BY <1>3, <1>5
<1>7. SumFunctionOnSet(qr, Node) = SumFunctionOnSet(q, Node) + SumFunctionOnSet(r, Node)
  BY <1>1, <1>3, <1>5, SumPlus
<1>8. SumFunctionOnSet(qrs, Node) = SumFunctionOnSet(qr, Node) + SumFunctionOnSet(s, Node)
  BY <1>1, <1>3, <1>5, <1>6, SumPlus
<1>9. SumFunctionOnSet(ww, Node) = SumFunctionOnSet(w, Node) + SumFunctionOnSet(w, Node)
  BY <1>1, <1>3, <1>5, SumPlus
<1>10. SumFunctionOnSet(wwf, Node) = SumFunctionOnSet(ww, Node) + SumFunctionOnSet(f, Node)
  BY <1>1, <1>3, <1>5, <1>6, SumPlus
<1>11. SumFunctionOnSet(qrs, Node) <= SumFunctionOnSet(wwf, Node)
  BY <1>1, <1>6, SumMonotone
<1>12. /\ PowerOf(Q) = SumFunctionOnSet(q, Node) /\ PowerOf(R) = SumFunctionOnSet(r, Node)
       /\ PowerOf(S) = SumFunctionOnSet(s, Node) /\ PowerOf(F) = SumFunctionOnSet(f, Node)
       /\ PowerOf(Node) = SumFunctionOnSet(w, Node)
  BY <1>2, PartSum
<1>13. /\ PowerOf(Q) \in Nat /\ PowerOf(R) \in Nat /\ PowerOf(S) \in Nat /\ PowerOf(F) \in Nat
       /\ PowerOf(Node) \in Nat
  BY PartSum
<1> QED
  BY <1>7, <1>8, <1>9, <1>10, <1>11, <1>12, <1>13

\* Faults are tolerated if those that fail have less power than three majorities have beyond
\* twice the power of the committee.
LEMMA FewFaults ==
  ASSUME PowerOf(Restartable \cup Preempted) + PowerOf(Node) + PowerOf(Node)
           < MinimumMaj23 + MinimumMaj23 + MinimumMaj23,
         \A i \in 0 .. MaxRound : Candidates[i] \subseteq Reliable
  PROVE  FaultsTolerated
<1> SUFFICES ASSUME NEW Q \in Maj23, NEW R \in Maj23, NEW S \in Maj23,
                    Q \cap R \cap S \cap Reliable = {}
             PROVE  FALSE
  BY DEF FaultsTolerated
<1>1. PICK F \in SUBSET Node : F = Restartable \cup Preempted
  BY CommitteeAssumption
<1>2. Q \in SUBSET Node /\ R \in SUBSET Node /\ S \in SUBSET Node
  BY DEF Maj23
<1>3. Q \cap R \cap S \subseteq F
  BY <1>1, <1>2 DEF Reliable
<1>4. PowerOf(Q) + PowerOf(R) + PowerOf(S) <= PowerOf(Node) + PowerOf(Node) + PowerOf(F)
  BY <1>2, <1>3, ThreeParts
<1>5. PowerOf(Q) >= MinimumMaj23 /\ PowerOf(R) >= MinimumMaj23 /\ PowerOf(S) >= MinimumMaj23
  BY DEF Maj23
<1>6. PICK w \in Nat : w = PowerOf(Node)
  BY PartSum
<1>7. MinimumMaj23 \in Nat
  <2>1. (2 * w) \div 3 \in Nat
    BY <1>6
  <2> QED
    BY <1>6, <2>1 DEF MinimumMaj23
<1>8. PowerOf(Q) \in Nat /\ PowerOf(R) \in Nat /\ PowerOf(S) \in Nat /\ PowerOf(F) \in Nat
  BY <1>2, PartSum
<1> QED
  BY <1>1, <1>4, <1>5, <1>6, <1>7, <1>8

\* No two validators commit different proposals at a height if none restarts and none is
\* handling a message when a reset comes, whatever their powers and whatever the network does.
THEOREM AgreementWithoutFaults ==
  Restartable = {} /\ Preempted = {} => (Spec => []Agreement)
<1> SUFFICES ASSUME Restartable = {}, Preempted = {} PROVE Spec => []Agreement
  OBVIOUS
<1>1. PICK F \in SUBSET Node : F = Restartable \cup Preempted /\ F = {}
  OBVIOUS
<1>2. PowerOf(F) = 0
  <2>1. \A x \in Node : Part(F)[x] = 0
    BY <1>1 DEF Part
  <2>2. SumFunctionOnSet(Part(F), Node) = SumFunctionOnSet(Part(F), {})
    BY <2>1, CommitteeAssumption, SumOfPart
  <2>3. SumFunctionOnSet(Part(F), {}) = 0
    BY SumEmpty
  <2> QED
    BY <2>2, <2>3, PartSum
<1>3. PICK w \in Nat : w = PowerOf(Node)
  BY PartSum
<1>4. 2 * w < 3 * ((2 * w) \div 3 + 1)
  BY <1>3
<1>5. PowerOf(F) + w + w < MinimumMaj23 + MinimumMaj23 + MinimumMaj23
  <2>1. PICK d : d = (2 * w) \div 3
    OBVIOUS
  <2>2. d \in Nat
    BY <2>1
  <2> QED
    BY <1>2, <1>3, <1>4, <2>1, <2>2 DEF MinimumMaj23
<1>6. \A i \in 0 .. MaxRound : Candidates[i] \subseteq Reliable
  BY BoundAssumption DEF Reliable
<1>7. FaultsTolerated
  BY <1>1, <1>3, <1>5, <1>6, FewFaults
<1> QED
  BY <1>7, AgreementHolds

-----------------------------------------------------------------------------
(***************************************************************************)
(* Releasing a lock.  A replica votes against its lock only for a proposal *)
(* that its leader is locked on, so a lock has to be followed from the     *)
(* votes that made it to the PROPOSE message that carries it.              *)
(***************************************************************************)

\* +2/3 signed the payload of a certificate.
SignedByMaj(qc) ==
  \E Q \in Maj23 :
    Q \subseteq Signers([header |-> qc.header, prop |-> qc.prop, proposer |-> qc.proposer])

\* The locks and certificates in a message are signed; a leader's lock is one of its height,
\* and what it proposes.
LockSent(m) ==
  /\ m.type = "vote" => (m.highQC # Nil => SignedByMaj(m.highQC))
  /\ m.type = "leader" => (m.header.phase = Precommit => SignedByMaj(m.qc))
  /\ m.type = "leader" => (m.header.phase = Propose /\ m.highQC # Nil =>
       /\ IsLock(m.highQC) /\ SignedByMaj(m.highQC) /\ m.highQC.header.height = m.header.height
       /\ ~Outrun(m.header.height) => m.qc.data = m.highQC.prop)

\* A reset that clears the lock is waiting or to come when the view is behind the chain, and
\* when Pacemaker or a root-chain update took a lock to the next height; no handler then
\* gets as far as PROPOSE.
LockCurrent(n) ==
  /\ view[n].height # ChainHeight(n) => syncing[n] \/ Unlocks(n)
  /\ highQC[n] # Nil /\ highQC[n].header.height # view[n].height =>
       /\ syncing[n] \/ Unlocks(n)
       /\ \/ view[n].phase = Election
          \/ view[n].phase = ElectionVote /\ resets[n] # <<>> /\ overtaken[n] > 0

\* The third inductive invariant.
LocksTraced ==
  /\ \A m \in msgs : LockSent(m)
  /\ \A n \in Node : highQC[n] # Nil => SignedByMaj(highQC[n])
  /\ \A n \in Reliable : LockCurrent(n)

\* What is signed stays signed.
LEMMA SignedKept ==
  ASSUME msgs \subseteq msgs'
  PROVE  /\ \A qc : SignedByMaj(qc) => SignedByMaj(qc)'
         /\ \A m : LockSent(m) => LockSent(m)'
<1>1. ASSUME NEW p PROVE Signers(p) \subseteq Signers(p)'
  BY DEF Signers
<1>2. ASSUME NEW qc, SignedByMaj(qc) PROVE SignedByMaj(qc)'
  BY <1>1, <1>2 DEF SignedByMaj
<1>3. ASSUME NEW h, ~Outrun(h)' PROVE ~Outrun(h)
  BY <1>3, OutrunKept
<1>4. ASSUME NEW m, LockSent(m) PROVE LockSent(m)'
  <2>1. SignedByMaj(m.highQC) => SignedByMaj(m.highQC)'
    BY <1>2
  <2>2. SignedByMaj(m.qc) => SignedByMaj(m.qc)'
    BY <1>2
  <2>3. ~Outrun(m.header.height)' => ~Outrun(m.header.height)
    BY <1>3
  <2> QED
    BY <1>4, <2>1, <2>2, <2>3 DEF LockSent
<1> QED
  BY <1>2, <1>4

\* A leader certifies what a majority signed.
LEMMA MajoritySigned ==
  ASSUME NEW n \in Node, NEW v \in MajorityVotes(n), NEW qc, qc.header = v.header,
         qc.prop = v.prop, qc.proposer = v.proposer
  PROVE  SignedByMaj(qc)
<1>1. PICK Q : Q = {m.from : m \in {x \in Votes(n) : Payload(x) = v}}
  OBVIOUS
<1>2. Q \in Maj23
  BY <1>1 DEF MajorityVotes
<1>3. [header |-> qc.header, prop |-> qc.prop, proposer |-> qc.proposer] = v
  <2>1. PICK m \in Votes(n) : v = Payload(m)
    BY DEF MajorityVotes
  <2> QED
    BY <2>1 DEF Payload
<1>4. Q \subseteq Signers(v)
  BY <1>1 DEF Signers, Votes
<1> QED
  BY <1>2, <1>3, <1>4 DEF SignedByMaj

\* No handler after that of ELECTION runs with the lock of another height.
LEMMA LockOfHeight ==
  ASSUME TypeOK, NEW n \in Node, LockCurrent(n), NEW phase \in 2 .. 10, Expired(n, phase),
         highQC[n] # Nil
  PROVE  highQC[n].header.height = view[n].height
<1>1. /\ ~syncing[n] /\ (resets[n] # <<>> => overtaken[n] = 0) /\ view[n].phase = phase
  BY Running
<1>2. view[n].phase # Election
  BY <1>1, PhaseNumbers
<1> QED
  BY <1>1, <1>2 DEF LockCurrent

\* What a handler sends carries signed locks.
LEMMA HandlerSends ==
  ASSUME Inv, Safe, LocksTraced, FaultsTolerated, NEW n \in Node, HandlePhase(n),
         NEW m \in msgs' \ msgs
  PROVE  LockSent(m)'
<1>0. /\ TypeOK /\ (highQC[n] # Nil => SignedByMaj(highQC[n])) /\ LockHeld(n)
      /\ (n \in Reliable => LockCurrent(n))
  BY DEF Inv, LocksTraced, Safe, NodeSafe
<1>1. msgs \subseteq msgs'
  BY DEF HandlePhase, StartElectionPhase, StartElectionVotePhase, StartProposePhase,
     ProposeData, StartProposeVotePhase, StartPrecommitPhase, StartCommitPhase,
     StartCertifyPhase, Certify, StartPrecommitVotePhase, StartCommitProcessPhase,
     RoundInterrupt, Pacemaker, PausePhase, Send
<1>2. LockSent(m) => LockSent(m)'
  BY <1>1, SignedKept
<1>3. CASE m.type # "vote" /\ m.type # "leader"
  BY <1>3 DEF LockSent
<1>4. CASE StartElectionVotePhase(n)
  <2>1. PICK l : m = VoteMsg(n, view[n], Nil, l, highQC[n], rcBuildHeight[n])
    BY <1>4 DEF StartElectionVotePhase, Send
  <2>2. m.type = "vote" /\ m.highQC = highQC[n]
    BY <2>1 DEF VoteMsg
  <2> QED
    BY <1>0, <1>2, <2>2 DEF LockSent
<1>5. CASE StartProposePhase(n)
  <2>1. PICK v \in MajorityVotes(n), d \in ToPropose(n) : ProposeData(n, v, d[1], d[2])
    BY <1>5 DEF StartProposePhase
  <2>2. PICK prop : m = LeaderMsg(n, view[n], Certificate(v.header, prop, d[1], v.proposer),
                                  highQC[n], d[2])
    BY <2>1 DEF ProposeData, Send
  <2>3. /\ m.type = "leader" /\ m.highQC = highQC[n] /\ m.qc.data = d[1] /\ m.header = view[n]
    BY <2>2 DEF LeaderMsg, Certificate
  <2>4. Expired(n, Propose) /\ view[n].phase = Propose
    BY <1>5 DEF StartProposePhase, Expired
  <2>5. n \in Reliable
    BY <2>1, <2>4, LeaderReliable
  <2>6. PICK phase \in 2 .. 10 : phase = Propose
    BY PhaseNumbers
  <2>7. ASSUME highQC[n] # Nil
        PROVE  /\ IsLock(highQC[n]) /\ highQC[n].header.height = view[n].height
               /\ ~Outrun(view[n].height) => d[1] = highQC[n].prop
    <3>1. IsLock(highQC[n])
      BY <1>0, <2>7, NodeTypes
    <3>2. highQC[n].header.height = view[n].height
      BY <1>0, <2>4, <2>5, <2>6, <2>7, LockOfHeight
    <3>3. d[1] = highQC[n].data
      BY <2>7 DEF ToPropose
    <3> QED
      BY <1>0, <2>5, <2>7, <3>1, <3>2, <3>3 DEF LockHeld
  <2>8. m.header.phase = Propose /\ m.header.phase # Precommit
    BY <2>3, <2>4, PhaseNumbers
  <2> QED
    BY <1>0, <1>2, <2>3, <2>7, <2>8 DEF LockSent
<1>6. CASE StartProposeVotePhase(n)
  <2>1. m.type = "vote" => m.highQC = Nil
    BY <1>6 DEF StartProposeVotePhase, Send, VoteMsg, RoundInterrupt, PacemakerMsg
  <2>2. m.type # "leader"
    BY <1>6 DEF StartProposeVotePhase, Send, VoteMsg, RoundInterrupt, PacemakerMsg
  <2> QED
    BY <2>1, <2>2 DEF LockSent
<1>7. CASE StartPrecommitVotePhase(n)
  <2>1. m.type = "vote" => m.highQC = Nil
    BY <1>7 DEF StartPrecommitVotePhase, Send, VoteMsg, RoundInterrupt, PacemakerMsg
  <2>2. m.type # "leader"
    BY <1>7 DEF StartPrecommitVotePhase, Send, VoteMsg, RoundInterrupt, PacemakerMsg
  <2> QED
    BY <2>1, <2>2 DEF LockSent
<1>8. CASE StartPrecommitPhase(n) \/ StartCommitPhase(n)
  <2>1. PICK phase, rc : /\ StartCertifyPhase(n, phase, rc) /\ phase # Propose
    BY <1>8, PhaseNumbers DEF StartPrecommitPhase, StartCommitPhase
  <2>2. CASE RoundInterrupt(n)
    BY <1>3, <2>2 DEF RoundInterrupt, Send, PacemakerMsg
  <2>3. ASSUME NEW v \in MajorityVotes(n), Certify(n, v, rc) PROVE LockSent(m)
    <3>1. m = LeaderMsg(n, view[n], Certificate(v.header, v.prop, Nil, v.proposer), Nil, rc)
      BY <2>3 DEF Certify, Send
    <3>2. /\ m.type = "leader" /\ m.header = view[n] /\ m.qc.header = v.header
          /\ m.qc.prop = v.prop /\ m.qc.proposer = v.proposer
      BY <3>1 DEF LeaderMsg, Certificate
    <3>3. SignedByMaj(m.qc)
      BY <3>2, MajoritySigned
    <3>4. m.header.phase # Propose
      BY <2>1, <3>2 DEF StartCertifyPhase, Expired
    <3> QED
      BY <3>2, <3>3, <3>4 DEF LockSent
  <2> QED
    BY <1>2, <2>1, <2>2, <2>3 DEF StartCertifyPhase
<1>9. CASE StartCommitProcessPhase(n)
  <2>1. m.type # "vote" /\ m.type # "leader"
    BY <1>9 DEF StartCommitProcessPhase, Send, BlockMsg, RoundInterrupt, PacemakerMsg
  <2> QED
    BY <1>3, <2>1
<1>10. CASE StartElectionPhase(n) \/ Pacemaker(n) \/ PausePhase(n)
  BY <1>10 DEF StartElectionPhase, Pacemaker, PausePhase
<1> QED
  BY <1>4, <1>5, <1>6, <1>7, <1>8, <1>9, <1>10 DEF HandlePhase

\* The step of another validator leaves a lock where it is.
LEMMA OtherLock ==
  ASSUME NEW k \in Node, SameNode(k), LockCurrent(k)
  PROVE  LockCurrent(k)'
<1>1. ChainHeight(k)' = ChainHeight(k) /\ (Unlocks(k)' <=> Unlocks(k))
  BY DEF SameNode, ChainHeight, Unlocks
<1> QED
  BY <1>1 DEF LockCurrent, SameNode

\* A handler keeps to the lock of its height.
LEMMA HandlerLock ==
  ASSUME Inv, NEW n \in Reliable, LockCurrent(n), HandlePhase(n)
  PROVE  LockCurrent(n)'
<1>1. /\ TypeOK /\ n \in Node /\ n \notin Preempted /\ EpochCurrent(n) /\ DOMAIN highQC = Node
      /\ \A x \in msgs : Fresh(x)
  BY NodeFacts DEF Reliable, TypeOK, Inv
<1>2. UNCHANGED <<resets, syncing, chain>>
  BY DEF HandlePhase, StartElectionPhase, StartElectionVotePhase, StartProposePhase,
     StartProposeVotePhase, StartPrecommitPhase, StartCommitPhase, StartCertifyPhase,
     StartPrecommitVotePhase, StartCommitProcessPhase, Pacemaker, PausePhase, ctlVars
<1>3. ChainHeight(n)' = ChainHeight(n) /\ (Unlocks(n)' <=> Unlocks(n))
  BY <1>2 DEF ChainHeight, Unlocks
<1>4. overtaken \in [Node -> Nat] /\ view \in [Node -> ViewType]
  BY <1>1 DEF TypeOK
<1>5. overtaken'[n] >= overtaken[n] /\ overtaken'[n] \in Nat
      /\ (resets[n] # <<>> /\ view[n].phase = Election => overtaken'[n] > 0)
  <2>1. overtaken[n] \in Nat /\ Election # PacemakerPhase
    BY <1>4, PhaseNumbers, <1>1
  <2>2. overtaken'[n] = overtaken[n] \/ overtaken'[n] = overtaken[n] + 1
    BY <1>1, <1>4 DEF HandlePhase
  <2>3. resets[n] # <<>> /\ view[n].phase = Election => overtaken'[n] = overtaken[n] + 1
    BY <1>1, <1>4, <2>1 DEF HandlePhase
  <2> QED
    BY <2>1, <2>2, <2>3
<1>6. ASSUME view'[n].height = view[n].height, highQC'[n] # Nil => highQC'[n].header.height = view[n].height
      PROVE  LockCurrent(n)'
  BY <1>2, <1>3, <1>6 DEF LockCurrent
<1>7. ASSUME NEW phase \in 2 .. 9, Expired(n, phase), UNCHANGED view \/ NextPhase(n) \/ RoundInterrupt(n)
      PROVE  view'[n].height = view[n].height
  BY <1>1, <1>4, <1>7 DEF NextPhase, RoundInterrupt, ViewType
<1>8. ASSUME NEW phase \in 2 .. 10, Expired(n, phase), highQC[n] # Nil
      PROVE  highQC[n].header.height = view[n].height
  BY <1>1, <1>8, LockOfHeight
<1>9. CASE StartElectionPhase(n)
  <2>1. Expired(n, Election) /\ NextPhase(n) /\ highQC' = highQC
    BY <1>9 DEF StartElectionPhase
  <2>2. /\ ~syncing[n] /\ view[n].phase = Election
    BY <2>1 DEF Expired
  <2>3. view'[n].height = view[n].height /\ view'[n].phase = ElectionVote
    BY <1>1, <1>4, <2>1, <2>2, PhaseNumbers DEF NextPhase, ViewType
  <2>4. Unlocks(n) => resets[n] # <<>>
    BY EmptyUnlocks
  <2> QED
    BY <1>2, <1>3, <1>5, <2>1, <2>2, <2>3, <2>4 DEF LockCurrent
<1>10. CASE \/ StartElectionVotePhase(n) \/ StartProposePhase(n) \/ StartProposeVotePhase(n)
            \/ StartPrecommitPhase(n) \/ StartCommitPhase(n) \/ StartCommitProcessPhase(n)
  <2>1. PICK phase \in 2 .. 9 : Expired(n, phase)
    BY <1>10, PhaseNumbers DEF StartElectionVotePhase, StartProposePhase, StartProposeVotePhase,
       StartPrecommitPhase, StartCommitPhase, StartCertifyPhase, StartCommitProcessPhase
  <2>2. (UNCHANGED view \/ NextPhase(n) \/ RoundInterrupt(n)) /\ highQC' = highQC
    BY <1>10 DEF StartElectionVotePhase, StartProposePhase, StartProposeVotePhase,
       StartPrecommitPhase, StartCommitPhase, StartCertifyPhase, StartCommitProcessPhase
  <2> QED
    BY <1>6, <1>7, <1>8, <2>1, <2>2
<1>11. CASE StartPrecommitVotePhase(n)
  <2>1. PICK phase \in 2 .. 9 : phase = PrecommitVote /\ Expired(n, phase)
    BY <1>11, PhaseNumbers DEF StartPrecommitVotePhase
  <2>2. view'[n].height = view[n].height
    BY <1>7, <1>11, <2>1 DEF StartPrecommitVotePhase
  <2>3. ASSUME NEW m \in GetProposal(n), highQC' = [highQC EXCEPT ![n] = [m.qc EXCEPT !.data = block[n]]]
        PROVE  highQC'[n].header.height = view[n].height
    <3>1. m.qc \in QCType
      BY <1>1, ProposalFacts
    <3>2. m.qc.header.height = view[n].height
      BY <1>1, <2>1, LockHeader
    <3>3. highQC'[n].header = m.qc.header
      BY <1>1, <2>3, <3>1 DEF QCType
    <3> QED
      BY <3>2, <3>3
  <2> QED
    BY <1>6, <1>8, <1>11, <2>1, <2>2, <2>3 DEF StartPrecommitVotePhase
<1>12. CASE Pacemaker(n)
  <2>1. PICK r \in 0 .. MaxRound : NewRound(n, r)
    <3>1. view[n].round \in Nat
      BY <1>1, NodeTypes, ViewFields
    <3> QED
      BY <1>12, <3>1, Bounds DEF Pacemaker
  <2>2. view'[n].height = ChainHeight(n) /\ view'[n].phase = Election
    BY <1>1, <2>1, NewRoundViews
  <2>3. PICK phase \in 2 .. 10 : phase = PacemakerPhase /\ Expired(n, phase)
    BY <1>12, PhaseNumbers DEF Pacemaker
  <2>4. highQC' = highQC
    BY <1>12 DEF Pacemaker
  <2> QED
    BY <1>2, <1>3, <1>8, <2>2, <2>3, <2>4 DEF LockCurrent
<1>13. CASE PausePhase(n)
  <2>1. UNCHANGED <<view, highQC>>
    BY <1>13 DEF PausePhase
  <2>2. overtaken[n] > 0 => overtaken'[n] > 0
    BY <1>1, <1>4, <1>5
  <2> QED
    BY <1>2, <1>3, <2>1, <2>2 DEF LockCurrent
<1> QED
  BY <1>9, <1>10, <1>11, <1>12, <1>13 DEF HandlePhase

\* A commit, a sync and a new root height leave a reset behind them.
LEMMA ControllerLock ==
  ASSUME Inv, NEW n \in Reliable, LockCurrent(n), Controller(n)
  PROVE  LockCurrent(n)'
<1>1. TypeOK /\ n \in Node /\ DOMAIN highQC = Node /\ resets[n] \in Seq(BOOLEAN)
  BY NodeFacts, NodeTypes DEF Reliable, TypeOK, Inv
<1>2. UNCHANGED <<view, overtaken>>
  BY DEF Controller, AdoptHighQC, HandlePeerBlock, StartSync, SyncBlock, FinishSync,
     UpdateRootChainInfo, bftVars
<1>3. ASSUME NEW m \in msgs, AdoptHighQC(n, m) PROVE LockCurrent(n)'
  <2>1. UNCHANGED <<resets, syncing, chain>> /\ highQC'[n].header.height = view[n].height
    BY <1>1, <1>3 DEF AdoptHighQC, HigherLock, CheckHighQC, ctlVars
  <2> QED
    BY <1>2, <2>1 DEF LockCurrent, ChainHeight, Unlocks
<1>4. ASSUME Room(n), resets' = [resets EXCEPT ![n] = Append(@, FALSE)], highQC' = highQC
      PROVE  LockCurrent(n)'
  <2>1. Unlocks(n)' /\ resets'[n] # <<>>
    <3>1. PICK s \in Seq(BOOLEAN) : s = resets[n]
      BY <1>1
    <3>2. resets'[n] = Append(s, FALSE)
      BY <1>1, <1>4, <3>1 DEF TypeOK
    <3>3. Len(s) + 1 \in DOMAIN Append(s, FALSE) /\ ~Append(s, FALSE)[Len(s) + 1]
      BY <3>1
    <3> QED
      BY <3>2, <3>3, AppendFacts DEF Unlocks
  <2> QED
    BY <1>2, <1>4, <2>1 DEF LockCurrent
<1>5. ASSUME NEW m \in msgs, HandlePeerBlock(n, m) PROVE LockCurrent(n)'
  BY <1>4, <1>5 DEF HandlePeerBlock, bftVars
<1>6. ASSUME NEW m \in msgs, StartSync(n, m) PROVE LockCurrent(n)'
  <2>1. UNCHANGED <<resets, chain, highQC>> /\ syncing'[n]
    BY <1>1, <1>6 DEF StartSync, bftVars, TypeOK
  <2> QED
    BY <1>2, <2>1 DEF LockCurrent
<1>7. ASSUME NEW p \in Node, SyncBlock(n, p) PROVE LockCurrent(n)'
  <2>1. UNCHANGED <<resets, syncing, highQC>> /\ syncing[n]
    BY <1>7 DEF SyncBlock, bftVars
  <2> QED
    BY <1>2, <2>1 DEF LockCurrent
<1>8. CASE FinishSync(n)
  BY <1>4, <1>8 DEF FinishSync, bftVars
<1>9. CASE UpdateRootChainInfo(n)
  <2>1. UNCHANGED <<highQC, syncing, chain>> /\ Room(n)
        /\ resets' = [resets EXCEPT ![n] = Append(@, TRUE)]
    BY <1>9 DEF UpdateRootChainInfo, bftVars
  <2>2. (Unlocks(n)' <=> Unlocks(n)) /\ resets'[n] # <<>>
    BY <1>1, <2>1, QueueFacts
  <2> QED
    BY <1>2, <2>1, <2>2 DEF LockCurrent, ChainHeight
<1> QED
  BY <1>3, <1>5, <1>6, <1>7, <1>8, <1>9 DEF Controller

\* A reset for a new root height keeps the lock, and the reset that clears it still comes.
LEMMA ResetLock ==
  ASSUME Inv, NEW n \in Reliable, LockCurrent(n), ResetBFT(n)
  PROVE  LockCurrent(n)'
<1>1. TypeOK /\ n \in Node /\ DOMAIN highQC = Node /\ resets[n] \in Seq(BOOLEAN)
  BY NodeFacts, NodeTypes DEF Reliable, TypeOK, Inv
<1>2. /\ resets[n] # <<>> /\ NewHeight(n, Head(resets[n])) /\ UNCHANGED <<syncing, chain>>
      /\ resets'[n] = Tail(resets[n]) /\ NewRound(n, 0)
  BY <1>1 DEF ResetBFT, NewHeight, TypeOK
<1>3. view'[n].height = ChainHeight(n) /\ view'[n].phase = Election
  <2>1. PICK r \in 0 .. MaxRound : r = 0
    BY Bounds
  <2> QED
    BY <1>1, <1>2, <2>1, NewRoundViews
<1>4. ChainHeight(n)' = ChainHeight(n)
  BY <1>2 DEF ChainHeight
<1>5. CASE ~Head(resets[n])
  <2>1. highQC'[n] = Nil
    BY <1>1, <1>2, <1>5 DEF NewHeight
  <2> QED
    BY <1>3, <1>4, <2>1 DEF LockCurrent
<1>6. CASE Head(resets[n])
  <2>1. highQC' = highQC
    BY <1>2, <1>6 DEF NewHeight
  <2>2. Unlocks(n) => Unlocks(n)'
    <3> SUFFICES ASSUME NEW i \in DOMAIN resets[n], ~resets[n][i] PROVE Unlocks(n)'
      BY DEF Unlocks
    <3>1. PICK s \in Seq(BOOLEAN) : s = resets[n] /\ s # <<>>
      BY <1>1, <1>2
    <3>2. i \in 1 .. Len(s) /\ Len(s) \in Nat /\ i # 1
      <4>1. Head(s) = s[1]
        BY <3>1, TailFacts
      <4>2. i \in 1 .. Len(s) /\ Len(s) \in Nat
        BY <3>1
      <4>3. i # 1
        BY <1>6, <3>1, <4>1, Zenon
      <4> QED
        BY <4>2, <4>3
    <3>3. i - 1 \in DOMAIN Tail(s) /\ Tail(s)[i - 1] = s[i]
      <4>1. PICK t \in Seq(BOOLEAN) : t = Tail(s) /\ Len(t) = Len(s) - 1
        BY <3>1, TailFacts
      <4>2. PICK j \in 1 .. Len(t) : j = i - 1
        BY <3>2, <4>1
      <4>3. j \in DOMAIN t /\ t[j] = s[j + 1] /\ j + 1 = i
        BY <3>1, <3>2, <4>1, <4>2, TailFacts
      <4> QED
        BY <4>1, <4>2, <4>3
    <3> QED
      BY <1>2, <3>1, <3>3 DEF Unlocks
  <2>3. highQC[n] # Nil /\ highQC[n].header.height # ChainHeight(n) => syncing[n] \/ Unlocks(n)
    BY DEF LockCurrent
  <2> QED
    BY <1>2, <1>3, <1>4, <2>1, <2>2, <2>3 DEF LockCurrent
<1> QED
  BY <1>5, <1>6

\* Every lock is signed by a majority.
LEMMA LocksSigned ==
  ASSUME Inv, LocksTraced, [Next]_vars, msgs \subseteq msgs', NEW n \in Node
  PROVE  highQC'[n] # Nil => SignedByMaj(highQC[n])'
<1>1. TypeOK /\ DOMAIN highQC = Node
  BY DEF Inv, TypeOK
<1>2. \A qc : SignedByMaj(qc) => SignedByMaj(qc)'
  BY SignedKept
<1>3. ASSUME NEW qc, SignedByMaj(qc), highQC'[n] = qc PROVE SignedByMaj(highQC[n])'
  <2>1. SignedByMaj(qc)'
    BY <1>2, <1>3
  <2> QED
    BY <1>3, <2>1 DEF SignedByMaj, Signers
<1>4. CASE highQC'[n] = highQC[n]
  BY <1>3, <1>4 DEF LocksTraced
<1>5. CASE highQC'[n] = Nil
  BY <1>5
<1>6. CASE StartPrecommitVotePhase(n)
  <2>1. ASSUME NEW m \in GetProposal(n), highQC' = [highQC EXCEPT ![n] = [m.qc EXCEPT !.data = block[n]]]
        PROVE  SignedByMaj(highQC[n])'
    <3>1. m \in msgs /\ m.type = "leader" /\ m.header.phase = view[n].phase - 1 /\ m.qc \in QCType
      BY <1>1, ProposalFacts
    <3>2. view[n].phase = PrecommitVote
      BY <1>6 DEF StartPrecommitVotePhase, Expired
    <3>3. m.header.phase = Precommit
      BY <3>1, <3>2, PhaseNumbers
    <3>4. SignedByMaj(m.qc)
      BY <3>1, <3>3 DEF LocksTraced, LockSent
    <3>5. PICK qc : qc = [m.qc EXCEPT !.data = block[n]]
      OBVIOUS
    <3>6. qc.header = m.qc.header /\ qc.prop = m.qc.prop /\ qc.proposer = m.qc.proposer
      BY <3>1, <3>5 DEF QCType
    <3>7. SignedByMaj(qc)
      BY <3>4, <3>6 DEF SignedByMaj
    <3> QED
      BY <1>1, <1>3, <2>1, <3>5, <3>7
  <2> QED
    BY <1>4, <1>6, <2>1 DEF StartPrecommitVotePhase
<1>7. CASE ResetBFT(n)
  <2>1. highQC' = highQC \/ highQC' = [highQC EXCEPT ![n] = Nil]
    BY <1>7 DEF ResetBFT, NewHeight
  <2> QED
    BY <1>1, <1>4, <1>5, <2>1
<1>8. ASSUME NEW m \in msgs, AdoptHighQC(n, m) PROVE SignedByMaj(highQC[n])'
  <2>1. highQC'[n] = m.highQC /\ m.type = "vote" /\ m.highQC # Nil
    BY <1>1, <1>8 DEF AdoptHighQC, HigherLock
  <2>2. SignedByMaj(m.highQC)
    BY <2>1 DEF LocksTraced, LockSent
  <2> QED
    BY <1>3, <2>1, <2>2
<1>9. CASE Restart(n)
  BY <1>1, <1>5, <1>9 DEF Restart
<1> QED
  BY <1>1, <1>4, <1>6, <1>7, <1>8, <1>9, LockChanges

\* Init
LEMMA InitTraced == Init => LocksTraced
<1> SUFFICES ASSUME Init PROVE LocksTraced
  OBVIOUS
<1>1. msgs = {} /\ \A n \in Node : highQC[n] = Nil
  BY DEF Init
<1>2. ASSUME NEW n \in Reliable PROVE LockCurrent(n)
  <2>1. n \in Node
    BY DEF Reliable
  <2>2. view[n].height = 1 /\ chain[n] = <<>>
    BY <2>1 DEF Init
  <2>3. ChainHeight(n) = 1
    BY <2>2 DEF ChainHeight
  <2> QED
    BY <1>1, <2>1, <2>2, <2>3 DEF LockCurrent
<1> QED
  BY <1>1, <1>2 DEF LocksTraced

\* The validators that take no part in a step.
LEMMA OthersSame ==
  ASSUME TypeOK, NEW n \in Node, HandlePhase(n) \/ Controller(n) \/ ResetBFT(n) \/ Restart(n),
         NEW k \in Node \ {n}
  PROVE  SameNode(k)
<1>0. /\ DOMAIN view = Node /\ DOMAIN resets = Node /\ DOMAIN overtaken = Node
      /\ DOMAIN syncing = Node /\ DOMAIN rootHeight = Node
      /\ DOMAIN chain = Node /\ DOMAIN highQC = Node /\ DOMAIN epochs = Node
  BY DEF TypeOK
<1>1. CASE HandlePhase(n)
  <2>1. overtaken'[k] = overtaken[k]
    BY <1>0, <1>1 DEF HandlePhase
  <2>2. CASE Pacemaker(n)
    BY <1>0, <2>1, <2>2 DEF Pacemaker, NewRound, SameNode, ctlVars
  <2>3. CASE ~Pacemaker(n)
    <3>1. UNCHANGED <<epochs, resets, syncing, rootHeight, chain>>
      BY <1>1, <2>3 DEF HandlePhase, StartElectionPhase, StartElectionVotePhase,
         StartProposePhase, StartProposeVotePhase, StartPrecommitPhase, StartCommitPhase,
         StartCertifyPhase, StartPrecommitVotePhase, StartCommitProcessPhase, PausePhase, ctlVars
    <3>2. highQC'[k] = highQC[k]
      BY <1>0, <1>1, <2>3 DEF HandlePhase, StartElectionPhase, StartElectionVotePhase,
         StartProposePhase, StartProposeVotePhase, StartPrecommitPhase, StartCommitPhase,
         StartCertifyPhase, StartPrecommitVotePhase, StartCommitProcessPhase, PausePhase
    <3>3. UNCHANGED view \/ NextPhase(n) \/ RoundInterrupt(n)
      BY <1>1, <2>3 DEF HandlePhase, StartElectionPhase, StartElectionVotePhase,
         StartProposePhase, StartProposeVotePhase, StartPrecommitPhase, StartCommitPhase,
         StartCertifyPhase, StartPrecommitVotePhase, StartCommitProcessPhase, PausePhase
    <3>4. view'[k] = view[k]
      BY <1>0, <3>3 DEF NextPhase, RoundInterrupt
    <3> QED
      BY <2>1, <3>1, <3>2, <3>4 DEF SameNode
  <2> QED
    BY <2>2, <2>3
<1>2. CASE Controller(n)
  BY <1>0, <1>2 DEF Controller, AdoptHighQC, HandlePeerBlock, StartSync, SyncBlock, FinishSync,
     UpdateRootChainInfo, SameNode, bftVars, ctlVars
<1>3. CASE ResetBFT(n)
  BY <1>0, <1>3 DEF ResetBFT, NewHeight, NewRound, SameNode
<1>4. CASE Restart(n)
  BY <1>0, <1>4 DEF Restart, SameNode
<1> QED
  BY <1>1, <1>2, <1>3, <1>4

\* A step keeps the third invariant.
LEMMA NextTraced ==
  ASSUME Inv, Safe, LocksTraced, FaultsTolerated, [Next]_vars
  PROVE  LocksTraced'
<1>1. CASE UNCHANGED vars
  <2>1. UNCHANGED <<msgs, highQC, view, chain, resets, syncing, overtaken>>
    BY <1>1 DEF vars, bftVars, ctlVars
  <2> QED
    BY <2>1 DEF LocksTraced, LockSent, SignedByMaj, Signers, Outrun, LockCurrent, ChainHeight,
       Unlocks
<1>2. ASSUME NEW n \in Node, HandlePhase(n) \/ Controller(n) \/ ResetBFT(n) \/ Restart(n)
      PROVE  LocksTraced'
  <2>1. msgs \subseteq msgs' /\ (msgs' # msgs => HandlePhase(n))
    BY <1>2 DEF HandlePhase, StartElectionPhase, StartElectionVotePhase, StartProposePhase,
       ProposeData, StartProposeVotePhase, StartPrecommitPhase, StartCommitPhase,
       StartCertifyPhase, Certify, StartPrecommitVotePhase, StartCommitProcessPhase,
       RoundInterrupt, Pacemaker, PausePhase, Send, Controller, AdoptHighQC, HandlePeerBlock,
       StartSync, SyncBlock, FinishSync, UpdateRootChainInfo, ResetBFT, Restart
  <2>2. ASSUME NEW m \in msgs' PROVE LockSent(m)'
    <3>1. CASE m \in msgs
      BY <2>1, <3>1, SignedKept DEF LocksTraced
    <3>2. CASE m \notin msgs
      BY <2>1, <3>2, HandlerSends
    <3> QED
      BY <3>1, <3>2
  <2>3. \A k \in Node : highQC'[k] # Nil => SignedByMaj(highQC[k])'
    BY <2>1, LocksSigned
  <2>4. ASSUME NEW k \in Reliable PROVE LockCurrent(k)'
    <3>1. LockCurrent(k) /\ TypeOK /\ k \in Node /\ k \notin Restartable
      BY DEF LocksTraced, Inv, Reliable
    <3>2. CASE k # n
      BY <1>2, <3>1, <3>2, OthersSame, OtherLock
    <3>3. CASE k = n
      <4>1. ~Restart(n)
        BY <3>1, <3>3 DEF Restart
      <4> QED
        BY <1>2, <3>1, <3>3, <4>1, HandlerLock, ControllerLock, ResetLock
    <3> QED
      BY <3>2, <3>3
  <2> QED
    BY <2>2, <2>3, <2>4 DEF LocksTraced
<1> QED
  BY <1>1, <1>2 DEF Next

\* The third invariant holds of every run of a committee that tolerates its faults.
LEMMA TracedInvariant ==
  ASSUME FaultsTolerated
  PROVE  Spec => [](Inv /\ Safe /\ LocksTraced)
<1>1. Init => LocksTraced
  BY InitTraced
<1>2. Inv /\ Safe /\ LocksTraced /\ [Next]_vars => LocksTraced'
  BY NextTraced
<1> QED
  BY <1>1, <1>2, SafeInvariant, PTL DEF Spec

\* A majority with more members is a majority.
LEMMA Maj23Grows ==
  ASSUME NEW Q \in Maj23, NEW R \in SUBSET Node, Q \subseteq R
  PROVE  R \in Maj23
<1>1. PICK q, r : q = Part(Q) /\ r = Part(R)
  OBVIOUS
<1>2. Q \in SUBSET Node /\ PowerOf(Q) >= MinimumMaj23
  BY DEF Maj23
<1>3. IsFiniteSet(Node) /\ \A x \in Node : Power[x] \in Nat
  BY CommitteeAssumption
<1>4. \A x \in Node : q[x] \in Int /\ r[x] \in Int
  BY <1>1, <1>2, PartSum
<1>5. ASSUME NEW x \in Node PROVE q[x] <= r[x]
  <2>1. /\ q[x] = (IF x \in Q THEN Power[x] ELSE 0) /\ r[x] = (IF x \in R THEN Power[x] ELSE 0)
        /\ Power[x] \in Nat
    BY <1>1, <1>3 DEF Part
  <2> QED
    BY <2>1
<1>6. SumFunctionOnSet(q, Node) <= SumFunctionOnSet(r, Node)
  BY <1>3, <1>4, <1>5, SumMonotone
<1>7. PowerOf(Q) <= PowerOf(R) /\ PowerOf(Q) \in Nat /\ PowerOf(R) \in Nat
  BY <1>1, <1>2, <1>6, PartSum
<1>8. MinimumMaj23 \in Int
  <2>1. PICK w \in Nat : w = PowerOf(Node)
    BY PartSum
  <2>2. (2 * w) \div 3 \in Int
    BY <2>1
  <2> QED
    BY <2>1, <2>2 DEF MinimumMaj23
<1> QED
  BY <1>2, <1>7, <1>8 DEF Maj23

\* A certificate that a majority signed is one of the certified payloads.
LEMMA SignedCertified ==
  ASSUME TypeOK, FaultsTolerated, NEW qc, SignedByMaj(qc)
  PROVE  \E p \in Certified(qc.header.phase) : p.header = qc.header /\ p.prop = qc.prop
<1>1. PICK p : p = [header |-> qc.header, prop |-> qc.prop, proposer |-> qc.proposer]
  OBVIOUS
<1>2. PICK Q \in Maj23 : Q \subseteq Signers(p)
  BY <1>1 DEF SignedByMaj
<1>3. Signers(p) \in SUBSET Node
  BY DEF Signers, TypeOK, MessageOK
<1>4. Signers(p) \in Maj23
  BY <1>2, <1>3, Maj23Grows
<1>5. PICK k : k \in Q
  BY Intersect
<1>6. PICK m \in msgs : m.type = "vote" /\ Payload(m) = p
  BY <1>2, <1>5 DEF Signers
<1>7. m.header.phase = qc.header.phase
  BY <1>1, <1>6 DEF Payload
<1>8. p \in Certified(qc.header.phase)
  BY <1>4, <1>6, <1>7 DEF Certified
<1> QED
  BY <1>1, <1>8

\* A PROPOSE-VOTE is sent by one handler.
LEMMA WhoVotes ==
  ASSUME TypeOK, [Next]_vars, NEW y \in msgs' \ msgs, y.type = "vote", y.header.phase = ProposeVote
  PROVE  \E n \in Node : \E m \in GetProposal(n) :
           /\ Expired(n, ProposeVote) /\ ~RejectsProposal(n, m)
           /\ y = VoteMsg(n, view[n], [m.qc.data EXCEPT !.block = GetBlockHash(n, m.qc.data)],
                          m.from, Nil, 0)
<1>1. PICK n \in Node : HandlePhase(n)
  BY DEF Next, Controller, AdoptHighQC, HandlePeerBlock, StartSync, SyncBlock, FinishSync,
     UpdateRootChainInfo, ResetBFT, Restart, vars
<1>2. ~StartElectionVotePhase(n)
  <2> SUFFICES ASSUME StartElectionVotePhase(n) PROVE FALSE
    OBVIOUS
  <2>1. view[n].phase = ElectionVote /\ y.header = view[n]
    BY DEF StartElectionVotePhase, Expired, Send, VoteMsg
  <2> QED
    BY <2>1, PhaseNumbers
<1>3. ~StartPrecommitVotePhase(n)
  <2> SUFFICES ASSUME StartPrecommitVotePhase(n) PROVE FALSE
    OBVIOUS
  <2>1. view[n].phase = PrecommitVote
    BY DEF StartPrecommitVotePhase, Expired
  <2>2. y.header = view[n]
    BY DEF StartPrecommitVotePhase, Send, VoteMsg, RoundInterrupt, PacemakerMsg
  <2> QED
    BY <2>1, <2>2, PhaseNumbers
<1>4. ~StartProposePhase(n)
  <2> SUFFICES ASSUME StartProposePhase(n) PROVE FALSE
    OBVIOUS
  <2>1. PICK v, d : ProposeData(n, v, d[1], d[2])
    BY DEF StartProposePhase
  <2>2. PICK qc : msgs' = msgs \cup {LeaderMsg(n, view[n], qc, highQC[n], d[2])}
    BY <2>1 DEF ProposeData, Send
  <2> QED
    BY <2>2 DEF LeaderMsg
<1>5. ~StartPrecommitPhase(n) /\ ~StartCommitPhase(n)
  BY DEF StartPrecommitPhase, StartCommitPhase, StartCertifyPhase, Certify, Send, LeaderMsg,
     RoundInterrupt, PacemakerMsg
<1>6. ~StartCommitProcessPhase(n)
  BY DEF StartCommitProcessPhase, Send, BlockMsg, RoundInterrupt, PacemakerMsg
<1>7. StartProposeVotePhase(n)
  BY <1>1, <1>2, <1>3, <1>4, <1>5, <1>6 DEF HandlePhase, StartElectionPhase, Pacemaker, PausePhase
<1>8. ~RoundInterrupt(n)
  BY DEF Send, RoundInterrupt, PacemakerMsg
<1>9. PICK m \in GetProposal(n) :
        /\ ~RejectsProposal(n, m)
        /\ Send(VoteMsg(n, view[n], [m.qc.data EXCEPT !.block = GetBlockHash(n, m.qc.data)],
                        m.from, Nil, 0))
  BY <1>7, <1>8 DEF StartProposeVotePhase
<1>10. Expired(n, ProposeVote)
  BY <1>7 DEF StartProposeVotePhase
<1>11. y = VoteMsg(n, view[n], [m.qc.data EXCEPT !.block = GetBlockHash(n, m.qc.data)],
                   m.from, Nil, 0)
  BY <1>9 DEF Send
<1> QED
  BY <1>9, <1>10, <1>11

\* What a replica that signed a PRECOMMIT-VOTE votes for afterwards.
LEMMA UnlockStep ==
  ASSUME Inv, Safe, LocksTraced, FaultsTolerated, [Next]_vars, MaxRootHeight = 1,
         NEW y \in msgs' \ msgs, NEW x \in msgs, x.type = "vote", y.type = "vote",
         x.from = y.from, x.header.phase = PrecommitVote, y.header.phase = ProposeVote,
         x.header.height = y.header.height, ~Outrun(x.header.height),
         x.from \notin Restartable \cup Preempted, x.prop # y.prop
  PROVE  \E p \in Certified(ProposeVote) :
           /\ p.prop = y.prop /\ p.header.height = y.header.height
           /\ Less(x.header, p.header)
<1>1. TypeOK
  BY DEF Inv
<1>0. PICK n \in Node : \E m \in GetProposal(n) :
        /\ Expired(n, ProposeVote) /\ ~RejectsProposal(n, m)
        /\ y = VoteMsg(n, view[n], [m.qc.data EXCEPT !.block = GetBlockHash(n, m.qc.data)],
                       m.from, Nil, 0)
  BY <1>1, WhoVotes
<1>2. PICK m \in GetProposal(n) :
        /\ Expired(n, ProposeVote) /\ ~RejectsProposal(n, m)
        /\ y = VoteMsg(n, view[n], [m.qc.data EXCEPT !.block = GetBlockHash(n, m.qc.data)],
                       m.from, Nil, 0)
  BY <1>0
<1>3. y.from = n /\ y.header = view[n]
      /\ y.prop = [m.qc.data EXCEPT !.block = GetBlockHash(n, m.qc.data)]
  BY <1>2 DEF VoteMsg
<1>4. n \in Reliable /\ x.from = n
  BY <1>3 DEF Reliable
<1>5. /\ m \in ProposeMsgs /\ SameView(m.header, view[n]) /\ m.qc.prop = m.qc.data
      /\ GetBlockHash(n, m.qc.data) = m.qc.data.block
  BY <1>2, <1>3, <1>4, ProposalKnown
<1>6. m \in msgs /\ m.type = "leader" /\ m.header.phase = Propose /\ m.qc.data \in BlockType
  BY <1>1, <1>2, <1>5, ProposalFacts DEF ProposeMsgs
<1>7. y.prop = m.qc.data
  BY <1>3, <1>5, <1>6, SameHash
<1>8. /\ highQC[n] # Nil
      /\ ~Less(highQC[n].header, [x.header EXCEPT !.phase = ProposeVote])
  <2>1. Locked(n)
    BY <1>4, NodeFacts DEF Reliable
  <2> QED
    BY <1>3, <1>4, <2>1 DEF Locked
<1>9. SafeNode(n, m)
  BY <1>2, <1>8 DEF RejectsProposal
<1>10. /\ m.highQC # Nil /\ IsLock(m.highQC) /\ SignedByMaj(m.highQC)
       /\ m.highQC.header.height = y.header.height /\ y.prop = m.highQC.prop
  <2>1. m.highQC # Nil
    BY <1>9 DEF SafeNode
  <2>2. m.header.height = y.header.height
    BY <1>3, <1>5 DEF SameView
  <2>3. LockSent(m)
    BY <1>6 DEF LocksTraced
  <2> QED
    BY <1>6, <1>7, <2>1, <2>2, <2>3 DEF LockSent
<1>11. PICK g \in HeaderType : g = x.header
  BY <1>1 DEF TypeOK, MessageOK
<1>12. IsLock(highQC[n]) /\ SignedByMaj(highQC[n]) /\ Backed(highQC[n])
       /\ highQC[n].header.height <= g.height
  <2>1. IsLock(highQC[n])
    BY <1>1, <1>8, NodeTypes
  <2>2. SignedByMaj(highQC[n])
    BY <1>8 DEF LocksTraced
  <2>3. NodeSafe(n)
    BY DEF Safe
  <2> QED
    BY <1>3, <1>4, <1>8, <1>11, <2>1, <2>2, <2>3 DEF NodeSafe, LockBacked, LockHeld
<1>13. PICK c \in HeaderType : c = highQC[n].header /\ c.phase = ProposeVote
  BY <1>12 DEF IsLock, QCType
<1>14. SameView(c, g) \/ Before(g, c)
  BY <1>8, <1>11, <1>12, <1>13, CoverMeans DEF Covers
<1>15. /\ c.height \in Nat /\ c.rootHeight = 1 /\ c.round \in Nat /\ c.phase = 4
  BY <1>13, HeaderFields, PhaseNumbers DEF HeaderType
<1>16. /\ g.height \in Nat /\ g.rootHeight = 1 /\ g.round \in Nat /\ g.phase = 6
  BY <1>11, HeaderFields, PhaseNumbers DEF HeaderType
<1>17. CASE highQC[n].prop = m.highQC.prop
  <2>1. PICK p \in Certified(ProposeVote) : p.header = c /\ p.prop = y.prop
    BY <1>1, <1>10, <1>12, <1>13, <1>17, SignedCertified
  <2>2. ~SameView(c, g)
    <3> SUFFICES ASSUME SameView(c, g) PROVE FALSE
      OBVIOUS
    <3>1. Polled(g, ProposeVote, x.prop)
      BY <1>4, <1>11 DEF Safe, Justified
    <3>2. Polled(c, ProposeVote, y.prop)
      BY <1>10, <1>12, <1>13, <1>17 DEF Backed
    <3>3. Polled(g, ProposeVote, y.prop)
      BY <3>2 DEF Polled, VotedFor, SameView
    <3> QED
      BY <1>11, <3>1, <3>3, OnePoll
  <2>3. Before(g, c) /\ c.height = g.height
    BY <1>14, <2>2 DEF Before
  <2>4. Less(g, c)
    BY <2>3, <1>15, <1>16 DEF Before, Less
  <2> QED
    BY <1>11, <2>1, <2>3, <2>4
<1>18. CASE m.highQC.header.round > highQC[n].header.round
  <2>1. PICK d \in HeaderType : d = m.highQC.header /\ d.phase = ProposeVote
    BY <1>10 DEF IsLock, QCType
  <2>2. /\ d.height \in Nat /\ d.rootHeight = 1 /\ d.round \in Nat /\ d.phase = 4
    BY <2>1, HeaderFields, PhaseNumbers DEF HeaderType
  <2>3. PICK p \in Certified(ProposeVote) : p.header = d /\ p.prop = y.prop
    BY <1>1, <1>10, <2>1, SignedCertified
  <2>4. d.height = y.header.height /\ d.height = g.height /\ d.round > c.round
    BY <1>10, <1>11, <1>13, <1>18, <2>1
  <2>5. c.round >= g.round
    BY <1>14, <1>15, <1>16 DEF SameView, Before
  <2>6. Less(g, d)
    BY <1>15, <1>16, <2>2, <2>4, <2>5 DEF Less
  <2> QED
    BY <1>11, <2>3, <2>4, <2>6
<1> QED
  BY <1>9, <1>17, <1>18 DEF SafeNode

\* A validator that signed a PRECOMMIT-VOTE votes for another proposal of that height only
\* when +2/3 have voted for that one in a later view: the lock it is shown in the PROPOSE is
\* one of the leader's own and of a later round (SafeNode, StartProposeVotePhase).
THEOREM UnlockJustifiedHolds == FaultsTolerated => (Spec => UnlockJustified)
<1> SUFFICES ASSUME FaultsTolerated PROVE Spec => UnlockJustified
  OBVIOUS
<1>1. Inv /\ Safe /\ LocksTraced /\ [Next]_vars =>
        [\A y \in msgs' \ msgs, x \in msgs :
           (/\ x.type = "vote" /\ y.type = "vote" /\ x.from = y.from
            /\ x.header.phase = PrecommitVote /\ y.header.phase = ProposeVote
            /\ x.header.height = y.header.height /\ MaxRootHeight = 1
            /\ ~Outrun(x.header.height)
            /\ x.from \notin Restartable \cup Preempted /\ x.prop # y.prop) =>
              \E p \in Certified(ProposeVote) :
                /\ p.prop = y.prop /\ p.header.height = y.header.height
                /\ Less(x.header, p.header)]_vars
  BY UnlockStep
<1> QED
  BY <1>1, TracedInvariant, PTL DEF Spec, UnlockJustified
=============================================================================
