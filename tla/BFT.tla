-------------------------------- MODULE BFT --------------------------------
(***************************************************************************)
(* NestBFT, the consensus of a Canopy node (package bft), together with    *)
(* the part of the controller that feeds it: message delivery, commit of a *)
(* certified block, root-chain updates, syncing, and restart.              *)
(*                                                                         *)
(* One step is one critical section of the controller lock: the handler of *)
(* an expired phase timer, the handler of a reset, the handling of a block *)
(* or of a vote that carries a lock.                                       *)
(*                                                                         *)
(* Every message ever sent stays in msgs and may be lost, delayed,         *)
(* reordered and duplicated.  Storing a leader message or a vote changes   *)
(* nothing but b.Proposals and b.Votes, which only the handler of one phase*)
(* of one round reads; so the model lets that handler pick what has arrived*)
(* from msgs instead of storing it first.  What could have been stored is  *)
(* what passes the checks of msg.go under a height and root height the node*)
(* has had since the stores were last cleared: epochs remembers those.     *)
(*                                                                         *)
(* What is abstracted: hashes are injective, so a proposal stands for its  *)
(* hashes; an aggregate signature is valid when its votes exist; which     *)
(* candidate of the round a replica elects is left open (it depends on     *)
(* VRF outputs and on which ELECTION messages arrived); the committee is   *)
(* the same at every root height.  Validators follow the code.             *)
(***************************************************************************)
EXTENDS Integers, FiniteSets, Sequences, SequencesExt, FiniteSetsExt

CONSTANTS
  Node,          \* the committee (validators)
  Power,         \* voting power of each validator
  Candidates,    \* the validators sortition may elect in each round
  Proposals,     \* what ProduceProposal may return: [block |-> _, results |-> _]
  Preempted,     \* validators that may be handling a message when a reset comes
  Restartable,   \* validators that may crash and restart
  MaxRound,      \* bound: highest round
  MaxHeight,     \* bound: highest height decided
  MaxRootHeight, \* bound: highest root-chain height
  MaxRestarts,   \* bound: number of restarts
  ResetCap,      \* capacity of the ResetBFT channel
  MaxOvertake,   \* phase handlers that may run while a reset is waiting
  Nil            \* a Go nil

ASSUME CommitteeAssumption ==
  /\ IsFiniteSet(Node)
  /\ Power \in [Node -> Nat \ {0}]
  /\ Preempted \subseteq Node
  /\ Restartable \subseteq Node
  /\ Nil \notin Node \cup Proposals
ASSUME BoundAssumption ==
  /\ MaxRound \in Nat
  /\ Candidates \in [0 .. MaxRound -> SUBSET Node]
  /\ MaxHeight \in Nat \ {0}
  /\ MaxRootHeight \in Nat \ {0}
  /\ MaxRestarts \in Nat
  /\ ResetCap \in Nat \ {0}
  /\ MaxOvertake \in {0, 1}

VARIABLES
  view,          \* view[n]: b.View, the height, root height, round and phase
  proposerKey,   \* b.ProposerKey
  block,         \* b.Block and b.Results, always assigned together
  blockHash,     \* b.BlockHash, the cached hash of b.Block
  highQC,        \* b.HighQC, the lock
  rcBuildHeight, \* b.RCBuildHeight
  epochs,        \* the <<height, root height>> pairs since the stores were cleared
  carried,       \* a leader message stored by a handler that a reset overtook
  timer,         \* PhaseTimer is running
  resets,        \* the ResetBFT channel: TRUE for a root-chain update
  overtaken,     \* phase handlers run since the oldest waiting reset came
  syncing,       \* c.isSyncing
  rootHeight,    \* RootChainHeight(): the newest root height the node knows
  chain,         \* the certificates the node has committed, one per height
  restarts,      \* restarts so far
  msgs           \* every message ever sent

bftVars == <<view, proposerKey, block, blockHash, highQC, rcBuildHeight,
             epochs, carried, timer>>
ctlVars == <<resets, syncing, rootHeight, chain, restarts>>
vars == <<bftVars, ctlVars, overtaken, msgs>>

-----------------------------------------------------------------------------
\* Phases, numbered as in lib/consensus.pb.go.
Unknown        == 0
Election       == 1
ElectionVote   == 2
Propose        == 3
ProposeVote    == 4
Precommit      == 5
PrecommitVote  == 6
Commit         == 7
CommitProcess  == 8
RoundInterruptPhase == 9
PacemakerPhase == 10

\* Voting power of a set of validators, and the thresholds of a ValidatorSet.
PowerOf(S) == SumFunctionOnSet(Power, S)
\* Wrong: two thirds are enough.
MinimumTwoThirds == (2 * PowerOf(Node)) \div 3
MinimumMaj23 == (2 * PowerOf(Node)) \div 3 + 1
Maj23 == {S \in SUBSET Node : PowerOf(S) >= MinimumMaj23}

\* The power that lets the pacemaker follow others to a higher round:
\* Uint64ReducePercentage(MinimumMaj23, 50).
PacemakerPower == (MinimumMaj23 * 50) \div 100

\* View.Less: height, then root height, then round, then phase.
Less(v, w) ==
  \/ v.height < w.height
  \/ v.height = w.height /\ v.rootHeight < w.rootHeight
  \/ v.height = w.height /\ v.rootHeight = w.rootHeight /\ v.round < w.round
  \/ /\ v.height = w.height /\ v.rootHeight = w.rootHeight
     /\ v.round = w.round /\ v.phase < w.phase

\* ChainHeight(): the height the state machine expects next.
ChainHeight(n) == Len(chain[n]) + 1

\* LastRootHeightUpdated of the committee data cached with the view.  The state after
\* block h has handled the certificate of block h - 1, in BeginBlock, so the view of
\* height h + 1 knows the root height of that one.
LastRootHeightUpdated(n) ==
  IF view[n].height <= 2 THEN 0 ELSE chain[n][view[n].height - 2].header.rootHeight

\* GetBlockHash(): the cached hash, or that of the block.
GetBlockHash(n, data) == IF blockHash[n] = Nil THEN data.block ELSE blockHash[n]

\* The hashes of the current block and results.
Hashes(n) ==
  IF block[n] = Nil THEN Nil
  ELSE [block |-> GetBlockHash(n, block[n]), results |-> block[n].results]

\* A certificate: the view voted in, the hashes voted for, the block and results
\* attached (or Nil) and the proposer.  CheckBasic: what is attached must have
\* those hashes.
Certificate(h, prop, data, proposer) ==
  [header |-> h, prop |-> prop, data |-> data, proposer |-> proposer]
CheckBasic(qc) == qc.data = Nil \/ qc.data = qc.prop

\* Messages: replica votes, leader messages, pacemaker messages, gossiped blocks.
\* Wrong: the lock is not sent along.
VoteMsgNoLock(n, h, prop, proposer, hq, rc) ==
  [type |-> "vote", from |-> n, header |-> h, prop |-> prop,
   proposer |-> proposer, highQC |-> Nil, rcBuildHeight |-> rc]
VoteMsg(n, h, prop, proposer, hq, rc) ==
  [type |-> "vote", from |-> n, header |-> h, prop |-> prop,
   proposer |-> proposer, highQC |-> hq, rcBuildHeight |-> rc]
LeaderMsg(n, h, qc, hq, rc) ==
  [type |-> "leader", from |-> n, header |-> h, qc |-> qc,
   highQC |-> hq, rcBuildHeight |-> rc]
PacemakerMsg(n, h) == [type |-> "pacemaker", from |-> n, header |-> h]
BlockMsg(qc) == [type |-> "block", qc |-> qc]

Send(m) == msgs' = msgs \cup {m}

-----------------------------------------------------------------------------
(***************************************************************************)
(* Helpers of the phase handlers.                                          *)
(***************************************************************************)

\* HandlePhase: the timer expired and the node is not syncing.  The loop of Start()
\* selects at random when a reset is waiting as well, but the timer that a handler
\* sets then still has to run out; only Pacemaker sets one that runs out at once.
Expired(n, phase) ==
  /\ timer[n] /\ ~syncing[n]
  /\ resets[n] # <<>> => overtaken[n] < MaxOvertake
  /\ view[n].phase = phase
  /\ view[n].height <= MaxHeight

\* SetTimerForNextPhase for a phase that is followed by the next one.
NextPhase(n) == view' = [view EXCEPT ![n].phase = @ + 1]

\* RoundInterrupt: the timer then moves ROUND-INTERRUPT on to PACEMAKER.
RoundInterrupt(n) ==
  /\ view' = [view EXCEPT ![n].phase = PacemakerPhase]
  /\ Send(PacemakerMsg(n, [view[n] EXCEPT !.phase = RoundInterruptPhase]))

\* GetValidateMessageParams and the checks of msg.go, for the heights e of one epoch.
CheckReplicaMessage(m, e) == <<m.header.height, m.header.rootHeight>> = e

CheckProposerMessage(m, e) ==
  /\ CheckBasic(m.qc)
  /\ <<m.header.height, m.qc.header.rootHeight>> = e
  /\ m.qc.header.height >= m.header.height - 1
  /\ m.header.phase = Propose => m.qc.proposer = m.from

\* handleHighQCVDFAndEvidence refuses a vote whose lock does not verify.
CheckHighQC(n, qc) ==
  /\ CheckBasic(qc)
  /\ qc.header.height = view[n].height
  /\ qc.header.rootHeight >= LastRootHeightUpdated(n)

\* The votes of the previous phase of this round that n, as the proposer they name,
\* may have stored.  A stored vote has had its lock adopted (see AdoptHighQC).
Votes(n) ==
  {m \in msgs : /\ m.type = "vote" /\ m.proposer = n
                /\ m.header.round = view[n].round
                /\ m.header.phase = view[n].phase - 1
                /\ \E e \in epochs[n] : CheckReplicaMessage(m, e)
                /\ m.highQC # Nil =>
                     /\ CheckHighQC(n, m.highQC)
                     /\ highQC[n] # Nil /\ ~Less(highQC[n].header, m.highQC.header)}

\* What the sign bytes of a vote contain; votes are aggregated by it.
Payload(m) == [header |-> m.header, prop |-> m.prop, proposer |-> m.proposer]

\* GetMajorityVote: the payloads that may have +2/3 behind them.
MajorityVotes(n) ==
  LET cast == Votes(n)
  IN {p \in {Payload(m) : m \in cast} :
        {m.from : m \in {x \in cast : Payload(x) = p}} \in Maj23}

\* Wrong: leader messages are kept by round only.
GetProposalAnyPhase(n) ==
  {m \in msgs : /\ m.type = "leader"
                /\ m.header.round = view[n].round
                /\ \/ \E e \in epochs[n] : CheckProposerMessage(m, e)
                   \/ n \in Preempted /\ m = carried[n]}

\* GetProposal: the leader messages that may be in the slot of the previous phase of
\* this round.
GetProposal(n) ==
  {m \in msgs : /\ m.type = "leader"
                /\ m.header.round = view[n].round
                /\ m.header.phase = view[n].phase - 1
                /\ \/ \E e \in epochs[n] : CheckProposerMessage(m, e)
                   \/ n \in Preempted /\ m = carried[n]}

\* CheckProposerAndProposal
CheckProposerAndProposal(n, m) ==
  /\ m.from = proposerKey[n]
  /\ block[n] # Nil
  /\ Hashes(n) = m.qc.prop

\* Wrong: a locked replica votes for anything.
SafeNodeAlways(n, m) == TRUE

\* Wrong: a locked replica waits for a higher lock.
SafeNodeHigherOnly(n, m) ==
  /\ m.highQC # Nil
  /\ m.highQC.header.round > highQC[n].header.round

\* SafeNode: may a locked replica vote for m?
SafeNode(n, m) ==
  /\ m.highQC # Nil
  /\ \/ m.qc.data.block = m.highQC.prop.block
     \/ m.qc.data.results = m.highQC.prop.results
  /\ \/ highQC[n].prop = m.highQC.prop
     \/ m.highQC.header.round > highQC[n].header.round

-----------------------------------------------------------------------------
(***************************************************************************)
(* Phase handlers.                                                         *)
(***************************************************************************)

StartElectionPhase(n) ==
  /\ Expired(n, Election)
  /\ NextPhase(n)
  /\ UNCHANGED <<proposerKey, block, blockHash, highQC, rcBuildHeight, epochs,
                 carried, timer, ctlVars, msgs>>

StartElectionVotePhase(n) ==
  /\ Expired(n, ElectionVote)
  /\ \E l \in Candidates[view[n].round] :
       Send(VoteMsg(n, view[n], Nil, l, highQC[n], rcBuildHeight[n]))
  /\ proposerKey' = [proposerKey EXCEPT ![n] = Nil]
  /\ NextPhase(n)
  /\ UNCHANGED <<block, blockHash, highQC, rcBuildHeight, epochs, carried,
                 timer, ctlVars>>

\* The block ProduceProposal builds at this height.
Build(n, p) == [block |-> <<ChainHeight(n), p.block>>, results |-> p.results]

\* What a leader proposes: the locked proposal, or else a new one, together with its
\* root-chain build height.  ProduceProposal takes the proposal cached by the mempool,
\* which may have been built at an earlier root height than the current one.
NewProposals(n) == {<<Build(n, p), rc>> : p \in Proposals, rc \in 1 .. rootHeight[n]}
ToPropose(n) ==
  IF highQC[n] # Nil THEN {<<highQC[n].data, rcBuildHeight[n]>>} ELSE NewProposals(n)

\* The PROPOSE message justified by the election votes with payload v.
ProposeData(n, v, data, rc) ==
  /\ block' = [block EXCEPT ![n] = data]
  /\ blockHash' = [blockHash EXCEPT ![n] = GetBlockHash(n, data)]
  /\ rcBuildHeight' = [rcBuildHeight EXCEPT ![n] = rc]
  /\ Send(LeaderMsg(n, view[n],
            Certificate(v.header, [data EXCEPT !.block = GetBlockHash(n, data)],
                        data, v.proposer),
            highQC[n], rc))

StartProposePhase(n) ==
  /\ Expired(n, Propose)
  /\ \/ \* no +2/3 majority arrived
        UNCHANGED <<block, blockHash, rcBuildHeight, msgs>>
     \/ \* ProduceProposal fails
        /\ MajorityVotes(n) # {} /\ highQC[n] = Nil
        /\ block' = [block EXCEPT ![n] = Nil]
        /\ rcBuildHeight' = [rcBuildHeight EXCEPT ![n] = 0]
        /\ UNCHANGED <<blockHash, msgs>>
     \/ \E v \in MajorityVotes(n), d \in ToPropose(n) : ProposeData(n, v, d[1], d[2])
  /\ NextPhase(n)
  /\ UNCHANGED <<proposerKey, highQC, epochs, carried, timer, ctlVars>>

\* What makes a replica interrupt the round instead of voting for m, besides
\* ValidateProposal failing.
RejectsProposal(n, m) ==
  \/ highQC[n] # Nil /\ ~SafeNode(n, m)
  \/ m.rcBuildHeight < LastRootHeightUpdated(n)
  \/ m.qc.header.height # ChainHeight(n)
  \/ m.qc.data.block[1] # ChainHeight(n)

StartProposeVotePhase(n) ==
  /\ Expired(n, ProposeVote)
  /\ \/ \* no proposal arrived
        /\ RoundInterrupt(n)
        /\ UNCHANGED <<proposerKey, block, blockHash>>
     \/ \E m \in GetProposal(n) :
          /\ proposerKey' = [proposerKey EXCEPT ![n] = m.from]
          /\ \/ \* rejected, or ValidateProposal fails
                /\ RoundInterrupt(n)
                /\ UNCHANGED <<block, blockHash>>
             \/ /\ ~RejectsProposal(n, m)
                /\ block' = [block EXCEPT ![n] = m.qc.data]
                /\ blockHash' = [blockHash EXCEPT ![n] = GetBlockHash(n, m.qc.data)]
                /\ Send(VoteMsg(n, view[n],
                          [m.qc.data EXCEPT !.block = GetBlockHash(n, m.qc.data)],
                          m.from, Nil, 0))
                /\ NextPhase(n)
  /\ UNCHANGED <<highQC, rcBuildHeight, epochs, carried, timer, ctlVars>>

\* The PRECOMMIT and COMMIT message of a leader.  Its aggregate signature verifies
\* only if the leader still holds the proposal that was voted for; otherwise every
\* receiver discards the message and it is left out.
Certify(n, v, rc) ==
  IF Hashes(n) = v.prop
  THEN Send(LeaderMsg(n, view[n], Certificate(v.header, v.prop, Nil, v.proposer), Nil, rc))
  ELSE UNCHANGED msgs

StartCertifyPhase(n, phase, rc) ==
  /\ Expired(n, phase)
  /\ \/ /\ proposerKey[n] # n
        /\ NextPhase(n)
        /\ UNCHANGED msgs
     \/ \* no +2/3 majority arrived
        /\ proposerKey[n] = n
        /\ RoundInterrupt(n)
     \/ /\ proposerKey[n] = n
        /\ \E v \in MajorityVotes(n) : Certify(n, v, rc)
        /\ NextPhase(n)
  /\ UNCHANGED <<proposerKey, block, blockHash, highQC, rcBuildHeight, epochs,
                 carried, timer, ctlVars>>

StartPrecommitPhase(n) == StartCertifyPhase(n, Precommit, rcBuildHeight[n])

StartCommitPhase(n) == StartCertifyPhase(n, Commit, 0)

StartPrecommitVotePhase(n) ==
  /\ Expired(n, PrecommitVote)
  /\ \/ \* nothing arrived, or it fails CheckProposerAndProposal
        /\ RoundInterrupt(n)
        /\ UNCHANGED <<highQC, rcBuildHeight>>
     \/ \E m \in GetProposal(n) :
          /\ CheckProposerAndProposal(n, m)
          /\ highQC' = [highQC EXCEPT ![n] = [m.qc EXCEPT !.data = block[n]]]
          /\ rcBuildHeight' = [rcBuildHeight EXCEPT ![n] = m.rcBuildHeight]
          /\ Send(VoteMsg(n, view[n], Hashes(n), proposerKey[n], Nil, 0))
          /\ NextPhase(n)
  /\ UNCHANGED <<proposerKey, block, blockHash, epochs, carried,
                 timer, ctlVars>>

\* The block goes to the node's own block inbox and then to its peers; no timer is
\* set afterwards.
StartCommitProcessPhase(n) ==
  /\ Expired(n, CommitProcess)
  /\ \/ \* nothing arrived, or it fails CheckProposerAndProposal
        /\ RoundInterrupt(n)
        /\ UNCHANGED timer
     \/ \E m \in GetProposal(n) :
          /\ CheckProposerAndProposal(n, m)
          /\ Send(BlockMsg([m.qc EXCEPT !.data = block[n]]))
          /\ timer' = [timer EXCEPT ![n] = FALSE]
          /\ UNCHANGED view
  /\ UNCHANGED <<proposerKey, block, blockHash, highQC, rcBuildHeight, epochs,
                 carried, ctlVars>>

-----------------------------------------------------------------------------
(***************************************************************************)
(* New rounds and new heights.                                             *)
(***************************************************************************)

\* Wrong: the round is repeated.
NewRoundRepeated(n, round) ==
  /\ view' = [view EXCEPT ![n] =
       [height |-> ChainHeight(n), rootHeight |-> rootHeight[n],
        round |-> 0, phase |-> Election]]
  /\ proposerKey' = [proposerKey EXCEPT ![n] = Nil]
  /\ block' = [block EXCEPT ![n] = Nil]
  /\ blockHash' = [blockHash EXCEPT ![n] = Nil]

\* RefreshRootChainInfo and the rest of NewRound: the view moves to the newest
\* heights and the per-round data is cleared.
NewRound(n, round) ==
  /\ view' = [view EXCEPT ![n] =
       [height |-> ChainHeight(n), rootHeight |-> rootHeight[n],
        round |-> round, phase |-> Election]]
  /\ proposerKey' = [proposerKey EXCEPT ![n] = Nil]
  /\ block' = [block EXCEPT ![n] = Nil]
  /\ blockHash' = [blockHash EXCEPT ![n] = Nil]

\* Who may be known to have interrupted a round in R.
Interrupted(n, R) ==
  {m.from : m \in {x \in msgs : /\ x.type = "pacemaker" /\ x.header.round \in R
                                /\ \E e \in epochs[n] : CheckReplicaMessage(x, e)}}

\* The pacemaker messages that arrived, one per sender, are added up from the highest
\* round down until their power reaches PacemakerPower, which happens at round r.
ReachedAt(n, r) ==
  \E above \in SUBSET Interrupted(n, r + 1 .. MaxRound), at \in SUBSET Interrupted(n, {r}) :
    /\ PowerOf(above) < PacemakerPower
    /\ PowerOf(above \cup at) >= PacemakerPower

\* Pacemaker: the next round, or a higher one that +1/3 of the power has reached.
Pacemaker(n) ==
  /\ Expired(n, PacemakerPhase)
  /\ view[n].round < MaxRound
  /\ \E r \in view[n].round + 1 .. MaxRound :
       /\ r > view[n].round + 1 => ReachedAt(n, r)
       /\ NewRound(n, r)
  /\ epochs' = [epochs EXCEPT ![n] = @ \cup {<<ChainHeight(n), rootHeight[n]>>}]
  /\ UNCHANGED <<highQC, rcBuildHeight, carried, timer, ctlVars, msgs>>

\* Wrong: every reset clears the lock.
NewHeightUnlocked(n, keepLocks) ==
  /\ NewRound(n, 0)
  /\ epochs' = [epochs EXCEPT ![n] = {<<ChainHeight(n), rootHeight[n]>>}]
  /\ highQC' = [highQC EXCEPT ![n] = Nil]
  /\ rcBuildHeight' = [rcBuildHeight EXCEPT ![n] = 0]

\* NewHeight: votes, proposals and pacemaker messages are cleared; the lock stays
\* only if keepLocks, that is for a root-chain update.
NewHeight(n, keepLocks) ==
  /\ NewRound(n, 0)
  /\ epochs' = [epochs EXCEPT ![n] = {<<ChainHeight(n), rootHeight[n]>>}]
  /\ highQC' = IF keepLocks THEN highQC ELSE [highQC EXCEPT ![n] = Nil]
  /\ rcBuildHeight' = IF keepLocks THEN rcBuildHeight ELSE [rcBuildHeight EXCEPT ![n] = 0]

\* The leader messages that may have passed the checks before a reset clears the
\* stores, and be stored after it.
Overtaken(n) ==
  IF n \in Preempted
  THEN {m \in msgs : m.type = "leader" /\ \E e \in epochs[n] : CheckProposerMessage(m, e)}
  ELSE {}

\* Start(): the RESET BFT case of the loop.
ResetBFT(n) ==
  /\ resets[n] # <<>>
  /\ NewHeight(n, Head(resets[n]))
  /\ \E m \in Overtaken(n) \cup {Nil} : carried' = [carried EXCEPT ![n] = m]
  /\ resets' = [resets EXCEPT ![n] = Tail(@)]
  /\ overtaken' = [overtaken EXCEPT ![n] = 0]
  /\ timer' = [timer EXCEPT ![n] = TRUE]
  /\ UNCHANGED <<syncing, rootHeight, chain, restarts, msgs>>

\* HandlePhase while syncing: the timer is stopped.
PausePhase(n) ==
  /\ timer[n] /\ syncing[n]
  /\ timer' = [timer EXCEPT ![n] = FALSE]
  /\ UNCHANGED <<view, proposerKey, block, blockHash, highQC, rcBuildHeight,
                 epochs, carried, ctlVars, msgs>>

-----------------------------------------------------------------------------
(***************************************************************************)
(* The controller: votes with a lock, blocks, syncing, root-chain updates, *)
(* restart.                                                                *)
(***************************************************************************)

\* Wrong: any certificate is taken over.
AnyLock(n, m) ==
  /\ m.type = "vote" /\ m.header.phase = ElectionVote /\ m.proposer = n
  /\ CheckReplicaMessage(m, <<view[n].height, view[n].rootHeight>>)
  /\ m.highQC # Nil /\ CheckHighQC(n, m.highQC)

\* Message m is an ELECTION-VOTE for n whose lock is higher than n's own.
HigherLock(n, m) ==
  /\ m.type = "vote" /\ m.header.phase = ElectionVote /\ m.proposer = n
  /\ CheckReplicaMessage(m, <<view[n].height, view[n].rootHeight>>)
  /\ m.highQC # Nil /\ CheckHighQC(n, m.highQC)
  /\ highQC[n] # Nil => Less(highQC[n].header, m.highQC.header)

\* AddVote: the higher lock is adopted, in whatever phase and round the node is, and
\* the block and results are replaced by those of the vote, which has none.
AdoptHighQC(n, m) ==
  /\ HigherLock(n, m) /\ ~syncing[n]
  /\ highQC' = [highQC EXCEPT ![n] = m.highQC]
  /\ block' = [block EXCEPT ![n] = Nil]
  /\ rcBuildHeight' = [rcBuildHeight EXCEPT ![n] = m.rcBuildHeight]
  /\ UNCHANGED <<view, proposerKey, blockHash, epochs, carried, timer, ctlVars, msgs>>

Room(n) == Len(resets[n]) < ResetCap

\* ListenForBlock / HandlePeerBlock: a certified block of the next height is
\* committed and a NEW_HEIGHT reset queued.
HandlePeerBlock(n, m) ==
  /\ m.type = "block" /\ ~syncing[n]
  /\ CheckBasic(m.qc)
  /\ m.qc.header.phase = PrecommitVote
  /\ m.qc.header.height = ChainHeight(n) /\ m.qc.data.block[1] = ChainHeight(n)
  /\ Room(n)
  /\ chain' = [chain EXCEPT ![n] = Append(@, m.qc)]
  /\ resets' = [resets EXCEPT ![n] = Append(@, FALSE)]
  /\ UNCHANGED <<bftVars, syncing, rootHeight, restarts, msgs>>

\* ListenForBlock: a block of a later height shows that the node fell behind.
StartSync(n, m) ==
  /\ m.type = "block" /\ ~syncing[n]
  /\ m.qc.header.height > ChainHeight(n)
  /\ syncing' = [syncing EXCEPT ![n] = TRUE]
  /\ UNCHANGED <<bftVars, resets, rootHeight, chain, restarts, msgs>>

\* processQueue: the next block, as stored by a peer, is committed.
SyncBlock(n, p) ==
  /\ syncing[n] /\ Len(chain[p]) >= ChainHeight(n)
  /\ chain' = [chain EXCEPT ![n] = Append(@, chain[p][ChainHeight(n)])]
  /\ UNCHANGED <<bftVars, resets, syncing, rootHeight, restarts, msgs>>

\* finishSyncing.  The height to reach is what peers reported when asked, which may
\* be any height they have had.
FinishSync(n) ==
  /\ syncing[n] /\ Room(n)
  /\ syncing' = [syncing EXCEPT ![n] = FALSE]
  /\ resets' = [resets EXCEPT ![n] = Append(@, FALSE)]
  /\ UNCHANGED <<bftVars, rootHeight, chain, restarts, msgs>>

\* UpdateRootChainInfo: the (active) root chain has a new block.  Its committee is never
\* empty, so the reset keeps the locks.
UpdateRootChainInfo(n) ==
  /\ rootHeight[n] < MaxRootHeight /\ Room(n)
  /\ rootHeight' = [rootHeight EXCEPT ![n] = @ + 1]
  /\ resets' = [resets EXCEPT ![n] = Append(@, TRUE)]
  /\ UNCHANGED <<bftVars, syncing, chain, restarts, msgs>>

\* A crash and a restart: New() and Start().  Only the chain survives; the node
\* syncs before it takes part again.
Restart(n) ==
  /\ n \in Restartable /\ restarts < MaxRestarts
  /\ restarts' = restarts + 1
  /\ view' = [view EXCEPT ![n] =
       [height |-> ChainHeight(n), rootHeight |-> rootHeight[n],
        round |-> 0, phase |-> Unknown]]
  /\ proposerKey' = [proposerKey EXCEPT ![n] = Nil]
  /\ block' = [block EXCEPT ![n] = Nil]
  /\ blockHash' = [blockHash EXCEPT ![n] = Nil]
  /\ highQC' = [highQC EXCEPT ![n] = Nil]
  /\ rcBuildHeight' = [rcBuildHeight EXCEPT ![n] = 0]
  /\ epochs' = [epochs EXCEPT ![n] = {<<ChainHeight(n), rootHeight[n]>>}]
  /\ carried' = [carried EXCEPT ![n] = Nil]
  /\ timer' = [timer EXCEPT ![n] = FALSE]
  /\ resets' = [resets EXCEPT ![n] = <<>>]
  /\ overtaken' = [overtaken EXCEPT ![n] = 0]
  /\ syncing' = [syncing EXCEPT ![n] = TRUE]
  /\ UNCHANGED <<rootHeight, chain, msgs>>

-----------------------------------------------------------------------------
\* Every validator has just processed the reset that starts height 1.
Init ==
  /\ view = [n \in Node |->
       [height |-> 1, rootHeight |-> 1, round |-> 0, phase |-> Election]]
  /\ proposerKey = [n \in Node |-> Nil]
  /\ block = [n \in Node |-> Nil]
  /\ blockHash = [n \in Node |-> Nil]
  /\ highQC = [n \in Node |-> Nil]
  /\ rcBuildHeight = [n \in Node |-> 0]
  /\ epochs = [n \in Node |-> {<<1, 1>>}]
  /\ carried = [n \in Node |-> Nil]
  /\ timer = [n \in Node |-> TRUE]
  /\ resets = [n \in Node |-> <<>>]
  /\ overtaken = [n \in Node |-> 0]
  /\ syncing = [n \in Node |-> FALSE]
  /\ rootHeight = [n \in Node |-> 1]
  /\ chain = [n \in Node |-> <<>>]
  /\ restarts = 0
  /\ msgs = {}

\* The handler of an expired phase timer.  A handler that runs while a reset is waiting
\* overtakes it, Pacemaker as part of the next one (its wait time is 0).
HandlePhase(n) ==
  /\ \/ StartElectionPhase(n)
     \/ StartElectionVotePhase(n)
     \/ StartProposePhase(n)
     \/ StartProposeVotePhase(n)
     \/ StartPrecommitPhase(n)
     \/ StartPrecommitVotePhase(n)
     \/ StartCommitPhase(n)
     \/ StartCommitProcessPhase(n)
     \/ Pacemaker(n)
     \/ PausePhase(n)
  /\ overtaken' = IF resets[n] = <<>> \/ view[n].phase = PacemakerPhase THEN overtaken
                  ELSE [overtaken EXCEPT ![n] = @ + 1]

Controller(n) ==
  /\ \/ \E m \in msgs : AdoptHighQC(n, m) \/ HandlePeerBlock(n, m) \/ StartSync(n, m)
     \/ \E p \in Node \ {n} : SyncBlock(n, p)
     \/ FinishSync(n)
     \/ UpdateRootChainInfo(n)
  /\ UNCHANGED overtaken

Next == \E n \in Node : HandlePhase(n) \/ Controller(n) \/ ResetBFT(n) \/ Restart(n)

Spec == Init /\ [][Next]_vars

-----------------------------------------------------------------------------
(***************************************************************************)
(* Properties.                                                             *)
(***************************************************************************)

\* The validators that signed a payload, as far as anyone can know.
Signers(p) == {m.from : m \in {x \in msgs : x.type = "vote" /\ Payload(x) = p}}

\* The payloads of a voting phase that +2/3 of the power has signed.
Certified(phase) ==
  {p \in {Payload(m) : m \in {x \in msgs : x.type = "vote" /\ x.header.phase = phase}} :
     Signers(p) \in Maj23}

QCs == {q \in UNION {{m.qc, m.highQC} : m \in {x \in msgs : x.type = "leader"}}
               \cup {highQC[n] : n \in Node} : q # Nil}

\* The views a node can be in, and the headers of what it signs there.
ViewType == [height : 1 .. MaxHeight + 1, rootHeight : 1 .. MaxRootHeight,
             round : 0 .. MaxRound, phase : Unknown .. PacemakerPhase]
HeaderType == [height : 1 .. MaxHeight, rootHeight : 1 .. MaxRootHeight,
               round : 0 .. MaxRound, phase : Unknown .. PacemakerPhase]

\* A block and its results, or their hashes; and certificates.
HashType == (1 .. MaxHeight + 1) \X {p.block : p \in Proposals}
BlockType == [block : HashType, results : {p.results : p \in Proposals}]
QCType == [header : HeaderType, prop : BlockType \cup {Nil}, data : BlockType \cup {Nil},
           proposer : Node]

\* A Go nil is neither a certificate nor a block.
ASSUME NilAssumption == Nil \notin QCType \cup BlockType

\* A lock is a certificate of PROPOSE-VOTEs with the block attached.
IsLock(qc) == qc \in QCType /\ qc.data \in BlockType /\ qc.header.phase = ProposeVote

\* What every message is signed with; a leader's certificate is of the votes of the phase
\* before its message, with the block in a PROPOSE, and a block's of PRECOMMIT-VOTEs.
MessageOK(m) ==
  \/ m.type = "block" /\ m.qc \in QCType /\ m.qc.header.phase = PrecommitVote
  \/ /\ m.type = "vote" /\ m.from \in Node /\ m.proposer \in Node /\ m.header \in HeaderType
     /\ m.prop \in BlockType \cup {Nil} /\ (m.highQC # Nil => IsLock(m.highQC))
  \/ /\ m.type = "leader" /\ m.from \in Node /\ m.header \in HeaderType /\ m.qc \in QCType
     /\ m.qc.header.phase = m.header.phase - 1
     /\ m.header.phase = Propose => m.qc.data \in BlockType
  \/ m.type = "pacemaker" /\ m.from \in Node /\ m.header \in HeaderType

\* The variables have the types of the Go structs, phases and rounds stay in range, a lock
\* is a certificate of the phase that locks, and whatever is sent is signed for a height
\* still to be decided.
TypeOK ==
  /\ view \in [Node -> ViewType]
  /\ proposerKey \in [Node -> Node \cup {Nil}]
  /\ block \in [Node -> BlockType \cup {Nil}] /\ blockHash \in [Node -> HashType \cup {Nil}]
  /\ timer \in [Node -> BOOLEAN] /\ syncing \in [Node -> BOOLEAN]
  /\ rootHeight \in [Node -> 1 .. MaxRootHeight]
  /\ resets \in [Node -> Seq(BOOLEAN)] /\ overtaken \in [Node -> Nat]
  /\ DOMAIN chain = Node /\ DOMAIN highQC = Node /\ DOMAIN epochs = Node
  /\ \A n \in Node : /\ Len(resets[n]) <= ResetCap
                     /\ chain[n] \in Seq(ToSet(chain[n])) /\ Len(chain[n]) <= MaxHeight
                     /\ highQC[n] # Nil => IsLock(highQC[n])
  /\ restarts \in 0 .. MaxRestarts
  /\ \A m \in msgs : MessageOK(m)

\* No two validators commit different proposals at the same height.
Agreement ==
  \A x, y \in Node : \A h \in 1 .. Min({Len(chain[x]), Len(chain[y])}) :
    chain[x][h].prop = chain[y][h].prop

\* +2/3 have certified a block above height h.
Outrun(h) == \E m \in msgs : m.type = "block" /\ m.qc.header.height > h

\* No validator that keeps its memory signs two different PROPOSE-VOTE or
\* PRECOMMIT-VOTE payloads for one view: that is what double-sign evidence
\* (DoubleSignEvidence.Check) punishes.  Not so at a height that the others have left: a
\* node that syncs without getting a block starts its height over, in round 0 and
\* without its lock (finishSyncing).
NoDoubleSign ==
  \A x, y \in msgs :
    (/\ x.type = "vote" /\ y.type = "vote" /\ x.from = y.from
     /\ x.from \notin Restartable /\ ~Outrun(x.header.height)
     /\ x.header = y.header /\ x.header.phase > Propose) => Payload(x) = Payload(y)

\* Once +2/3 have signed a PRECOMMIT-VOTE, so that the block may be committed
\* somewhere, every later PROPOSE message of that height carries the same proposal.  Not so
\* at a height that the others have left: its leader may start it over, without its lock
\* (finishSyncing).
LaterProposalsSafe ==
  \A m \in msgs :
    (m.type = "leader" /\ m.header.phase = Propose /\ ~Outrun(m.header.height)) =>
      \A p \in Certified(PrecommitVote) :
        (p.header.height = m.header.height /\ Less(p.header, m.header)) => m.qc.prop = p.prop

\* A validator that signed a PRECOMMIT-VOTE for one proposal signs a PROPOSE-VOTE for
\* another, at the same height, only when +2/3 have voted for that other one in a later
\* view (SafeNode).  That is meant within one root height, as SafeNode compares rounds, which
\* a root-chain update starts again, and of a height the others have not left.
UnlockJustified ==
  [][\A y \in msgs' \ msgs, x \in msgs :
       (/\ x.type = "vote" /\ y.type = "vote" /\ x.from = y.from
        /\ x.header.phase = PrecommitVote /\ y.header.phase = ProposeVote
        /\ x.header.height = y.header.height /\ MaxRootHeight = 1
        /\ ~Outrun(x.header.height)
        /\ x.from \notin Restartable \cup Preempted /\ x.prop # y.prop) =>
          \E p \in Certified(ProposeVote) :
            /\ p.prop = y.prop /\ p.header.height = y.header.height
            /\ Less(x.header, p.header)]_vars

\* +2/3 have already certified a block above the height n works at.
LeftBehind(n) == Outrun(ChainHeight(n))

\* The lock of a validator that never restarted, and that no reset overtook while it
\* handled a message, is at least as high as every PRECOMMIT-VOTE it signed at its
\* height, whatever rounds, root-chain updates and locks of others came since.
LockKept ==
  \A m \in msgs : \A n \in Node \ (Restartable \cup Preempted) :
    (/\ m.type = "vote" /\ m.from = n /\ m.header.phase = PrecommitVote
     /\ m.header.height = ChainHeight(n) /\ ~LeftBehind(n)) =>
       /\ highQC[n] # Nil
       /\ ~Less(highQC[n].header, [m.header EXCEPT !.phase = ProposeVote])

\* n has signed a proposal of the height it works at.
HasSigned(n) ==
  \E x \in msgs : /\ x.type = "vote" /\ x.from = n /\ x.header.phase > Propose
                  /\ x.header.height = ChainHeight(n)

\* Once a validator has signed at its height, no step but a commit takes its lock away or
\* replaces it by a lower one (NewHeight, AddVote, StartPrecommitVotePhase), except a lock
\* it took over from a later view than its own.
LockNotLost ==
  [][\A n \in Node \ (Restartable \cup Preempted) :
       (highQC[n] # Nil /\ HasSigned(n) /\ ~LeftBehind(n) /\ chain'[n] = chain[n]) =>
          /\ highQC'[n] # Nil
          /\ Less(highQC'[n].header, highQC[n].header) => Less(view[n], highQC[n].header)]_vars

=============================================================================
