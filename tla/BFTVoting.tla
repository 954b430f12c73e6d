----------------------------- MODULE BFTVoting -----------------------------
(***************************************************************************)
(* NestBFT at one height, reduced to the votes that decide it: which votes *)
(* and proposals the phase handlers of package bft can emit, and when a    *)
(* block may be committed.  Timers, the network, the block under           *)
(* construction and the controller are gone; module BFT has them and is    *)
(* shown to implement this specification.                                  *)
(*                                                                         *)
(* A view is a root height and a round, ordered as View.Less orders        *)
(* them.  A value is a block with its results.  The electorate is given    *)
(* by its +2/3 quorums.  A validator in Forgetful may lose its memory (it  *)
(* may crash and restart) and so vote in any view, more than once, and     *)
(* without its lock.                                                       *)
(***************************************************************************)
EXTENDS Integers

CONSTANTS
  Node,        \* the committee
  Quorum,      \* the sets of validators with +2/3 of the voting power
  Forgetful,   \* the validators that may crash and restart
  Value,       \* the proposals that can be built: a block and its results
  View,        \* the views of this height
  Candidates,  \* the validators sortition may elect in each view
  Nil          \* a Go nil

Lock == [view : View, val : Value]

ASSUME QuorumAssumption ==
  /\ Quorum \subseteq SUBSET Node
  /\ \A Q, R \in Quorum : \E n \in Q \cap R : n \notin Forgetful
ASSUME ViewAssumption == View \subseteq [rootHeight : Nat, round : Nat]
ASSUME NilAssumption == Nil \notin Lock /\ Nil \notin Value

VARIABLES
  electionVotes,  \* ELECTION-VOTEs, with the lock each one carries
  proposals,      \* PROPOSE messages, with the lock that justifies each
  proposeVotes,   \* PROPOSE-VOTEs
  precommitVotes, \* PRECOMMIT-VOTEs
  highQC,         \* b.HighQC: the lock of each validator
  committed,      \* what each validator has committed at this height
  left            \* the validators that have moved on to the next height

vars == <<electionVotes, proposals, proposeVotes, precommitVotes, highQC,
          committed, left>>

-----------------------------------------------------------------------------
\* View.Less within a height and a phase: root height first, then round.
Less(v, w) ==
  \/ v.rootHeight < w.rootHeight
  \/ v.rootHeight = w.rootHeight /\ v.round < w.round

Vote(n, v, val) == [from |-> n, view |-> v, val |-> val]

\* +2/3 of the power has signed a PROPOSE-VOTE for val in view v: the certificate a
\* PRECOMMIT message and a lock consist of.
Certified(v, val) == \E Q \in Quorum : \A n \in Q : Vote(n, v, val) \in proposeVotes

\* The same for PRECOMMIT-VOTEs: the certificate of a COMMIT message and of a block.
Decided(v, val) == \E Q \in Quorum : \A n \in Q : Vote(n, v, val) \in precommitVotes

\* Wrong: a replica may return to a view it has left.
WasInView(n, v) ==
  /\ n \notin left
  /\ \E e \in electionVotes : e.from = n /\ e.view = v

\* n is in view v: it has sent its ELECTION-VOTE there and has not gone further.
InView(n, v) ==
  /\ n \notin left
  /\ \E e \in electionVotes : e.from = n /\ e.view = v
  /\ n \notin Forgetful => \A e \in electionVotes : e.from = n => ~Less(v, e.view)

\* SafeNode: may n, with its lock, vote for proposal p?
SafeNode(n, p) ==
  highQC[n] # Nil =>
    /\ p.highQC # Nil
    /\ \/ p.highQC.val = highQC[n].val
       \/ p.highQC.view.round > highQC[n].view.round

\* Wrong: the locks that votes carry are ignored.
CountedBlindly(n, e) == TRUE

\* The leader n has counted vote e, and so has taken over any higher lock it carries.
Counted(n, e) ==
  e.highQC # Nil => highQC[n] # Nil /\ ~Less(highQC[n].view, e.highQC.view)

-----------------------------------------------------------------------------
Init ==
  /\ electionVotes = {}
  /\ proposals = {}
  /\ proposeVotes = {}
  /\ precommitVotes = {}
  /\ highQC = [n \in Node |-> Nil]
  /\ committed = [n \in Node |-> Nil]
  /\ left = {}

\* StartElectionVotePhase: the vote carries the replica's lock.
ElectionVote(n, v, l) ==
  /\ n \notin left
  /\ l \in Candidates[v]
  /\ n \notin Forgetful => \A e \in electionVotes : e.from = n => Less(e.view, v)
  /\ electionVotes' = electionVotes \cup
       {[from |-> n, view |-> v, proposer |-> l, highQC |-> highQC[n]]}
  /\ UNCHANGED <<proposals, proposeVotes, precommitVotes, highQC, committed, left>>

\* handleHighQCVDFAndEvidence: a candidate takes over a higher lock.
AdoptHighQC(n, e) ==
  /\ n \notin left
  /\ e.proposer = n /\ e.highQC # Nil
  /\ highQC[n] # Nil => Less(highQC[n].view, e.highQC.view)
  /\ highQC' = [highQC EXCEPT ![n] = e.highQC]
  /\ UNCHANGED <<electionVotes, proposals, proposeVotes, precommitVotes, committed, left>>

\* StartProposePhase: +2/3 elected n in view v.  The locked value is proposed again; a
\* new one only if there is no lock.
Propose(n, v, val) ==
  /\ n \notin left
  /\ \E Q \in Quorum : \A m \in Q : \E e \in electionVotes :
       e.from = m /\ e.view = v /\ e.proposer = n /\ Counted(n, e)
  /\ highQC[n] # Nil => val = highQC[n].val
  /\ n \notin Forgetful => \A p \in proposals : ~(p.from = n /\ p.view = v)
  /\ proposals' = proposals \cup
       {[from |-> n, view |-> v, val |-> val, highQC |-> highQC[n]]}
  /\ UNCHANGED <<electionVotes, proposeVotes, precommitVotes, highQC, committed, left>>

\* StartProposeVotePhase
ProposeVote(n, p) ==
  /\ InView(n, p.view)
  /\ n \notin Forgetful =>
       /\ \A q \in proposeVotes : ~(q.from = n /\ q.view = p.view)
       /\ SafeNode(n, p)
  /\ proposeVotes' = proposeVotes \cup {Vote(n, p.view, p.val)}
  /\ UNCHANGED <<electionVotes, proposals, precommitVotes, highQC, committed, left>>

\* StartPrecommitVotePhase: the replica locks.
PrecommitVote(n, v, val) ==
  /\ InView(n, v)
  /\ Vote(n, v, val) \in proposeVotes
  /\ Certified(v, val)
  /\ precommitVotes' = precommitVotes \cup {Vote(n, v, val)}
  /\ highQC' = [highQC EXCEPT ![n] = [view |-> v, val |-> val]]
  /\ UNCHANGED <<electionVotes, proposals, proposeVotes, committed, left>>

\* HandlePeerBlock, or a synced block: a block with a +2/3 certificate is committed.
Commit(n, v, val) ==
  /\ committed[n] = Nil
  /\ Decided(v, val)
  /\ committed' = [committed EXCEPT ![n] = val]
  /\ UNCHANGED <<electionVotes, proposals, proposeVotes, precommitVotes, highQC, left>>

\* The NEW_HEIGHT reset that follows a commit.
Leave(n) ==
  /\ n \notin left /\ committed[n] # Nil
  /\ left' = left \cup {n}
  /\ highQC' = [highQC EXCEPT ![n] = Nil]
  /\ UNCHANGED <<electionVotes, proposals, proposeVotes, precommitVotes, committed>>

\* A crash and a restart: the lock is lost.
Restart(n) ==
  /\ n \in Forgetful
  /\ highQC' = [highQC EXCEPT ![n] = Nil]
  /\ UNCHANGED <<electionVotes, proposals, proposeVotes, precommitVotes, committed, left>>

Next ==
  \E n \in Node :
    \/ \E v \in View, l \in Node : ElectionVote(n, v, l)
    \/ \E e \in electionVotes : AdoptHighQC(n, e)
    \/ \E v \in View, val \in Value : Propose(n, v, val)
    \/ \E p \in proposals : ProposeVote(n, p)
    \/ \E v \in View, val \in Value : PrecommitVote(n, v, val)
    \/ \E v \in View, val \in Value : Commit(n, v, val)
    \/ Leave(n)
    \/ Restart(n)

Spec == Init /\ [][Next]_vars

-----------------------------------------------------------------------------
(***************************************************************************)
(* Properties.                                                             *)
(***************************************************************************)

TypeOK ==
  /\ electionVotes \subseteq
       [from : Node, view : View, proposer : Node, highQC : Lock \cup {Nil}]
  /\ proposals \subseteq [from : Node, view : View, val : Value, highQC : Lock \cup {Nil}]
  /\ proposeVotes \subseteq [from : Node, view : View, val : Value]
  /\ precommitVotes \subseteq [from : Node, view : View, val : Value]
  /\ highQC \in [Node -> Lock \cup {Nil}]
  /\ committed \in [Node -> Value \cup {Nil}]
  /\ left \subseteq Node

\* No two validators commit different blocks at the height, whatever votes are lost,
\* delayed or interleaved, and whichever validators in Forgetful restart.
Agreement ==
  \A m, n \in Node :
    committed[m] # Nil /\ committed[n] # Nil => committed[m] = committed[n]

\* The votes decide a height as Decision promises: one block, never replaced.
D == INSTANCE Decision
ImplementsDecision == D!Spec

\* SafeNode's justification (bft.go, above SafeNode): a replica that signed a
\* PRECOMMIT-VOTE votes for another proposal only if +2/3 voted for that one in a view
\* later than its lock.
UnlockJustified ==
  \A x \in precommitVotes, y \in proposeVotes :
    (/\ x.from = y.from /\ x.from \notin Forgetful
     /\ Less(x.view, y.view) /\ x.val # y.val) =>
       \E w \in View : Less(x.view, w) /\ Less(w, y.view) /\ Certified(w, y.val)

-----------------------------------------------------------------------------
(***************************************************************************)
(* The inductive invariant behind Agreement.                               *)
(***************************************************************************)

\* Every lock, held or sent along, is a certificate.
LocksCertified ==
  /\ \A n \in Node : highQC[n] # Nil => Certified(highQC[n].view, highQC[n].val)
  /\ \A e \in electionVotes : e.highQC # Nil => Certified(e.highQC.view, e.highQC.val)

\* PROPOSE-VOTEs are only cast for what was proposed, PRECOMMIT-VOTEs only for what is
\* certified and in a view the validator has joined.
VotesJustified ==
  /\ \A x \in proposeVotes : \E p \in proposals : p.view = x.view /\ p.val = x.val
  /\ \A x \in precommitVotes :
       /\ Certified(x.view, x.val)
       /\ \E e \in electionVotes : e.from = x.from /\ e.view = x.view

\* A validator that keeps its memory votes for one proposal per view.
OneVotePerView ==
  \A x, y \in proposeVotes :
    x.from = y.from /\ x.view = y.view /\ x.from \notin Forgetful => x.val = y.val

\* Lock qc is at least as high as every PRECOMMIT-VOTE n has signed before view v.
Covers(qc, n, v) ==
  \A x \in precommitVotes :
    x.from = n /\ Less(x.view, v) => qc # Nil /\ ~Less(qc.view, x.view)

\* A validator that keeps its memory holds a lock at least as high as any
\* PRECOMMIT-VOTE it signed, and each ELECTION-VOTE tells the leader of one at least
\* as high as those signed before.
LocksReported ==
  /\ \A n \in Node \ (Forgetful \cup left) : \A x \in precommitVotes :
       x.from = n => highQC[n] # Nil /\ ~Less(highQC[n].view, x.view)
  /\ \A e \in electionVotes : e.from \notin Forgetful => Covers(e.highQC, e.from, e.view)

\* In view w, nothing but val can be decided: some quorum is beyond w, and whoever of
\* it signed a PRECOMMIT-VOTE in w did so for val.
NoOtherDecided(w, val) ==
  \E Q \in Quorum : \A n \in Q \ Forgetful :
    /\ \E e \in electionVotes : e.from = n /\ Less(w, e.view)
    /\ \A x \in precommitVotes : x.from = n /\ x.view = w => x.val = val

\* What a leader proposes in a view is the only value that earlier views can decide.
ProposalsSafe ==
  \A p \in proposals : \A w \in View : Less(w, p.view) => NoOtherDecided(w, p.val)

\* A commit has a certificate.
CommitsDecided ==
  \A n \in Node : committed[n] # Nil => \E v \in View : Decided(v, committed[n])

Inv ==
  /\ TypeOK
  /\ LocksCertified
  /\ VotesJustified
  /\ OneVotePerView
  /\ LocksReported
  /\ ProposalsSafe
  /\ CommitsDecided
=============================================================================
