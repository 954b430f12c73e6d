-------------------------- MODULE BFTVotingProofs --------------------------
(***************************************************************************)
(* Agreement of BFTVoting, for every committee, every system of quorums    *)
(* that pairwise share a validator with a memory, and every set of views   *)
(* and values.                                                             *)
(***************************************************************************)
EXTENDS BFTVoting, FiniteSetTheorems, TLAPS

-----------------------------------------------------------------------------
(***************************************************************************)
(* Views and certificates.                                                 *)
(***************************************************************************)

\* View.Less is a strict total order on the views of a height.
LEMMA LessOrder ==
  /\ \A v \in View : ~Less(v, v)
  /\ \A u, v, w \in View : Less(u, v) /\ Less(v, w) => Less(u, w)
  /\ \A v, w \in View : v = w \/ Less(v, w) \/ Less(w, v)
<1>1. \A v \in View : v \in [rootHeight : Nat, round : Nat]
  BY ViewAssumption
<1>2. \A v, w \in View : v.rootHeight = w.rootHeight /\ v.round = w.round => v = w
  BY <1>1
<1>3. \A v \in View : v.rootHeight \in Nat /\ v.round \in Nat
  BY <1>1
<1> QED
  BY <1>2, <1>3 DEF Less

\* Two +2/3 certificates of one view are for the same proposal (GetMajorityVote).
LEMMA CertifiedUnique ==
  ASSUME OneVotePerView, NEW v, NEW x, NEW y, Certified(v, x), Certified(v, y)
  PROVE  x = y
<1>1. PICK Q \in Quorum : \A n \in Q : Vote(n, v, x) \in proposeVotes
  BY DEF Certified
<1>2. PICK R \in Quorum : \A n \in R : Vote(n, v, y) \in proposeVotes
  BY DEF Certified
<1>3. PICK n \in Q \cap R : n \notin Forgetful
  BY QuorumAssumption
<1> QED
  BY <1>1, <1>2, <1>3 DEF OneVotePerView, Vote

\* A certified value was proposed in its view, so no earlier view can decide another.
LEMMA CertifiedSafe ==
  ASSUME Inv, NEW v \in View, NEW val \in Value, Certified(v, val),
         NEW w \in View, Less(w, v)
  PROVE  NoOtherDecided(w, val)
<1>1. PICK Q \in Quorum : \A n \in Q : Vote(n, v, val) \in proposeVotes
  BY DEF Certified
<1>2. PICK n \in Q : TRUE
  BY QuorumAssumption
<1>3. PICK p \in proposals : p.view = v /\ p.val = val
  BY <1>1, <1>2 DEF Inv, VotesJustified, Vote
<1> QED
  BY <1>3 DEF Inv, ProposalsSafe

-----------------------------------------------------------------------------
(***************************************************************************)
(* The invariant is inductive: one lemma per action.                       *)
(***************************************************************************)

(* The initial state, where nothing was sent, satisfies the inductive
   invariant. *)
LEMMA InitInv == Init => Inv
  BY DEF Init, Inv, TypeOK, LocksCertified, VotesJustified, OneVotePerView,
         LocksReported, ProposalsSafe, CommitsDecided

\* StartElectionVotePhase: the new vote reports the replica's lock.
LEMMA ElectionVoteInv ==
  ASSUME Inv, NEW n \in Node, NEW v \in View, NEW l \in Node, ElectionVote(n, v, l)
  PROVE  Inv'
<1> DEFINE new == [from |-> n, view |-> v, proposer |-> l, highQC |-> highQC[n]]
<1>1. electionVotes' = electionVotes \cup {new}
  BY DEF ElectionVote
<1>2. UNCHANGED <<proposals, proposeVotes, precommitVotes, highQC, committed, left>>
  BY DEF ElectionVote
<1>3. TypeOK'
  BY <1>1, <1>2 DEF Inv, TypeOK
<1>4. LocksCertified'
  BY <1>1, <1>2 DEF Inv, LocksCertified, Certified
<1>5. VotesJustified' /\ OneVotePerView' /\ CommitsDecided'
  BY <1>1, <1>2 DEF Inv, VotesJustified, OneVotePerView, CommitsDecided, Certified, Decided
<1>6. LocksReported'
  <2>1. n \notin Forgetful => Covers(highQC[n], n, v)
    BY DEF Inv, LocksReported, Covers, ElectionVote
  <2> QED
    BY <1>1, <1>2, <2>1 DEF Inv, LocksReported, Covers
<1>7. ProposalsSafe'
  BY <1>1, <1>2 DEF Inv, ProposalsSafe, NoOtherDecided
<1> QED
  BY <1>3, <1>4, <1>5, <1>6, <1>7 DEF Inv

\* handleHighQCVDFAndEvidence: only a higher certificate replaces the lock.
LEMMA AdoptHighQCInv ==
  ASSUME Inv, NEW n \in Node, NEW e \in electionVotes, AdoptHighQC(n, e)
  PROVE  Inv'
<1>1. /\ highQC' = [highQC EXCEPT ![n] = e.highQC]
      /\ UNCHANGED <<electionVotes, proposals, proposeVotes, precommitVotes, committed, left>>
  BY DEF AdoptHighQC
<1>2. e.highQC \in Lock /\ (highQC[n] # Nil => highQC[n] \in Lock)
  BY DEF AdoptHighQC, Inv, TypeOK
<1>3. TypeOK'
  BY <1>1, <1>2 DEF Inv, TypeOK
<1>4. LocksCertified'
  BY <1>1 DEF Inv, TypeOK, LocksCertified, Certified
<1>5. VotesJustified' /\ OneVotePerView' /\ CommitsDecided' /\ ProposalsSafe'
  BY <1>1 DEF Inv, VotesJustified, OneVotePerView, CommitsDecided, ProposalsSafe,
              NoOtherDecided, Certified, Decided
<1>6. LocksReported'
  <2>1. ASSUME NEW x \in precommitVotes, x.from = n, n \notin Forgetful, n \notin left
        PROVE  ~Less(e.highQC.view, x.view)
    <3>1. highQC[n] # Nil /\ ~Less(highQC[n].view, x.view)
      BY <2>1 DEF Inv, LocksReported
    <3>2. Less(highQC[n].view, e.highQC.view)
      BY <3>1 DEF AdoptHighQC
    <3>3. x.view \in View /\ highQC[n].view \in View /\ e.highQC.view \in View
      BY <1>2, <3>1 DEF Inv, TypeOK, Lock
    <3> QED
      BY <3>1, <3>2, <3>3, LessOrder
  <2>2. e.highQC # Nil /\ highQC \in [Node -> Lock \cup {Nil}]
    BY DEF AdoptHighQC, Inv, TypeOK
  <2> QED
    BY <1>1, <2>1, <2>2 DEF Inv, LocksReported, Covers
<1> QED
  BY <1>3, <1>4, <1>5, <1>6 DEF Inv

\* StartProposePhase: the highest lock among +2/3 of the replicas decides what may
\* still be committed in earlier views.
LEMMA ProposeInv ==
  ASSUME Inv, NEW n \in Node, NEW v \in View, NEW val \in Value, Propose(n, v, val)
  PROVE  Inv'
<1> DEFINE new == [from |-> n, view |-> v, val |-> val, highQC |-> highQC[n]]
<1>1. /\ proposals' = proposals \cup {new}
      /\ UNCHANGED <<electionVotes, proposeVotes, precommitVotes, highQC, committed, left>>
  BY DEF Propose
<1>2. TypeOK'
  BY <1>1 DEF Inv, TypeOK
<1>3. LocksCertified' /\ OneVotePerView' /\ CommitsDecided' /\ LocksReported'
  BY <1>1 DEF Inv, LocksCertified, OneVotePerView, CommitsDecided, LocksReported,
              Covers, Certified, Decided
<1>4. VotesJustified'
  BY <1>1 DEF Inv, VotesJustified, Certified
<1>5. ASSUME NEW w \in View, Less(w, v)
      PROVE  NoOtherDecided(w, val)
  <2>1. PICK Q \in Quorum : \A m \in Q : \E e \in electionVotes :
          e.from = m /\ e.view = v /\ e.proposer = n /\ Counted(n, e)
    BY DEF Propose
  <2>2. ASSUME NEW m \in Q, m \notin Forgetful,
               NEW x \in precommitVotes, x.from = m, x.view = w
        PROVE  /\ highQC[n] # Nil
               /\ ~Less(highQC[n].view, w)
    <3>1. PICK e \in electionVotes : e.from = m /\ e.view = v /\ Counted(n, e)
      BY <2>1
    <3>2. e.highQC # Nil /\ ~Less(e.highQC.view, w)
      BY <1>5, <2>2, <3>1 DEF Inv, LocksReported, Covers
    <3>3. highQC[n] # Nil /\ ~Less(highQC[n].view, e.highQC.view)
      BY <3>1, <3>2 DEF Counted
    <3>4. highQC[n].view \in View /\ e.highQC.view \in View
      BY <3>2, <3>3 DEF Inv, TypeOK, Lock
    <3> QED
      BY <3>2, <3>3, <3>4, LessOrder
  <2>3. CASE \A m \in Q \ Forgetful : \A x \in precommitVotes :
               ~(x.from = m /\ x.view = w)
    BY <1>5, <2>1, <2>3 DEF NoOtherDecided
  <2>4. CASE \E m \in Q \ Forgetful : \E x \in precommitVotes :
               x.from = m /\ x.view = w
    <3>1. highQC[n] # Nil /\ ~Less(highQC[n].view, w)
      BY <2>2, <2>4
    <3>2. val = highQC[n].val /\ highQC[n].view \in View
      BY <3>1 DEF Propose, Inv, TypeOK, Lock
    <3>3. Certified(highQC[n].view, val)
      BY <3>1, <3>2 DEF Inv, LocksCertified
    <3>4. CASE Less(w, highQC[n].view)
      BY <3>2, <3>3, <3>4, CertifiedSafe
    <3>5. CASE highQC[n].view = w
      <4>1. \A x \in precommitVotes : x.view = w => x.val = val
        BY <3>3, <3>5, CertifiedUnique DEF Inv, VotesJustified
      <4> QED
        BY <1>5, <2>1, <4>1 DEF NoOtherDecided
    <3> QED
      BY <3>1, <3>2, <3>4, <3>5, LessOrder
  <2> QED
    BY <2>3, <2>4
<1>6. ProposalsSafe'
  BY <1>1, <1>5 DEF Inv, ProposalsSafe, NoOtherDecided
<1> QED
  BY <1>2, <1>3, <1>4, <1>6 DEF Inv

\* StartProposeVotePhase: one vote per view, for what was proposed.
LEMMA ProposeVoteInv ==
  ASSUME Inv, NEW n \in Node, NEW p \in proposals, ProposeVote(n, p)
  PROVE  Inv'
<1>1. /\ proposeVotes' = proposeVotes \cup {Vote(n, p.view, p.val)}
      /\ UNCHANGED <<electionVotes, proposals, precommitVotes, highQC, committed, left>>
  BY DEF ProposeVote
<1>2. TypeOK'
  BY <1>1 DEF Inv, TypeOK, Vote
<1>3. LocksCertified'
  BY <1>1 DEF Inv, LocksCertified, Certified
<1>4. VotesJustified'
  BY <1>1 DEF Inv, VotesJustified, Certified, Vote
<1>5. OneVotePerView'
  BY <1>1 DEF Inv, OneVotePerView, ProposeVote, Vote
<1>6. LocksReported' /\ CommitsDecided' /\ ProposalsSafe'
  BY <1>1 DEF Inv, LocksReported, Covers, CommitsDecided, Decided, ProposalsSafe,
              NoOtherDecided
<1> QED
  BY <1>2, <1>3, <1>4, <1>5, <1>6 DEF Inv

\* StartPrecommitVotePhase: the replica locks what it signs, in a view it has not left.
LEMMA PrecommitVoteInv ==
  ASSUME Inv, NEW n \in Node, NEW v \in View, NEW val \in Value, PrecommitVote(n, v, val)
  PROVE  Inv'
<1>1. /\ precommitVotes' = precommitVotes \cup {Vote(n, v, val)}
      /\ highQC' = [highQC EXCEPT ![n] = [view |-> v, val |-> val]]
      /\ UNCHANGED <<electionVotes, proposals, proposeVotes, committed, left>>
  BY DEF PrecommitVote
<1>2. [view |-> v, val |-> val] \in Lock /\ [view |-> v, val |-> val] # Nil
  BY NilAssumption DEF Lock
<1>3. /\ highQC'[n] = [view |-> v, val |-> val]
      /\ \A m \in Node \ {n} : highQC'[m] = highQC[m]
  BY <1>1 DEF Inv, TypeOK
<1>4. n \notin Forgetful => \A e \in electionVotes : e.from = n => ~Less(v, e.view)
  BY DEF PrecommitVote, InView
<1>5. TypeOK'
  BY <1>1, <1>2 DEF Inv, TypeOK, Vote
<1>6. Certified(v, val)
  BY DEF PrecommitVote
<1>7. LocksCertified'
  BY <1>1, <1>3, <1>6 DEF Inv, LocksCertified, Certified
<1>8. VotesJustified' /\ OneVotePerView'
  <2>1. \E e \in electionVotes : e.from = n /\ e.view = v
    BY DEF PrecommitVote, InView
  <2> QED
    BY <1>1, <1>6, <2>1 DEF Inv, VotesJustified, OneVotePerView, Certified, Vote
<1>9. LocksReported'
  <2>1. ASSUME NEW x \in precommitVotes, x.from = n, n \notin Forgetful
        PROVE  ~Less(v, x.view)
    <3>1. PICK e \in electionVotes : e.from = n /\ e.view = x.view
      BY <2>1 DEF Inv, VotesJustified
    <3> QED
      BY <1>4, <2>1, <3>1
  <2>2. ASSUME NEW m \in Node \ (Forgetful \cup left), NEW x \in precommitVotes',
               x.from = m
        PROVE  highQC'[m] # Nil /\ ~Less(highQC'[m].view, x.view)
    <3>1. CASE x = Vote(n, v, val)
      BY <1>2, <1>3, <2>2, <3>1, LessOrder DEF Vote
    <3>2. CASE x \in precommitVotes /\ m = n
      BY <1>2, <1>3, <2>1, <2>2, <3>2
    <3>3. CASE x \in precommitVotes /\ m # n
      BY <1>3, <2>2, <3>3 DEF Inv, LocksReported
    <3> QED
      BY <1>1, <2>2, <3>1, <3>2, <3>3
  <2>3. ASSUME NEW e \in electionVotes, e.from \notin Forgetful
        PROVE  Covers(e.highQC, e.from, e.view)'
    BY <1>1, <1>4, <2>3 DEF Inv, LocksReported, Covers, Vote
  <2> QED
    BY <1>1, <2>2, <2>3 DEF LocksReported
<1>10. ProposalsSafe'
  <2>1. ASSUME NEW w \in View, NEW x, NoOtherDecided(w, x)
        PROVE  NoOtherDecided(w, x)'
    <3>1. PICK Q \in Quorum : \A m \in Q \ Forgetful :
            /\ \E e \in electionVotes : e.from = m /\ Less(w, e.view)
            /\ \A y \in precommitVotes : y.from = m /\ y.view = w => y.val = x
      BY <2>1 DEF NoOtherDecided
    <3>2. n \in Q \ Forgetful => v # w
      BY <1>4, <3>1
    <3> QED
      BY <1>1, <3>1, <3>2 DEF NoOtherDecided, Vote
  <2> QED
    BY <1>1, <2>1 DEF Inv, ProposalsSafe
<1>11. CommitsDecided'
  BY <1>1 DEF Inv, CommitsDecided, Decided
<1> QED
  BY <1>5, <1>7, <1>8, <1>9, <1>10, <1>11 DEF Inv

\* What depends on the messages alone survives a step that sends none.
LEMMA SameMessages ==
  ASSUME Inv, UNCHANGED <<electionVotes, proposals, proposeVotes, precommitVotes>>
  PROVE  VotesJustified' /\ OneVotePerView' /\ ProposalsSafe'
<1>1. VotesJustified'
  BY DEF Inv, VotesJustified, Certified
<1>2. OneVotePerView'
  BY DEF Inv, OneVotePerView
<1>3. ProposalsSafe'
  BY DEF Inv, ProposalsSafe, NoOtherDecided
<1> QED
  BY <1>1, <1>2, <1>3

\* HandlePeerBlock: a commit has its certificate.
LEMMA CommitInv ==
  ASSUME Inv, NEW n \in Node, NEW v \in View, NEW val \in Value, Commit(n, v, val)
  PROVE  Inv'
<1>1. /\ committed' = [committed EXCEPT ![n] = val]
      /\ UNCHANGED <<electionVotes, proposals, proposeVotes, precommitVotes, highQC, left>>
      /\ Decided(v, val)
  BY DEF Commit
<1>2. TypeOK'
  BY <1>1 DEF Inv, TypeOK
<1>3. CommitsDecided'
  BY <1>1 DEF Inv, TypeOK, CommitsDecided, Decided
<1>4. LocksCertified'
  BY <1>1 DEF Inv, LocksCertified, Certified
<1>5. LocksReported'
  BY <1>1 DEF Inv, LocksReported, Covers
<1> QED
  BY <1>1, <1>2, <1>3, <1>4, <1>5, SameMessages DEF Inv

\* The NEW_HEIGHT reset and a restart drop the lock: of a validator that votes no more
\* at this height, or of a forgetful one.
LEMMA DropLockInv ==
  ASSUME Inv, NEW n \in Node, Leave(n) \/ Restart(n)
  PROVE  Inv'
<1>1. /\ highQC' = [highQC EXCEPT ![n] = Nil]
      /\ UNCHANGED <<electionVotes, proposals, proposeVotes, precommitVotes, committed>>
      /\ left' = left \cup {n} \/ (left' = left /\ n \in Forgetful)
  BY DEF Leave, Restart
<1>2. TypeOK'
  BY <1>1 DEF Inv, TypeOK
<1>3. LocksCertified'
  BY <1>1 DEF Inv, TypeOK, LocksCertified, Certified
<1>4. LocksReported'
  BY <1>1 DEF Inv, TypeOK, LocksReported, Covers
<1>5. CommitsDecided'
  BY <1>1 DEF Inv, CommitsDecided, Decided
<1> QED
  BY <1>1, <1>2, <1>3, <1>4, <1>5, SameMessages DEF Inv

(* A step that changes nothing preserves the inductive invariant. *)
LEMMA StutterInv ==
  ASSUME Inv, UNCHANGED vars
  PROVE  Inv'
<1>1. UNCHANGED <<electionVotes, proposals, proposeVotes, precommitVotes>>
  BY DEF vars
<1>2. TypeOK' /\ LocksCertified'
  BY DEF vars, Inv, TypeOK, LocksCertified, Certified
<1>3. LocksReported'
  BY DEF vars, Inv, LocksReported, Covers
<1>4. CommitsDecided'
  BY DEF vars, Inv, CommitsDecided, Decided
<1> QED
  BY <1>1, <1>2, <1>3, <1>4, SameMessages DEF Inv

-----------------------------------------------------------------------------
(***************************************************************************)
(* The theorems.                                                           *)
(***************************************************************************)

\* The inductive invariant holds in every reachable state: in particular every
\* proposal is the only value earlier views can still decide (ProposalsSafe).
THEOREM InvHolds == Spec => []Inv
<1>1. Inv /\ [Next]_vars => Inv'
  BY ElectionVoteInv, AdoptHighQCInv, ProposeInv, ProposeVoteInv, PrecommitVoteInv,
     CommitInv, DropLockInv, StutterInv DEF Next
<1> QED
  BY InitInv, <1>1, PTL DEF Spec

(* The messages, locks and clocks of BFTVoting keep their types: the
   handlers of bft.go store only messages of the phases the code defines. *)
THEOREM TypeCorrect == Spec => []TypeOK
<1>1. Inv => TypeOK
  BY DEF Inv
<1> QED
  BY InvHolds, <1>1, PTL

\* Two +2/3 certificates of PRECOMMIT-VOTEs at one height are for the same block.
LEMMA DecidedUnique ==
  ASSUME Inv, NEW v \in View, NEW w \in View, NEW x, NEW y,
         Decided(v, x), Decided(w, y)
  PROVE  x = y
<1>1. ASSUME NEW u \in View, NEW z, Decided(u, z)
      PROVE  Certified(u, z) /\ z \in Value
  <2>1. PICK Q \in Quorum : \A n \in Q : Vote(n, u, z) \in precommitVotes
    BY <1>1 DEF Decided
  <2>2. PICK n \in Q : TRUE
    BY QuorumAssumption
  <2> QED
    BY <2>1, <2>2 DEF Inv, TypeOK, VotesJustified, Vote
<1>2. ASSUME NEW s \in View, NEW t \in View, NEW p, NEW q,
             Decided(s, p), Decided(t, q), Less(s, t)
      PROVE  p = q
  <2>1. NoOtherDecided(s, q)
    BY <1>1, <1>2, CertifiedSafe
  <2>2. PICK Q \in Quorum : \A n \in Q \ Forgetful :
          \A c \in precommitVotes : c.from = n /\ c.view = s => c.val = q
    BY <2>1 DEF NoOtherDecided
  <2>3. PICK R \in Quorum : \A n \in R : Vote(n, s, p) \in precommitVotes
    BY <1>2 DEF Decided
  <2>4. PICK n \in Q \cap R : n \notin Forgetful
    BY QuorumAssumption
  <2> QED
    BY <2>2, <2>3, <2>4 DEF Vote
<1>3. CASE v = w
  BY <1>1, <1>3, CertifiedUnique DEF Inv
<1> QED
  BY <1>2, <1>3, LessOrder

\* Agreement (HandlePeerBlock, processQueue): no two validators ever commit different
\* blocks at one height.
THEOREM AgreementHolds == Spec => []Agreement
<1>1. Inv => Agreement
  BY DecidedUnique DEF Inv, CommitsDecided, Agreement
<1> QED
  BY InvHolds, <1>1, PTL

\* The votes of NestBFT implement Decision: commits agree and are final.
THEOREM DecisionImplemented == Spec => ImplementsDecision
<1>1. Init => D!Init
  BY DEF Init, D!Init
<1>2. ASSUME Inv, Inv', [Next]_vars
      PROVE  [D!Next]_committed
  <2>1. ASSUME NEW n \in Node, NEW v \in View, NEW val \in Value, Commit(n, v, val)
        PROVE  D!Commit(n, val)
    <3>1. /\ committed[n] = Nil /\ Decided(v, val)
          /\ committed' = [committed EXCEPT ![n] = val]
      BY <2>1 DEF Commit
    <3>2. \A m \in Node : committed[m] \in {Nil, val}
      BY <1>2, <3>1, DecidedUnique DEF Inv, CommitsDecided
    <3> QED
      BY <3>1, <3>2 DEF D!Commit
  <2>2. ASSUME NEW n \in Node,
               \/ \E v \in View, l \in Node : ElectionVote(n, v, l)
               \/ \E e \in electionVotes : AdoptHighQC(n, e)
               \/ \E v \in View, val \in Value : Propose(n, v, val)
               \/ \E p \in proposals : ProposeVote(n, p)
               \/ \E v \in View, val \in Value : PrecommitVote(n, v, val)
               \/ Leave(n)
               \/ Restart(n)
        PROVE  UNCHANGED committed
    BY <2>2 DEF ElectionVote, AdoptHighQC, Propose, ProposeVote, PrecommitVote, Leave,
                Restart
  <2>3. ASSUME UNCHANGED vars
        PROVE  UNCHANGED committed
    BY <2>3 DEF vars
  <2> QED
    BY <1>2, <2>1, <2>2, <2>3 DEF Next, D!Next
<1> QED
  BY <1>1, <1>2, InvHolds, PTL DEF Spec, ImplementsDecision, D!Spec

-----------------------------------------------------------------------------
(***************************************************************************)
(* QuorumAssumption for a committee of equal voting power.                 *)
(***************************************************************************)

\* NewValidatorSet: MinimumMaj23 is 2/3 of the total power, rounded down, plus 1.
EqualPowerQuorum ==
  {Q \in SUBSET Node : Cardinality(Q) >= (2 * Cardinality(Node)) \div 3 + 1}

\* MinimumMaj23 gives quorums that satisfy QuorumAssumption as long as fewer than a
\* third of the validators restart: the rounding in NewValidatorSet loses nothing.
THEOREM EqualPowerQuorumsMeet ==
  ASSUME IsFiniteSet(Node), NEW F \in SUBSET Node, 3 * Cardinality(F) < Cardinality(Node),
         NEW Q \in EqualPowerQuorum, NEW R \in EqualPowerQuorum
  PROVE  \E n \in Q \cap R : n \notin F
<1> DEFINE N == Cardinality(Node)
           T == (2 * N) \div 3 + 1
           meet == Q \cap R
<1>1. N \in Nat
  BY FS_CardinalityType
<1>2. T \in Nat /\ 3 * T > 2 * N
  BY <1>1
<1>3. /\ IsFiniteSet(Q) /\ IsFiniteSet(R) /\ IsFiniteSet(F)
      /\ IsFiniteSet(Q \cup R) /\ IsFiniteSet(meet)
      /\ Cardinality(Q \cup R) <= N
  BY FS_Subset, Q \cup R \in SUBSET Node, meet \in SUBSET Node DEF EqualPowerQuorum
<1>4. /\ Cardinality(Q) \in Nat /\ Cardinality(R) \in Nat /\ Cardinality(F) \in Nat
      /\ Cardinality(Q \cup R) \in Nat /\ Cardinality(meet) \in Nat
  BY <1>3, FS_CardinalityType
<1>5. Cardinality(Q \cup R) = Cardinality(Q) + Cardinality(R) - Cardinality(meet)
  BY <1>3, FS_Union
<1>6. Cardinality(Q) >= T /\ Cardinality(R) >= T
  BY DEF EqualPowerQuorum
<1>7. Cardinality(meet) > Cardinality(F)
  <2> HIDE DEF N, T, meet
  <2> QED
    BY <1>1, <1>2, <1>3, <1>4, <1>5, <1>6 DEF N
<1>8. ~(meet \subseteq F)
  BY <1>3, <1>4, <1>7, FS_Subset
<1> QED
  BY <1>8
=============================================================================
