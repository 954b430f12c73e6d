--------------------------- MODULE BFTRefinement ---------------------------
(***************************************************************************)
(* BFT, with its timers, network, resets and restarts, does to the votes   *)
(* of height 1 only what BFTVoting allows.  The heights after it repeat    *)
(* the same protocol from cleared stores.                                  *)
(***************************************************************************)
EXTENDS BFT

Height == 1

\* The votes, proposals and locks of the height, as BFTVoting sees them.
ViewOf(header) == [rootHeight |-> header.rootHeight, round |-> header.round]

LockOf(qc) ==
  IF qc = Nil THEN Nil ELSE [view |-> ViewOf(qc.header), val |-> qc.prop]

Sent(type, phase) ==
  {m \in msgs : m.type = type /\ m.header.phase = phase /\ m.header.height = Height}

VotesOf(phase) ==
  {[from |-> m.from, view |-> ViewOf(m.header), val |-> m.prop] :
     m \in Sent("vote", phase)}

\* A leader that has committed the height but not yet handled the reset may still
\* propose, and then builds a block of the next height, which every replica refuses.
OwnProposals == {m \in Sent("leader", Propose) : m.qc.prop.block[1] = Height}

Left == {n \in Node : view[n].height > Height}

Voting == INSTANCE BFTVoting WITH
  Quorum <- Maj23,
  Forgetful <- Restartable,
  Value <- {[block |-> <<Height, p.block>>, results |-> p.results] : p \in Proposals},
  View <- [rootHeight : 1 .. MaxRootHeight, round : 0 .. MaxRound],
  Candidates <- [v \in [rootHeight : 1 .. MaxRootHeight, round : 0 .. MaxRound] |->
                   Candidates[v.round]],
  electionVotes <-
    {[from |-> m.from, view |-> ViewOf(m.header), proposer |-> m.proposer,
      highQC |-> LockOf(m.highQC)] : m \in Sent("vote", ElectionVote)},
  proposals <-
    {[from |-> m.from, view |-> ViewOf(m.qc.header), val |-> m.qc.prop,
      highQC |-> LockOf(m.highQC)] :
       m \in OwnProposals},
  proposeVotes <- VotesOf(ProposeVote),
  precommitVotes <- VotesOf(PrecommitVote),
  highQC <- [n \in Node |-> IF n \in Left THEN Nil ELSE LockOf(highQC[n])],
  committed <- [n \in Node |-> IF chain[n] = <<>> THEN Nil ELSE chain[n][Height].prop],
  left <- Left

\* Every step of the detailed model is a step of BFTVoting or changes none of its
\* variables: the phase handlers, resets, root-chain updates and restarts of the code
\* emit no vote and take no lock that BFTVoting does not allow.
ImplementsVoting == Voting!Spec
=============================================================================
