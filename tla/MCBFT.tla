------------------------------- MODULE MCBFT -------------------------------
\* Small committees for BFT.  With powers 2, 1, 1 the +2/3 quorums are {a, b}, {a, c}
\* and {a, b, c}: b and c can each be left out.  With powers 1, 1 both are needed.
EXTENDS BFTRefinement, TLC

CONSTANTS a, b, c, B1, B2, r

TwoNodes == {a, b}
TwoPower == (a :> 1) @@ (b :> 1)
ThreeNodes == {a, b, c}
ThreePower == (a :> 2) @@ (b :> 1) @@ (c :> 1)

\* Who may be elected in each round.
RoundsAB == (0 :> {a}) @@ (1 :> {b})
RoundsBC == (0 :> {b}) @@ (1 :> {c})

TwoProposals == {[block |-> B1, results |-> r], [block |-> B2, results |-> r]}
SymmetricBlocks == Permutations({B1, B2})

\* Several heights and root heights in round 0, in which b may give up; or failed rounds and a restart at one height.
Scope ==
  \/ /\ restarts = 0 /\ \A n \in Node : view[n].round = 0
     /\ view[a].phase <= CommitProcess
  \/ \A n \in Node : view[n].height = 1 /\ rootHeight[n] = 1
=============================================================================
