---------------------------- MODULE MCBFTVoting ----------------------------
\* Small committees and sets of views for BFTVoting.
EXTENDS BFTVoting, TLC

CONSTANTS a, b, c, B1, B2

ThreeNodes == {a, b, c}
\* The +2/3 quorums of powers 2, 1, 1.
WeightedQuorums == {{a, b}, {a, c}, {a, b, c}}

V(h, round) == [rootHeight |-> h, round |-> round]
TwoRounds == {V(1, 0), V(1, 1)}
\* The second round of one root height and the first two of the next.
TwoRoots == {V(1, 1), V(2, 0), V(2, 1)}

CandidatesAC == [v \in TwoRounds |-> IF v.round = 0 THEN {a} ELSE {c}]
CandidatesBC == [v \in TwoRounds \cup TwoRoots |-> IF v.round = 0 THEN {b} ELSE {c}]

SymmetricBlocks == Permutations({B1, B2})
=============================================================================
