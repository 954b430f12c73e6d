--------------------------- MODULE MCBFTLiveness ---------------------------
\* A committee of powers 2, 1, 1, one unreliable and one reliable round.
EXTENDS BFTLiveness, TLC

CONSTANTS a, b, c, B1, B2, r

ThreeNodes == {a, b, c}
ThreePower == (a :> 2) @@ (b :> 1) @@ (c :> 1)
RoundsBC == (0 :> {b}) @@ (1 :> {c})
TwoProposals == {[block |-> B1, results |-> r], [block |-> B2, results |-> r]}
=============================================================================
