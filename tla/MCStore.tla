------------------------------ MODULE MCStore ------------------------------
EXTENDS Store

\* Three keys of three bits: neighbours in one subtree, and one on the other side
MCHashKey == <<<<0, 0, 1>>, <<1, 0, 0>>, <<1, 0, 1>>>>
=============================================================================
