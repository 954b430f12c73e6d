CONSTANTS
  a = a
  b = b
  c = c
  B1 = B1
  B2 = B2
  Nil = Nil
  Node <- ThreeNodes
  Quorum <- WeightedQuorums
  Forgetful = {b}
  Value = {B1, B2}
  View <- TwoRounds
  Candidates <- CandidatesAC
SPECIFICATION Spec
CHECK_DEADLOCK FALSE
SYMMETRY SymmetricBlocks
INVARIANT Inv
INVARIANT Agreement
PROPERTY ImplementsDecision
