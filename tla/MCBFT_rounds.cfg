CONSTANTS
  a = a
  b = b
  c = c
  B1 = B1
  B2 = B2
  r = r
  Nil = Nil
  Node <- ThreeNodes
  Power <- ThreePower
  Candidates <- RoundsBC
  Proposals <- TwoProposals
  Preempted = {}
  Restartable = {}
  MaxRound = 1
  MaxHeight = 1
  MaxRootHeight = 1
  MaxRestarts = 0
  ResetCap = 2
  MaxOvertake = 1
SPECIFICATION Spec
CHECK_DEADLOCK FALSE
SYMMETRY SymmetricBlocks
INVARIANT TypeOK
INVARIANT Agreement
INVARIANT NoDoubleSign
INVARIANT LaterProposalsSafe
PROPERTY UnlockJustified
PROPERTY LockNotLost
