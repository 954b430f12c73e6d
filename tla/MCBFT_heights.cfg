CONSTANTS
  a = a
  b = b
  c = c
  B1 = B1
  B2 = B2
  r = r
  Nil = Nil
  Node <- TwoNodes
  Power <- TwoPower
  Candidates <- RoundsAB
  Proposals <- TwoProposals
  Preempted = {}
  Restartable = {b}
  MaxRound = 1
  MaxHeight = 2
  MaxRootHeight = 2
  MaxRestarts = 1
  ResetCap = 2
  MaxOvertake = 1
SPECIFICATION Spec
CHECK_DEADLOCK FALSE
CONSTRAINT Scope
SYMMETRY SymmetricBlocks
INVARIANT LockKept
PROPERTY ImplementsVoting
