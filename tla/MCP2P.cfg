SPECIFICATION Spec
CONSTANTS
  Nodes = {1, 2}
  ConnIds = {1, 2}
  None = None
  MaxBackoffs = 1
  MaxFaults = 1
INVARIANT SessionsTracked
INVARIANT DuplicatesConverge
PROPERTY EventuallyConnected
CHECK_DEADLOCK FALSE
