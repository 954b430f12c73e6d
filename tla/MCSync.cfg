SPECIFICATION Spec
CONSTANTS
  Peers = {p, q}
  PeerCount = 4
  Alone = FALSE
  Top = 4
  FirstHeights = {3}
  QueueSize = 2
  ReqPerWindow = 1
  InboxSize = 2
  ResetCapacity = 2
  MaxRootUpdates = 1
  MaxFaults = 1
  Nil = Nil
INVARIANT SyncInv
INVARIANT NoCircularWait
INVARIANT LoopFollowsChain
PROPERTY CatchesUp
