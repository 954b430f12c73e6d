SPECIFICATION Spec
CONSTANTS
  b1 = b1
  b2 = b2
  Addresses = {"a", "b"}
  DeadAddr = "dead"
  MaxOrdersPerDexBatch = 2
  MaxDepositsPerDexBatch = 1
  MaxWithdrawsPerDexBatch = 2
  MaxLiquidityProviders = 2
  OrderIds = {"o1"}
  Sellers = {"s", "t"}
  Buyers = {b1, b2}
  MinimumOrderSize = 5
  BuyDeadlineBlocks = 2
  RereadFrom = 3
  RereadTo = 2
  TriggerModuloBlocks = 1
  LivenessFallbackBlocks = 1
  PoolSeed = 20
  Balance = 20
  SellAmounts = {7}
  AskAmounts = {3}
  Prices = {3, 4}
  PayAmounts = {3, 4}
  Percents = {50}
  MaxDexOperations = 3
  MaxBookOperations = 4
  MaxRootHeight = 4
  MaxNestedHeight = 4
INVARIANT TokensAccounted
INVARIANT PendingCovered
INVARIANT MirroredLedgers
INVARIANT AtomicExchange
INVARIANT HaltsOnlyAtCap
INVARIANT GivenUpUnexecuted
INVARIANT ClosedOnlyPaid
VIEW WithoutReplay
SYMMETRY BuyerSymmetry
CONSTRAINT Bounds
CHECK_DEADLOCK FALSE
