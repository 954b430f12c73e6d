SPECIFICATION Spec
CONSTANTS
  Txs <- MCTxs
  Tx <- MCTx
  IllFormed = {"bad"}
  MaxTransactionCount = 4
  MaxTotalBytes = 4
  IndividualMaxTxSize = 2
  DropPercentage = 35
  MaxFee = 9
  Accounts = {"a", "b"}
  Recipient = "a"
  MaxBlockSize = 3
  BlockAcceptanceRange = 1
  Approved = {"param"}
  Genesis <- MCGenesis
  FirstHeight = 2
  MaxHeight = 2
  Batches <- MCBatches
  Selections <- MCSelections
  MaxMessages = 2
  MaxFailures = 1
INVARIANT ControllerInv
INVARIANT ProposalReproducible
INVARIANT CertifiedNotRefused
INVARIANT ChainReplayable
CHECK_DEADLOCK FALSE
