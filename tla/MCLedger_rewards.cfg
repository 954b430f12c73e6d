SPECIFICATION Spec
CONSTANTS
  Operators = {1, 2}
  Addresses = {1, 2, 3}
  Chains = {1, 2}
  Self = 1
  DAO = 0
  Nil = Nil
  Params <- RewardParams
  CommitteeScoped = TRUE
  Fee = 1
  Faucet = Nil
  GenesisAccounts <- RewardAccounts
  GenesisValidators <- RewardValidators
  GenesisStake <- RewardStake
  Amounts = {1}
  CommitteeLists = {{1}}
  Outputs = {3}
  Delegations = {FALSE, TRUE}
  Compounding = {TRUE}
  Equivocators = {}
  EvidenceHeights = {}
  Payments <- RewardPayments
  Checkpoints = {0, 1}
  Retirements = {FALSE, TRUE}
  MaxHeight = 3
  MaxSupply = 24
  MaxChainHeight = 2
INVARIANT BalancesCovered
INVARIANT SupplyTracked
CHECK_DEADLOCK FALSE
