SPECIFICATION Spec
CONSTANTS
  Operators = {1, 2}
  Addresses = {1, 2}
  Chains = {1}
  Self = 1
  DAO = 0
  Nil = Nil
  Params <- BaseParams
  CommitteeScoped = TRUE
  Fee = 1
  Faucet = 1
  GenesisAccounts <- LifecycleAccounts
  GenesisValidators <- TwoValidators
  GenesisStake <- LifecycleStake
  Amounts = {4}
  CommitteeLists = {{1}}
  Outputs = {2}
  Delegations = {FALSE}
  Compounding = {FALSE}
  Equivocators = {2}
  EvidenceHeights = {1, 2}
  Payments <- NoPayments
  Checkpoints = {0}
  Retirements = {FALSE}
  MaxHeight = 6
  MaxSupply = 18
  MaxChainHeight = 1
INVARIANT SupplyTracked
INVARIANT IndexConsistent
INVARIANT SlashWithinLimit
CHECK_DEADLOCK FALSE
