SPECIFICATION UpgradeSpec
CONSTANTS
  None = None
  prop = prop
  m1 = m1
  ising = ising
  Accounts = {prop, m1}
  Proposers = {prop}
  Miners = {m1}
  Lockable = {}
  Specs = {ising}
  DefaultIsingSpec = ising
  Programs = {}
  ValidationProgram <- NoPrograms
  TransformProgram <- NoPrograms
  MinerTypes = {"Cpu"}
  Terms <- QueueTerms
  Submissions <- QueueSubmissions
  Payees = {}
  Chains = {}
  OrderIds <- QueueOrderIds
  InitialFree <- QueueFree
  MinReward = 1
  MaxDeadlineBlocks = 4
  MaxBlockWait = 2
  MaxSolutions = 2
  MaxOrdersPerProposer = 3
  MAX_REWARD_WINNERS = 2
  ResultTtlBlocks = 1
  MAX_FINALISED_ORDERS_PER_BLOCK = 2
  ExistentialDeposit = 0
  LastProposalBlock = 2
  MaxBlock = 7
  UpgradeBlock = 1
  LegacyTerms <- QueueLegacyTerms
  LegacyEnergy = 2
INVARIANTS
  QueueSound
PROPERTIES
  BacklogIsHarmless
  EveryOrderExpires
