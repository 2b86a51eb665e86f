SPECIFICATION Spec
CONSTANTS
  None = None
  prop = prop
  m1 = m1
  m2 = m2
  ising = ising
  custom = custom
  prog = prog
  Accounts = {prop, m1, m2}
  Proposers = {prop}
  Miners = {prop, m1, m2}
  Lockable = {prop}
  Specs = {ising, custom}
  DefaultIsingSpec = ising
  Programs = {prog}
  ValidationProgram <- NoPrograms
  TransformProgram <- MCTransformProgram
  MinerTypes = {"Cpu"}
  Terms <- MCTerms
  Submissions <- MCSubmissions
  Payees = {}
  Chains = {0, 1}
  OrderIds = {0, 1}
  InitialFree <- MCFree
  MinReward = 6
  MaxDeadlineBlocks = 3
  MaxBlockWait = 1
  MaxSolutions = 2
  MaxOrdersPerProposer = 2
  MAX_REWARD_WINNERS = 2
  ResultTtlBlocks = 1
  MAX_FINALISED_ORDERS_PER_BLOCK = 2
  ExistentialDeposit = 2
  LastProposalBlock = 1
  MaxBlock = 3
INVARIANTS
  RankingIsTrue
  SolvedOrderIsPayable
  PaidAsAnnounced
  EscrowBacksOrders
PROPERTIES
  EscrowImplemented
