SPECIFICATION MarketSpec
CONSTANTS
  None = None
  prop = prop
  m1 = m1
  ising = ising
  custom = custom
  prog = prog
  deep = deep
  Accounts = {prop, m1}
  Proposers = {prop}
  Miners = {m1}
  Lockable = {}
  Specs = {ising, custom}
  DefaultIsingSpec = ising
  Programs = {prog, deep}
  ValidationProgram <- MCValidationProgram
  TransformProgram <- MCTransformProgram
  MinerTypes = {"Cpu", "Gpu"}
  Terms <- MCTerms
  Submissions <- MCSubmissions
  Payees <- MCPayees
  Chains = {0, 1}
  OrderIds = {0, 1}
  InitialFree <- MCFree
  MinReward = 1
  MaxDeadlineBlocks = 3
  MaxBlockWait = 1
  MaxSolutions = 2
  MaxOrdersPerProposer = 3
  MAX_REWARD_WINNERS = 1
  ResultTtlBlocks = 1
  MAX_FINALISED_ORDERS_PER_BLOCK = 2
  ExistentialDeposit = 1
  LastProposalBlock = 1
  MaxBlock = 3
  MaxTransformStepsPerSubmission = 2
  Authors = {prop, m1}
  Code <- MCCode
  Decodes <- MCTrue
  Verifies <- MCTrue
  Size <- MCSize
  DepositBase = 1
  DepositPerByte = 1
  MaxProgramBlocks = 4
  MaxLoopDepth = 1
INVARIANTS
  DepositsBackPrograms
  SettlementNeverBlocked
  PayeesMeetRequirement
