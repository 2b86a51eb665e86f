SPECIFICATION Spec
CONSTANTS
  None = None
  a = a
  b = b
  t1 = t1
  t2 = t2
  t3 = t3
  s1 = s1
  s2 = s2
  Accounts = {a}
  Topologies = {t1, t2, t3}
  Adjustable = {t1}
  CurveC <- MCCurveC
  Curves <- MCCurves
  DefaultDifficulty <- MCDefaultDifficulty
  DifficultyChoices <- MCDifficulties
  Solutions <- OneSolution
  Salts = {s1}
  RewardChoices = {}
  BlockReward = 2
  MinBlockReward = 1
  MaxBlockReward = 3
  TargetChoices = {2, 3}
  TargetProofBlocks = 1
  MinTargetProofBlocks = 1
  MaxTargetProofBlocks = 2
  MaxProofsPerBlock = 1
  ExistentialDeposit = 0
  MinerDeposit = 0
  Funds = 0
  PotFunding = 2
  MaxPot = 0
  LastAdminBlock = 1
  LastMinerBlock = 3
  LastRegistration = 1
  MaxBlock = 29
  FAST_PROOF_BLOCKS = 0
  MIN_ENERGY_DELTA_MILLI = 2
  EpochLength = 1
  One = 100000
  Retained <- MCRetained
INVARIANTS
  WhitelistSound
PROPERTIES
  WinHardensOwnTopology
  EasingOnTime
