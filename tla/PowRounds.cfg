SPECIFICATION Spec
CONSTANTS
  None = None
  a = a
  b = b
  t1 = t1
  t2 = t2
  t3 = t3
  s1 = s1
  s2 = s2
  Accounts = {a, b}
  Topologies = {t1}
  Adjustable = {}
  CurveC <- MCCurveC
  Curves <- Nothing
  DefaultDifficulty <- MCDefaultDifficulty
  DifficultyChoices <- Nothing
  Solutions <- MCSolutions
  Salts = {s1, s2}
  RewardChoices = {0, 3}
  BlockReward = 2
  MinBlockReward = 1
  MaxBlockReward = 3
  TargetChoices = {}
  TargetProofBlocks = 3
  MinTargetProofBlocks = 3
  MaxTargetProofBlocks = 3
  MaxProofsPerBlock = 2
  ExistentialDeposit = 2
  MinerDeposit = 1
  Funds = 3
  PotFunding = 3
  MaxPot = 3
  LastAdminBlock = 2
  LastMinerBlock = 9
  LastRegistration = 9
  MaxBlock = 4
  FAST_PROOF_BLOCKS = 2
  MIN_ENERGY_DELTA_MILLI = 2
  EpochLength = 1
  One = 100000
  Retained <- MCRetained
SYMMETRY RoundSymmetry
INVARIANTS
  RoundsSound
  BestProofWins
  MinerLedger
