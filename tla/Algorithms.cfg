SPECIFICATION Spec
CONSTANTS
  None = None
  ByteBits = 3
  MILLI_SCALE = 1000
  MinNodes = 2
  MaxNodes = 12
  MaxDepth = 2
  MaxCalls = 4
  VoterSnapshotPerBlock = 3
  NoBound = NoBound
  COUNCIL_LABELS <- MCCouncilLabels
  VALIDATOR_LABELS <- MCValidatorLabels
  VALIDATOR_BOND = 20
  EXISTENTIAL_DEPOSIT = 2
  TEST_CURRENCY_ENDOWMENT = 30
  MinVestedTransfer = 3
  MAX_VESTING_SCHEDULES = 2
  MaxBalance = 200
  MaxBlockNumber = 12
  TBD = TBD
  MaxTransformStepsPerSubmission = 6
  Problems <- MCProblems
  Zero = "zero"
  DefaultConfig = 1
  MAX_UNHASHED_PAYLOAD_LEN = 256
  MaxDelta = 2
  MIN_FALCON512_SIG_LEN = 1
  SignerSeeds <- MCSignerSeeds
INVARIANTS
  SpecsExact
  SelectionHalfOptimal
  HashIsPresentationFree
  ProofsScoredTruly
  FilterExact
  SnapshotIsTopRanked
  GenesisLaunchable
  ProgramsWithinBudget
  UpgradeKeepsWins
  SignersAgree
CHECK_DEADLOCK FALSE
