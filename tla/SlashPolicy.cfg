SPECIFICATION Spec
CHECK_DEADLOCK FALSE
CONSTANTS
  s1 = s1
  Stash = {s1}
  MIN_PER_MOTION = 1
  MAX_PER_MOTION = 2
  MIN_CUMULATIVE = 3
  MAX_CUMULATIVE = 3
  DEFAULT_PER_MOTION = 1
  DEFAULT_CUMULATIVE = 3
  BondingDuration = 2
  MaxBudgetWindow = 3
  SlashDeferDuration = 1
  ReportFraction = 2
  EraLength <- MCEraLength
  Exposed <- MCExposed
  Fractions = {0, 1, 2, 3}
  Windows = {1, 2, 3, 4}
  MaxEra = 4
  MaxPending = 1
INVARIANTS
  HistorySound
  SlashesReachTheirEra
PROPERTIES
  RollingBudget
