SPECIFICATION Spec
CONSTANTS
  None = None
  Validator = {v1, v2, v3}
  MaxAuthorities = 3
  ValidatorCount = 2
  MinimumValidatorCount = 2
  MaxValidatorSetCap = 2
  UnsignedPhase = 2
  PlanningSession = 2
  SessionsPerEra = 4
  Graduated = FALSE
  MaxInputs = 3
INVARIANTS
  RoundSound
PROPERTIES
  ElectedAreCurrent
  ErasKeepComing
