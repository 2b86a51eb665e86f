SPECIFICATION Spec
CONSTANTS
  None = None
  Accounts = {1, 2}
  Inputs <- MCInputs
  Kinds = {"Cpu"}
  DescriptorDepositBase = 2
  DescriptorDepositPerByte = 1
  Funds = 16
  MaxPage = 3
  InitialVersions = {1, 2}
  MaxQBlocks = 2
  MaxCount = 3
INVARIANTS
  ReserveMatchesDeposit
  ParticipationReadable
PROPERTIES
  PastRoundsFrozen
