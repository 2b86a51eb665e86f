SPECIFICATION Spec
CONSTANTS
  None = None
  Accounts = {1}
  Inputs <- MCInputs
  Kinds = {"Cpu", "Gpu"}
  DescriptorDepositBase = 2
  DescriptorDepositPerByte = 1
  Funds = 16
  MaxPage = 3
  InitialVersions = {2}
  MaxQBlocks = 1
  MaxCount = 2
INVARIANTS
  CountsEachOnce
