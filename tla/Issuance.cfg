SPECIFICATION Spec
CONSTANTS
  u1 = u1
  Users <- MCUsers
  Routes <- MCRoutes
  StartsAt <- MCStartsAt
  RewardSubnet = 0
  One = 4
  OldAnnual = 8
  NewAnnual = 6
  Year = 2
  ExistentialDeposit = 2
  MaxBalance = 80
  FaucetBudgets = {3}
  GenesisFree = 3
  FirstTime = 9
  MaxTime = 17
  MaxGap = 2
  Amounts = {1, 3}
  Foundation = Foundation
  None = None
INVARIANTS
  LedgerSound
  IssuanceTracksSchedule
  BudgetIsLifetime
PROPERTIES
  FaucetStaysClosed
