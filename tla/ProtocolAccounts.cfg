SPECIFICATION Spec
CONSTANTS
  Protocols = {p1, p2}
  Placeholder = p1
  MonthlyCost <- Costs
  DaysPerMonth = 1
  SecondsPerDay = 1
  NsPerSec = 1
  SecondsPerCall = 1
  CallCost = 5
  WeiPerUnit = 2
  CyclesPerUnit = 9
  FeeSyncInterval = 1
  Donations <- SomeDonations
  Deposits <- SomeDeposits
  MaxPaid = 38
  MaxWei = 3
  MaxReads = 2
  MaxTime = 2
INVARIANTS
  AccountsTypeOK
  CyclesAccounted
  TierFitsPayments
  DepositsCredited
PROPERTIES
  ChargedOnceADay
