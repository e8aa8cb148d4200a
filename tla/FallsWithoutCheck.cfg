SPECIFICATION Spec
CONSTANTS
  Protocols = {p1}
  Placeholder = p1
  MonthlyCost <- Costs
  DaysPerMonth = 2
  SecondsPerDay = 1
  NsPerSec = 1
  SecondsPerCall = 1
  CallCost = 4
  WeiPerUnit = 2
  CyclesPerUnit = 9
  FeeSyncInterval = 1
  Donations <- SomeDonations
  Deposits <- SomeDeposits
  MaxPaid = 38
  MaxWei = 3
  MaxReads = 1
  MaxTime = 3
PROPERTY FallsOnlyAtDailyCheck
