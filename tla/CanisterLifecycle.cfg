SPECIFICATION Spec
CONSTANTS
  MaxRows = 2
  Names <- ThreeNames
  NameLen = 2
  Amounts <- TwoAmounts
  TierCost <- Costs
  MaxAccounts = 2
  Rooms = {0, 1}
  MaxEvents = 3
  MaxCount = 1
  MaxCycles = 1
  MaxUpgrades = 3
INVARIANTS
  LifecycleTypeOK
  EventsKept
  OvercountExplained
  DonationsKept
