SPECIFICATION Spec
CONSTANTS
  Principals = {p1, p2}
  Stakes <- OddStake
  Deltas <- Swings
  PoolConfigs <- DefaultAndFull
  MaxSlashes = 1
  RequiredApprovals <- OneOrTwo
  VotingPeriod = 1
  MaxTime = 2
SYMMETRY PrincipalSymmetry
INVARIANTS
  VotingTypeOK
  StakeAccounted
  ApprovalSound
  RejectionHopeless
PROPERTIES
  ConcludedIsFinal
  AssignedWereActive
CHECK_DEADLOCK FALSE
