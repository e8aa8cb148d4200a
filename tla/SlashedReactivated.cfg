SPECIFICATION PoolSpec
CONSTANTS
  Principals = {p1}
  Stakes <- OneStake
  Deltas <- NoSwings
  PoolConfigs <- DefaultConfig
  MaxSlashes = 1
INVARIANT SlashedNeverActive
CHECK_DEADLOCK FALSE
