CONSTANTS
  WAD = 100
  WAD_RAY_RATIO = 10
  PERCENTAGE_FACTOR = 10000
  SECONDS_PER_YEAR = 1
  MAX_UINT128 = 1000000
  MaxRuns = 1
  TargetNetworks = {"kovan"}
  Scripts = {"amm:mainnet"}
SPECIFICATION Spec
INVARIANT ConfiguredReservesAreListed
CHECK_DEADLOCK FALSE
