CONSTANTS
  WAD = 100
  WAD_RAY_RATIO = 10
  PERCENTAGE_FACTOR = 10000
  SECONDS_PER_YEAR = 1
  MAX_UINT128 = 1000000
  MaxRuns = 2
  TargetNetworks = {"main", "matic"}
  Scripts = {"amm:mainnet", "sidechain:mainnet", "aave:mainnet", "aave:dev", "dev:all"}
SPECIFICATION Spec
INVARIANTS TypeOK FinishedRunsReturnedCustody
PROPERTIES FreshMarketsAreSeparate   RunsEnd
CHECK_DEADLOCK FALSE
