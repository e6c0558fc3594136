CONSTANTS
  WAD = 100
  WAD_RAY_RATIO = 10
  PERCENTAGE_FACTOR = 100
  SECONDS_PER_YEAR = 1
  MAX_UINT128 = 10000
  MAX_UINT256 = 500000
  Dust = 2
  u1 = u1
  u2 = u2
  a1 = a1
  a2 = a2
  Treasury = treasury
  Accounts = {u1, u2, treasury}
  Users = {u1, u2}
  Assets = {a1, a2}
  Amounts = {60, 500000}
  MaxTime = 2
  MaxSteps = 6
  MAX_STABLE_RATE_BORROW_SIZE_PERCENT = 50
  REBALANCE_UP_LIQUIDITY_RATE_THRESHOLD = 40
  REBALANCE_UP_USAGE_RATIO_THRESHOLD = 950
  LIQUIDATION_CLOSE_FACTOR_PERCENT = 50
  Strategy <- MCStrategy
  TokenUnit <- MCUnit
  Configurations <- MCConfigurations
  InitialConfiguration <- MCInitialConfiguration
  Prices <- MCPrices
  InitialPrice <- MCInitialPrice
  InitialWallet <- AdminWallet
  FLASHLOAN_PREMIUM_TOTAL = 10
  LoanLists <- AdminLoans
  MaxDepth = 2
  MAX_VALID_RESERVE_FACTOR = 655
  CollateralParameters <- AdminParameters
  ReserveFactors <- AdminFactors
SPECIFICATION AdminSpec
INVARIANTS AccrualNeverReverts RatesSettleWithLoans
PROPERTIES FrozenOnlyShrinks EquityKeptInLoans HealthyStaysHealthy 
CHECK_DEADLOCK FALSE
