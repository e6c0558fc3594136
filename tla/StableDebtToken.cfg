CONSTANTS
  WAD = 100
  WAD_RAY_RATIO = 100
  PERCENTAGE_FACTOR = 100
  SECONDS_PER_YEAR = 1
  MAX_UINT128 = 1000000
  Accounts = {u1, u2}
  Amounts = {400}
  Rates = {500, 3000}
  MaxTime = 4
  MaxSupply = 1500
  MaxSteps = 8
  Dust = 2
SPECIFICATION MCSpec
INVARIANTS TypeOK SupplyNeverExceedsDebts SettledUsersAreBlank
SYMMETRY Borrowers
PROPERTIES OneDebtMovesTheSupply
CHECK_DEADLOCK FALSE
