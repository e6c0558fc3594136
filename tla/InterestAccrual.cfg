CONSTANTS
  WAD = 10
  WAD_RAY_RATIO = 10
  PERCENTAGE_FACTOR = 100
  SECONDS_PER_YEAR = 2
  MAX_UINT128 = 10000
  Rates = {0, 1, 2, 3, 4, 5, 6, 7, 8, 9, 10, 11, 12, 13, 14, 15, 16, 17, 18, 19, 20, 21, 22, 23, 24, 25, 26, 27, 28, 29, 30, 31, 32, 33, 34, 35, 36, 37, 38, 39, 40, 41, 42, 43, 44, 45, 46, 47, 48, 49, 50, 51, 52, 53, 54, 55, 56, 57, 58, 59, 60, 67, 74, 81, 88, 95, 102, 109, 116, 123, 130, 137, 144, 151, 158, 165, 172, 179, 186, 193}
  MaxTime = 4
  UpdateRounding = 4
SPECIFICATION Spec
INVARIANTS UpdatesNeverLowerDebt DebtIsUndercharged IncomeNeverOutgrowsDebt
CHECK_DEADLOCK FALSE
