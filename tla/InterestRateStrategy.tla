------------------------ MODULE InterestRateStrategy ------------------------
(***************************************************************************)
(* DefaultReserveInterestRateStrategy.sol: the rates of a reserve as a     *)
(* two-slope function of its utilisation.                                  *)
(***************************************************************************)
EXTENDS WadRayMath

(***************************************************************************)
(* The immutable parameters of one strategy, all in ray.  marketBorrowRate *)
(* is what the lending-rate oracle answers for the reserve.                *)
(***************************************************************************)
StrategyParams ==
  [optimalUtilizationRate : 1 .. RAY, baseVariableBorrowRate : Nat,
   variableRateSlope1 : Nat, variableRateSlope2 : Nat,
   stableRateSlope1 : Nat, stableRateSlope2 : Nat, marketBorrowRate : Nat]

utilizationRate(availableLiquidity, totalDebt) ==
  IF totalDebt = 0 THEN 0 ELSE rayDiv(totalDebt, availableLiquidity + totalDebt)

\* How far the utilisation is above the optimum, as a share of the excess range.
excessUtilizationRateRatio(s, utilization) ==
  rayDiv(utilization - s.optimalUtilizationRate, RAY - s.optimalUtilizationRate)

stableBorrowRate(s, utilization) ==
  s.marketBorrowRate
    + IF utilization > s.optimalUtilizationRate
      THEN s.stableRateSlope1
             + rayMul(s.stableRateSlope2, excessUtilizationRateRatio(s, utilization))
      ELSE rayMul(s.stableRateSlope1, rayDiv(utilization, s.optimalUtilizationRate))

variableBorrowRate(s, utilization) ==
  s.baseVariableBorrowRate
    + IF utilization > s.optimalUtilizationRate
      THEN s.variableRateSlope1
             + rayMul(s.variableRateSlope2, excessUtilizationRateRatio(s, utilization))
      ELSE rayDiv(rayMul(utilization, s.variableRateSlope1), s.optimalUtilizationRate)

getMaxVariableBorrowRate(s) ==
  s.baseVariableBorrowRate + s.variableRateSlope1 + s.variableRateSlope2

(***************************************************************************)
(* _getOverallBorrowRate: the average of the two rates, weighted by debt.  *)
(***************************************************************************)
overallBorrowRate(totalStableDebt, totalVariableDebt, variableRate, averageStableRate) ==
  IF totalStableDebt + totalVariableDebt = 0 THEN 0
  ELSE rayDiv(rayMul(wadToRay(totalVariableDebt), variableRate)
                + rayMul(wadToRay(totalStableDebt), averageStableRate),
              wadToRay(totalStableDebt + totalVariableDebt))

(***************************************************************************)
(* What depositors earn: the overall rate on the borrowed share, without   *)
(* the part the reserve factor sends to the treasury.                      *)
(***************************************************************************)
liquidityRate(overallRate, utilization, reserveFactor) ==
  percentMul(rayMul(overallRate, utilization), PERCENTAGE_FACTOR - reserveFactor)

=============================================================================
