---------------------------- MODULE GenericLogic ----------------------------
(***************************************************************************)
(* libraries/logic/GenericLogic.sol: what a user owns and owes across all  *)
(* reserves, in ETH.  Only the reserves whose bits are set are looked at.  *)
(*                                                                         *)
(* The operators take the reserves as rs, because finalizeTransfer asks in *)
(* the middle of a transaction.                                            *)
(***************************************************************************)
EXTENDS LendingPoolStorage, FiniteSetsExt

HEALTH_FACTOR_LIQUIDATION_THRESHOLD == WAD

InETH(a, amount) == (price[a] * amount) \div TokenUnit[a]

CollateralAssets(user) ==
  {a \in usingAsCollateral[user] : configuration[a].liquidationThreshold # 0}

CollateralInETH(rs, user, a) == InETH(a, ATokenBalanceOf(rs[a], user, now))

DebtInETH(rs, user, a) ==
  InETH(a, StableDebtOf(rs[a], user, now) + VariableDebtOf(rs[a], user, now))

totalCollateralInETH(rs, user) ==
  MapThenSumSet(LAMBDA a : CollateralInETH(rs, user, a), CollateralAssets(user))

totalDebtInETH(rs, user) ==
  MapThenSumSet(LAMBDA a : DebtInETH(rs, user, a), borrowing[user])

\* A parameter of the configuration, averaged over the collateral by value.
AverageOverCollateral(rs, user, Param(_)) ==
  LET weighted == MapThenSumSet(LAMBDA a : CollateralInETH(rs, user, a) * Param(a),
                                CollateralAssets(user))
      total    == totalCollateralInETH(rs, user)
  IN IF total = 0 THEN 0 ELSE weighted \div total

avgLtv(rs, user) == AverageOverCollateral(rs, user, LAMBDA a : configuration[a].ltv)

avgLiquidationThreshold(rs, user) ==
  AverageOverCollateral(rs, user, LAMBDA a : configuration[a].liquidationThreshold)

calculateHealthFactorFromBalances(collateral, debt, threshold) ==
  IF debt = 0 THEN MAX_UINT256 ELSE wadDiv(percentMul(collateral, threshold), debt)

healthFactor(rs, user) ==
  calculateHealthFactorFromBalances(totalCollateralInETH(rs, user),
                                    totalDebtInETH(rs, user),
                                    avgLiquidationThreshold(rs, user))

(***************************************************************************)
(* May the user's collateral in asset a shrink by amount?                  *)
(***************************************************************************)
\* Mutation: the average threshold is not recomputed for what is left.
HealthyAfterDecreaseStaleThreshold(a, user, amount) ==
  LET collateral == totalCollateralInETH(reserves, user)
      decrease   == InETH(a, amount)
  IN /\ collateral > decrease
     /\ calculateHealthFactorFromBalances(collateral,
                                          totalDebtInETH(reserves, user),
                                          avgLiquidationThreshold(reserves, user))
          >= HEALTH_FACTOR_LIQUIDATION_THRESHOLD

HealthyAfterDecrease(a, user, amount) ==
  LET collateral == totalCollateralInETH(reserves, user)
      decrease   == InETH(a, amount)
      weighted   == collateral * avgLiquidationThreshold(reserves, user)
                      - decrease * configuration[a].liquidationThreshold
  IN /\ collateral > decrease
     /\ weighted >= 0
     /\ calculateHealthFactorFromBalances(collateral - decrease,
                                          totalDebtInETH(reserves, user),
                                          weighted \div (collateral - decrease))
          >= HEALTH_FACTOR_LIQUIDATION_THRESHOLD

balanceDecreaseAllowed(a, user, amount) ==
  \/ borrowing[user] = {}
  \/ a \notin usingAsCollateral[user]
  \/ configuration[a].liquidationThreshold = 0
  \/ totalDebtInETH(reserves, user) = 0
  \/ HealthyAfterDecrease(a, user, amount)

=============================================================================
