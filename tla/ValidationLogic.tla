-------------------------- MODULE ValidationLogic ---------------------------
(***************************************************************************)
(* libraries/logic/ValidationLogic.sol: the require chains in front of     *)
(* every operation of the pool, as predicates.                             *)
(***************************************************************************)
EXTENDS GenericLogic

CONSTANTS
  MAX_STABLE_RATE_BORROW_SIZE_PERCENT,      \* 25% of the available liquidity
  REBALANCE_UP_LIQUIDITY_RATE_THRESHOLD,    \* 40% of the maximum variable rate
  REBALANCE_UP_USAGE_RATIO_THRESHOLD        \* 95% of a ray

\* Mutation: the frozen flag is not looked at.
validateDepositEvenFrozen(a, amount) ==
  amount # 0 /\ configuration[a].active

validateDeposit(a, amount) ==
  /\ amount # 0
  /\ configuration[a].active
  /\ ~configuration[a].frozen

validateWithdraw(a, user, amount, userBalance) ==
  /\ amount \in 1 .. userBalance
  /\ configuration[a].active
  /\ balanceDecreaseAllowed(a, user, amount)

(***************************************************************************)
(* A stable loan in the currency of one's own collateral is refused unless *)
(* it exceeds that collateral.                                             *)
(***************************************************************************)
CollateralSameAsBorrowing(a, user, amount) ==
  /\ a \in usingAsCollateral[user]
  /\ configuration[a].ltv # 0
  /\ amount <= ATokenBalanceOf(reserves[a], user, now)

\* Mutation: the debt the user already has is left out of the coverage check.
CollateralCoversNewDebtOnly(a, user, amount) ==
  /\ totalCollateralInETH(reserves, user) > 0
  /\ healthFactor(reserves, user) > HEALTH_FACTOR_LIQUIDATION_THRESHOLD
  /\ avgLtv(reserves, user) # 0
  /\ percentDiv(InETH(a, amount), avgLtv(reserves, user))
       <= totalCollateralInETH(reserves, user)

CollateralCovers(a, user, amount) ==
  /\ totalCollateralInETH(reserves, user) > 0
  /\ healthFactor(reserves, user) > HEALTH_FACTOR_LIQUIDATION_THRESHOLD
  /\ avgLtv(reserves, user) # 0
  /\ percentDiv(totalDebtInETH(reserves, user) + InETH(a, amount),
                avgLtv(reserves, user))
       <= totalCollateralInETH(reserves, user)

validateBorrow(a, user, amount, mode) ==
  /\ configuration[a].active
  /\ ~configuration[a].frozen
  /\ amount # 0
  /\ configuration[a].borrowingEnabled
  /\ CollateralCovers(a, user, amount)
  /\ mode = "stable" =>
       /\ configuration[a].stableRateEnabled
       /\ ~CollateralSameAsBorrowing(a, user, amount)
       /\ amount <= percentMul(reserves[a].cash, MAX_STABLE_RATE_BORROW_SIZE_PERCENT)

\* debt is what onBehalfOf owes in the selected mode.
validateRepay(a, caller, onBehalfOf, amount, debt) ==
  /\ configuration[a].active
  /\ amount > 0
  /\ debt > 0
  /\ amount # MAX_UINT256 \/ caller = onBehalfOf

validateSwapRateMode(a, user, currentMode, stableDebt, variableDebt) ==
  /\ configuration[a].active
  /\ ~configuration[a].frozen
  /\ currentMode = "stable" => stableDebt > 0
  /\ currentMode = "variable" =>
       /\ variableDebt > 0
       /\ configuration[a].stableRateEnabled
       /\ ~CollateralSameAsBorrowing(a, user, stableDebt + variableDebt)

validateRebalanceStableBorrowRate(a) ==
  LET debt == wadToRay(TotalDebt(reserves[a], now))
  IN /\ configuration[a].active
     /\ utilizationRate(wadToRay(reserves[a].cash), debt)
          >= REBALANCE_UP_USAGE_RATIO_THRESHOLD
     /\ reserves[a].currentLiquidityRate
          <= percentMul(getMaxVariableBorrowRate(Strategy[a]),
                        REBALANCE_UP_LIQUIDITY_RATE_THRESHOLD)

validateSetUseReserveAsCollateral(a, user, useAsCollateral) ==
  LET balance == ATokenBalanceOf(reserves[a], user, now)
  IN /\ balance > 0
     /\ useAsCollateral \/ balanceDecreaseAllowed(a, user, balance)

\* rs: the reserves after the balances moved.
validateTransfer(rs, from) ==
  healthFactor(rs, from) >= HEALTH_FACTOR_LIQUIDATION_THRESHOLD

validateLiquidationCall(collateralAsset, debtAsset, user, userDebt) ==
  /\ configuration[collateralAsset].active
  /\ configuration[debtAsset].active
  /\ ~(healthFactor(reserves, user) >= HEALTH_FACTOR_LIQUIDATION_THRESHOLD)
  /\ collateralAsset \in CollateralAssets(user)
  /\ userDebt # 0

=============================================================================
