---------------------------- MODULE ExpectedData ----------------------------
(***************************************************************************)
(* The repository's second description of the pool: what the scenario      *)
(* tests expect a transaction to leave behind (calculations.ts), computed  *)
(* from the data providers' answers before it, in BigNumber arithmetic.    *)
(*                                                                         *)
(* b is reserveDataBeforeAction and ub userDataBeforeAction; t is the time *)
(* of the transaction and end that of the reading after it.  The suite     *)
(* configures BigNumber with no decimal places, rounding down.             *)
(***************************************************************************)
EXTENDS LendingPool, TLC

(***************************************************************************)
(* math.ts: fixed-point arithmetic on signed numbers, truncated toward 0.  *)
(***************************************************************************)
Magnitude(n) == IF n < 0 THEN -n ELSE n

Truncated(n, d) ==
  IF (n < 0) = (d < 0) THEN Magnitude(n) \div Magnitude(d)
  ELSE -(Magnitude(n) \div Magnitude(d))

bnRayMul(x, y) == Truncated(RAY \div 2 + x * y, RAY)
bnRayDiv(x, y) == Truncated(Truncated(y, 2) + x * RAY, y)
bnWadToRay(x) == x * WAD_RAY_RATIO
bnPercentMul(x, y) == Truncated(PERCENTAGE_FACTOR \div 2 + x * y, PERCENTAGE_FACTOR)

(***************************************************************************)
(* getReserveData and getUserData of helpers.ts, over the views of         *)
(* AaveProtocolDataProvider.sol, as of time at.  sender is whose wallet    *)
(* is read.                                                                *)
(***************************************************************************)
getReserveData(a, at) ==
  LET r                 == reserves[a]
      totalStableDebt   == StableSupplyAt(r.stableDebt, at)
      totalVariableDebt == ScaledTotalSupply(r.variableDebt, getNormalizedDebt(r, at))
      totalLiquidity    == r.cash + totalStableDebt + totalVariableDebt
  IN [totalLiquidity             |-> totalLiquidity,
      utilizationRate            |-> IF totalLiquidity = 0 THEN 0
                                     ELSE bnRayDiv(totalStableDebt + totalVariableDebt,
                                                   totalLiquidity),
      availableLiquidity         |-> r.cash,
      totalStableDebt            |-> totalStableDebt,
      totalVariableDebt          |-> totalVariableDebt,
      liquidityRate              |-> r.currentLiquidityRate,
      variableBorrowRate         |-> r.currentVariableBorrowRate,
      stableBorrowRate           |-> r.currentStableBorrowRate,
      averageStableBorrowRate    |-> r.stableDebt.avgStableRate,
      liquidityIndex             |-> r.liquidityIndex,
      variableBorrowIndex        |-> r.variableBorrowIndex,
      lastUpdateTimestamp        |-> r.lastUpdateTimestamp,
      totalStableDebtLastUpdated |-> r.stableDebt.totalSupplyTimestamp,
      principalStableDebt        |-> r.stableDebt.totalSupply,
      scaledVariableDebt         |-> r.variableDebt.totalSupply]

getUserData(a, user, sender, at) ==
  LET r == reserves[a]
  IN [scaledATokenBalance      |-> r.aToken.balances[user],
      currentATokenBalance     |-> ATokenBalanceOf(r, user, at),
      currentStableDebt        |-> StableDebtOf(r, user, at),
      currentVariableDebt      |-> VariableDebtOf(r, user, at),
      principalStableDebt      |-> r.stableDebt.balances[user],
      scaledVariableDebt       |-> r.variableDebt.balances[user],
      stableBorrowRate         |-> r.stableDebt.userRate[user],
      liquidityRate            |-> r.currentLiquidityRate,
      usageAsCollateralEnabled |-> a \in usingAsCollateral[user],
      stableRateLastUpdated    |-> r.stableDebt.timestamps[user],
      walletBalance            |-> wallet[a][sender]]

(***************************************************************************)
(* Interest.                                                               *)
(***************************************************************************)
calcLinearInterest(rate, t, last) == Truncated(rate * (t - last), SECONDS_PER_YEAR) + RAY

calcCompoundedInterest(rate, t, last) ==
  LET exp            == t - last
      expMinusOne    == exp - 1
      expMinusTwo    == IF exp > 2 THEN exp - 2 ELSE 0
      ratePerSecond  == rate \div SECONDS_PER_YEAR
      basePowerTwo   == bnRayMul(ratePerSecond, ratePerSecond)
      basePowerThree == bnRayMul(basePowerTwo, ratePerSecond)
  IN IF exp = 0 THEN RAY
     ELSE RAY + ratePerSecond * exp
            + (exp * expMinusOne * basePowerTwo) \div 2
            + (exp * expMinusOne * expMinusTwo * basePowerThree) \div 6

calcExpectedReserveNormalizedIncome(b, t) ==
  IF b.liquidityRate = 0 THEN b.liquidityIndex
  ELSE bnRayMul(calcLinearInterest(b.liquidityRate, t, b.lastUpdateTimestamp),
                b.liquidityIndex)

calcExpectedReserveNormalizedDebt(rate, index, last, t) ==
  IF rate = 0 THEN index ELSE bnRayMul(calcCompoundedInterest(rate, t, last), index)

calcExpectedLiquidityIndex(b, t) ==
  IF b.utilizationRate = 0 THEN b.liquidityIndex
  ELSE bnRayMul(calcLinearInterest(b.liquidityRate, t, b.lastUpdateTimestamp),
                b.liquidityIndex)

calcExpectedVariableBorrowIndex(b, t) ==
  IF b.totalVariableDebt = 0 THEN b.variableBorrowIndex
  ELSE bnRayMul(calcCompoundedInterest(b.variableBorrowRate, t, b.lastUpdateTimestamp),
                b.variableBorrowIndex)

(***************************************************************************)
(* Balances and debts.                                                     *)
(***************************************************************************)
calcExpectedTotalStableDebt(principal, rate, last, t) ==
  bnRayMul(calcCompoundedInterest(rate, t, last), principal)

TotalStableDebtAt(b, t) ==
  calcExpectedTotalStableDebt(b.principalStableDebt, b.averageStableBorrowRate,
                              b.totalStableDebtLastUpdated, t)

calcExpectedStableDebtTokenBalance(principal, rate, last, t) ==
  IF rate = 0 \/ t = last \/ last = 0 THEN principal
  ELSE bnRayMul(principal, calcCompoundedInterest(rate, t, last))

StableDebtAt(ub, t) ==
  calcExpectedStableDebtTokenBalance(ub.principalStableDebt, ub.stableBorrowRate,
                                     ub.stableRateLastUpdated, t)

calcExpectedVariableDebtTokenBalance(b, ub, t) ==
  bnRayMul(ub.scaledVariableDebt,
           calcExpectedReserveNormalizedDebt(b.variableBorrowRate, b.variableBorrowIndex,
                                             b.lastUpdateTimestamp, t))

calcExpectedATokenBalance(b, ub, t) ==
  bnRayMul(ub.scaledATokenBalance, calcExpectedReserveNormalizedIncome(b, t))

calcExpectedScaledATokenBalance(ub, index, added, taken) ==
  ub.scaledATokenBalance + bnRayDiv(added, index) - bnRayDiv(taken, index)

(***************************************************************************)
(* Rates.                                                                  *)
(***************************************************************************)
calcExpectedUserStableRate(balance, rateBefore, amount, rateNew) ==
  Truncated(balance * rateBefore + amount * rateNew, balance + amount)

calcExpectedAverageStableBorrowRate(rateBefore, debtBefore, change, rate) ==
  IF debtBefore + change = 0 THEN 0
  ELSE Truncated(rateBefore * debtBefore + rate * change, debtBefore + change)

\* The debt before is in wad, the change in ray.
calcExpectedAverageStableBorrowRateRebalance(rateBefore, debtBefore, change, rate) ==
  LET total == debtBefore + bnWadToRay(change)
  IN IF total = 0 THEN 0
     ELSE bnRayDiv(bnRayMul(rateBefore, debtBefore) + bnRayMul(rate, bnWadToRay(change)), total)

calcExpectedUtilizationRate(stable, variable, totalLiquidity) ==
  IF stable = 0 /\ variable = 0 THEN 0 ELSE bnRayDiv(stable + variable, totalLiquidity)

calcExpectedOverallBorrowRate(stable, variable, variableRate, averageStableRate) ==
  IF stable + variable = 0 THEN 0
  ELSE bnRayDiv(bnRayMul(bnWadToRay(variable), variableRate)
                  + bnRayMul(bnWadToRay(stable), averageStableRate),
                bnWadToRay(stable + variable))

\* The parameters are those of the market's configuration file.
calcExpectedInterestRates(a, utilization, stable, variable, averageStableRate) ==
  LET s      == Strategy[a]
      excess == bnRayDiv(utilization - s.optimalUtilizationRate,
                         RAY - s.optimalUtilizationRate)
      share  == bnRayDiv(utilization, s.optimalUtilizationRate)
      Slopes(first, second) == IF utilization > s.optimalUtilizationRate
                               THEN first + bnRayMul(second, excess)
                               ELSE bnRayMul(share, first)
      variableRate == s.baseVariableBorrowRate
                        + Slopes(s.variableRateSlope1, s.variableRateSlope2)
      overallRate  == calcExpectedOverallBorrowRate(stable, variable, variableRate,
                                                    averageStableRate)
  IN [liquidityRate      |->
        bnPercentMul(bnRayMul(overallRate, utilization),
                     PERCENTAGE_FACTOR - InitialConfiguration[a].reserveFactor),
      stableBorrowRate   |-> s.marketBorrowRate
                               + Slopes(s.stableRateSlope1, s.stableRateSlope2),
      variableBorrowRate |-> variableRate]

(***************************************************************************)
(* What a reserve is expected to be, part by part.  Only compared fields   *)
(* are listed: timestamps and the market rate are accessory data.          *)
(***************************************************************************)
Indexes(b, t) ==
  [liquidityIndex      |-> calcExpectedLiquidityIndex(b, t),
   variableBorrowIndex |-> calcExpectedVariableBorrowIndex(b, t)]

\* The accrued debts, and the scaled amounts and average rate they come from.
UntouchedDebts(b, t) ==
  [totalStableDebt         |-> TotalStableDebtAt(b, t),
   totalVariableDebt       |-> bnRayMul(b.scaledVariableDebt,
                                        calcExpectedVariableBorrowIndex(b, t)),
   scaledVariableDebt      |-> b.scaledVariableDebt,
   principalStableDebt     |-> b.principalStableDebt,
   averageStableBorrowRate |-> b.averageStableBorrowRate]

\* Once debts and liquidity are known, the utilization and the rates follow.
Liquidity(available, debts) ==
  [availableLiquidity |-> available,
   totalLiquidity     |-> available + debts.totalStableDebt + debts.totalVariableDebt]

WithUtilization(debts, liquidity) ==
  calcExpectedUtilizationRate(debts.totalStableDebt, debts.totalVariableDebt,
                              liquidity.totalLiquidity)

Rates(a, debts, liquidity) ==
  calcExpectedInterestRates(a, WithUtilization(debts, liquidity), debts.totalStableDebt,
                            debts.totalVariableDebt, debts.averageStableBorrowRate)

ReserveData(a, indexes, debts, liquidity) ==
  indexes @@ debts @@ liquidity @@ Rates(a, debts, liquidity)
    @@ [utilizationRate |-> WithUtilization(debts, liquidity)]

\* A total stable debt of which only the principal is left, right after a change.
WithStableDebt(debts, total, averageRate) ==
  [debts EXCEPT !.totalStableDebt = total, !.principalStableDebt = total,
                !.averageStableBorrowRate = averageRate]

WithScaledVariableDebt(debts, scaled, index) ==
  [debts EXCEPT !.scaledVariableDebt = scaled, !.totalVariableDebt = bnRayMul(scaled, index)]

(***************************************************************************)
(* The reserve after each operation.                                       *)
(***************************************************************************)
\* The total liquidity is the one read before, without the interest since.
calcExpectedReserveDataAfterDeposit(a, b, amount, t) ==
  ReserveData(a, Indexes(b, t), UntouchedDebts(b, t),
              [availableLiquidity |-> b.availableLiquidity + amount,
               totalLiquidity     |-> b.totalLiquidity + amount])

calcExpectedReserveDataAfterWithdraw(a, b, ub, amount, t) ==
  LET withdrawn == IF amount = MAX_UINT256 THEN calcExpectedATokenBalance(b, ub, t) ELSE amount
      debts     == UntouchedDebts(b, t)
  IN ReserveData(a, Indexes(b, t), debts, Liquidity(b.availableLiquidity - withdrawn, debts))

\* Rates are set at t, and the debts accrue at them until the reading at end.
calcExpectedReserveDataAfterBorrow(a, b, amount, mode, t, end) ==
  LET indexes     == Indexes(b, t)
      index       == indexes.variableBorrowIndex
      before      == UntouchedDebts(b, t)
      available   == b.availableLiquidity - amount
      afterTx     ==
        IF mode = "stable"
        THEN WithStableDebt(before, before.totalStableDebt + amount,
               calcExpectedAverageStableBorrowRate(b.averageStableBorrowRate,
                 before.totalStableDebt, amount, b.stableBorrowRate))
        ELSE WithScaledVariableDebt(before, b.scaledVariableDebt + bnRayDiv(amount, index), index)
      ratesAfter  == Rates(a, afterTx, Liquidity(available, afterTx))
      stableAtEnd ==
        IF mode = "stable"
        THEN calcExpectedTotalStableDebt(afterTx.principalStableDebt,
                                         afterTx.averageStableBorrowRate, t, end)
        ELSE TotalStableDebtAt(b, end)
      atEnd       ==
        [afterTx EXCEPT
           !.totalStableDebt   = stableAtEnd,
           !.totalVariableDebt = bnRayMul(afterTx.scaledVariableDebt,
              calcExpectedReserveNormalizedDebt(ratesAfter.variableBorrowRate, index, t, end))]
      liquidity   == Liquidity(available, atEnd)
  IN indexes @@ atEnd @@ liquidity @@ ratesAfter
       @@ [utilizationRate |-> WithUtilization(atEnd, liquidity)]

\* "due to accumulation errors, the total stable debt might be smaller than
\* the last user debt": supply and average rate are then 0.
StableDebtsAfterBurn(debts, amount, rate) ==
  LET left    == debts.totalStableDebt - amount
      average == calcExpectedAverageStableBorrowRate(debts.averageStableBorrowRate,
                                                     debts.totalStableDebt, -amount, rate)
  IN IF left < 0 \/ average < 0 THEN WithStableDebt(debts, 0, 0)
     ELSE WithStableDebt(debts, left, average)

AmountRepaid(b, ub, amount, mode, t) ==
  IF amount # MAX_UINT256 THEN amount
  ELSE IF mode = "stable" THEN StableDebtAt(ub, t)
  ELSE calcExpectedVariableDebtTokenBalance(b, ub, t)

\* A repayment of variable debt leaves the stable debt as it was read before.
calcExpectedReserveDataAfterRepay(a, b, ub, amount, mode, t) ==
  LET repaid  == AmountRepaid(b, ub, amount, mode, t)
      indexes == Indexes(b, t)
      index   == indexes.variableBorrowIndex
      before  == UntouchedDebts(b, t)
      debts   ==
        IF mode = "stable" THEN StableDebtsAfterBurn(before, repaid, ub.stableBorrowRate)
        ELSE [WithScaledVariableDebt(before, b.scaledVariableDebt - bnRayDiv(repaid, index), index)
                EXCEPT !.totalStableDebt = b.totalStableDebt]
  IN ReserveData(a, indexes, debts, Liquidity(b.availableLiquidity + repaid, debts))

calcExpectedReserveDataAfterSwapRateMode(a, b, ub, mode, t) ==
  LET variableDebt == calcExpectedVariableDebtTokenBalance(b, ub, t)
      stableDebt   == StableDebtAt(ub, t)
      indexes      == Indexes(b, t)
      index        == indexes.variableBorrowIndex
      before       == UntouchedDebts(b, t)
      debts        ==
        IF mode = "stable"
        THEN WithScaledVariableDebt(
               WithStableDebt(before, before.totalStableDebt - stableDebt,
                 calcExpectedAverageStableBorrowRate(b.averageStableBorrowRate,
                   before.totalStableDebt, -stableDebt, ub.stableBorrowRate)),
               b.scaledVariableDebt + bnRayDiv(stableDebt, index), index)
        ELSE WithScaledVariableDebt(
               WithStableDebt(before, before.totalStableDebt + variableDebt,
                 calcExpectedAverageStableBorrowRate(b.averageStableBorrowRate,
                   b.totalStableDebt, variableDebt, b.stableBorrowRate)),
               b.scaledVariableDebt - bnRayDiv(variableDebt, index), index)
  IN ReserveData(a, indexes, debts, Liquidity(b.availableLiquidity, debts))

\* The user's debt leaves the average at its old rate and enters it at the new.
calcExpectedReserveDataAfterStableRateRebalance(a, b, ub, t) ==
  LET userDebt == StableDebtAt(ub, t)
      before   == UntouchedDebts(b, t)
      total    == before.totalStableDebt
      without  == calcExpectedAverageStableBorrowRateRebalance(
                    b.averageStableBorrowRate, total, -userDebt, ub.stableBorrowRate)
      debts    == WithStableDebt(before, total,
                    calcExpectedAverageStableBorrowRateRebalance(
                      without, total - userDebt, userDebt, b.stableBorrowRate))
  IN ReserveData(a, Indexes(b, t), debts, Liquidity(b.availableLiquidity, debts))

(***************************************************************************)
(* The user after each operation; e is the reserve expected after it.      *)
(***************************************************************************)
WithCurrentBalances(b, ub, t) ==
  [ub EXCEPT !.currentATokenBalance = calcExpectedATokenBalance(b, ub, t),
             !.currentStableDebt    = StableDebtAt(ub, t),
             !.currentVariableDebt  = calcExpectedVariableDebtTokenBalance(b, ub, t)]

\* The principal of the stable debt is last overwritten by the variable debt.
calcExpectedUserDataAfterDeposit(b, e, ub, amount, t) ==
  [WithCurrentBalances(b, ub, t) EXCEPT
     !.principalStableDebt      = calcExpectedVariableDebtTokenBalance(b, ub, t),
     !.liquidityRate            = e.liquidityRate,
     !.scaledATokenBalance      = calcExpectedScaledATokenBalance(ub, e.liquidityIndex, amount, 0),
     !.currentATokenBalance     = @ + amount,
     !.usageAsCollateralEnabled = ub.currentATokenBalance = 0 \/ @,
     !.walletBalance            = @ - amount]

calcExpectedUserDataAfterWithdraw(b, e, ub, amount, t) ==
  LET balance   == calcExpectedATokenBalance(b, ub, t)
      withdrawn == IF amount = MAX_UINT256 THEN balance ELSE amount
  IN [WithCurrentBalances(b, ub, t) EXCEPT
        !.liquidityRate            = e.liquidityRate,
        !.scaledATokenBalance      = calcExpectedScaledATokenBalance(ub, e.liquidityIndex,
                                                                     0, withdrawn),
        !.currentATokenBalance     = balance - withdrawn,
        !.usageAsCollateralEnabled = ub.currentATokenBalance = 0 \/ (balance # withdrawn /\ @),
        !.walletBalance            = @ + withdrawn]

\* A variable loan is added to the scaled debt of the whole reserve.
calcExpectedUserDataAfterBorrow(b, e, ub, amount, mode, t, end) ==
  LET untilTx  == StableDebtAt(ub, t)
      borrowed ==
        IF mode = "stable"
        THEN [ub EXCEPT
                !.principalStableDebt   = untilTx + amount,
                !.stableRateLastUpdated = t,
                !.stableBorrowRate      = calcExpectedUserStableRate(
                                            untilTx, @, amount, b.stableBorrowRate)]
        ELSE [ub EXCEPT !.scaledVariableDebt =
                b.scaledVariableDebt + bnRayDiv(amount, e.variableBorrowIndex)]
      eAtTx    == e @@ [lastUpdateTimestamp |-> t]
  IN [WithCurrentBalances(eAtTx, borrowed, end) EXCEPT
        !.liquidityRate = e.liquidityRate,
        !.walletBalance = @ + amount]

\* A variable repayment swaps the current and the principal stable debt.
calcExpectedUserDataAfterRepay(b, e, ub, amount, mode, isOwn, t) ==
  LET repaid     == AmountRepaid(b, ub, amount, mode, t)
      current    == WithCurrentBalances(b, ub, t)
      stableLeft == current.currentStableDebt - repaid
      scaledLeft == ub.scaledVariableDebt - bnRayDiv(repaid, e.variableBorrowIndex)
      debts      ==
        IF mode = "stable"
        THEN [current EXCEPT
                !.principalStableDebt   = stableLeft,
                !.currentStableDebt     = stableLeft,
                !.stableBorrowRate      = IF stableLeft = 0 THEN 0 ELSE @,
                !.stableRateLastUpdated = IF stableLeft = 0 THEN 0 ELSE t]
        ELSE [current EXCEPT
                !.currentStableDebt   = ub.principalStableDebt,
                !.principalStableDebt = current.currentStableDebt,
                !.scaledVariableDebt  = scaledLeft,
                !.currentVariableDebt = bnRayMul(scaledLeft, e.variableBorrowIndex)]
  IN [debts EXCEPT !.liquidityRate = e.liquidityRate,
                   !.walletBalance = IF isOwn THEN @ - repaid ELSE @]

calcExpectedUserDataAfterSetUseAsCollateral(ub, use) ==
  [ub EXCEPT !.usageAsCollateralEnabled = use]

calcExpectedUserDataAfterSwapRateMode(b, e, ub, mode, t) ==
  LET current == WithCurrentBalances(b, ub, t)
      scaled  == ub.scaledVariableDebt
                   + bnRayDiv(current.currentStableDebt, e.variableBorrowIndex)
      debt    == ub.currentStableDebt + current.currentVariableDebt
  IN IF mode = "stable"
     THEN [current EXCEPT
             !.currentStableDebt     = 0, !.principalStableDebt = 0,
             !.stableBorrowRate      = 0, !.stableRateLastUpdated = 0,
             !.scaledVariableDebt    = scaled,
             !.currentVariableDebt   = bnRayMul(scaled, e.variableBorrowIndex),
             !.liquidityRate         = e.liquidityRate]
     ELSE [current EXCEPT
             !.currentStableDebt     = debt, !.principalStableDebt = debt,
             !.stableBorrowRate      = calcExpectedUserStableRate(
                                         current.currentStableDebt, @,
                                         current.currentVariableDebt, b.stableBorrowRate),
             !.stableRateLastUpdated = t,
             !.scaledVariableDebt    = 0, !.currentVariableDebt = 0,
             !.liquidityRate         = e.liquidityRate]

\* The user's new rate is taken from the average of the reserve.
calcExpectedUserDataAfterStableRateRebalance(b, e, ub, t) ==
  [WithCurrentBalances(b, ub, t) EXCEPT
     !.principalStableDebt   = StableDebtAt(ub, t),
     !.stableRateLastUpdated = t,
     !.stableBorrowRate      = e.averageStableBorrowRate,
     !.liquidityRate         = e.liquidityRate]

(***************************************************************************)
(* almostEqualOrEqual: numbers may differ by 3 units, the rest must be the *)
(* same; accessory fields are skipped.                                     *)
(***************************************************************************)
Accessory == {"lastUpdateTimestamp", "totalStableDebtLastUpdated"}

\* The fields of actual data the expected data disagree with.
Mismatches(actual, expected) ==
  {key \in DOMAIN actual \ Accessory :
     IF key = "usageAsCollateralEnabled" THEN actual[key] # expected[key]
     ELSE actual[key] - expected[key] \notin -3 .. 3}

almostEqualOrEqual(actual, expected) == Mismatches(actual, expected) = {}

=============================================================================
