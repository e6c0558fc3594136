-------------------- MODULE LendingPoolCollateralManager --------------------
(***************************************************************************)
(* LendingPoolCollateralManager.sol: liquidationCall, which the pool runs  *)
(* by delegatecall on its own storage.                                     *)
(***************************************************************************)
EXTENDS ValidationLogic

CONSTANT LIQUIDATION_CLOSE_FACTOR_PERCENT   \* 50%

ASSUME CloseFactorAssumption == LIQUIDATION_CLOSE_FACTOR_PERCENT \in Nat

\* Underlying tokens leaving and reaching an account.
Paid(w, a, user, amount) == [w EXCEPT ![a][user] = @ - amount]

\* Mutation: what the account had is forgotten.
ReceivedOverwriting(w, a, user, amount) == [w EXCEPT ![a][user] = amount]

Received(w, a, user, amount) == [w EXCEPT ![a][user] = @ + amount]

(***************************************************************************)
(* _calculateAvailableCollateralToLiquidate: the collateral that pays for  *)
(* debtToCover with the bonus, and, when the user does not have that much, *)
(* the debt all of their collateral pays for.                              *)
(***************************************************************************)
\* Mutation: the bonus, stored as 110%, is taken on top of 100%.
CollateralForBonusOnTop(coll, debt, debtToCover) ==
  percentMul(price[debt] * debtToCover * TokenUnit[coll],
             PERCENTAGE_FACTOR + configuration[coll].liquidationBonus)
    \div (price[coll] * TokenUnit[debt])

CollateralFor(coll, debt, debtToCover) ==
  percentMul(price[debt] * debtToCover * TokenUnit[coll],
             configuration[coll].liquidationBonus)
    \div (price[coll] * TokenUnit[debt])

DebtPaidBy(coll, debt, collateralAmount) ==
  percentDiv((price[coll] * collateralAmount * TokenUnit[debt])
               \div (price[debt] * TokenUnit[coll]),
             configuration[coll].liquidationBonus)

maxLiquidatableDebt(a, user) ==
  percentMul(StableDebtOf(reserves[a], user, now) + VariableDebtOf(reserves[a], user, now),
             LIQUIDATION_CLOSE_FACTOR_PERCENT)

\* [debt, collateral] that a call for debtToCover liquidates.
Liquidated(coll, debt, user, debtToCover) ==
  LET balance  == ATokenBalanceOf(reserves[coll], user, now)
      limit    == maxLiquidatableDebt(debt, user)
      covered  == IF debtToCover > limit THEN limit ELSE debtToCover
      seized   == CollateralFor(coll, debt, covered)
      payable  == DebtPaidBy(coll, debt, balance)
  IN IF seized > balance
     THEN [debt |-> IF payable < covered THEN payable ELSE covered, collateral |-> balance]
     ELSE [debt |-> covered, collateral |-> seized]

(***************************************************************************)
(* Variable debt is burned first, stable debt for the rest.                *)
(***************************************************************************)
FromVariable(owed, amount) == IF owed >= amount THEN amount ELSE owed

BurnsVariable(owed, amount) == owed >= amount \/ owed > 0

CanBurnDebt(r, user, owed, amount) ==
  LET fromVariable == FromVariable(owed, amount)
  IN /\ BurnsVariable(owed, amount)
          => CanBurnScaled(r.variableDebt, user, fromVariable, r.variableBorrowIndex)
     /\ owed < amount => CanBurnStable(r.stableDebt, user, amount - fromVariable, now)

\* Mutation: stable debt is left to the user.
BurnDebtVariableOnly(r, user, owed, amount) ==
  [r EXCEPT !.variableDebt =
     IF BurnsVariable(owed, amount)
     THEN BurnScaled(@, user, FromVariable(owed, amount), r.variableBorrowIndex)
     ELSE @]

BurnDebt(r, user, owed, amount) ==
  LET fromVariable == FromVariable(owed, amount)
  IN [r EXCEPT
        !.variableDebt = IF BurnsVariable(owed, amount)
                         THEN BurnScaled(@, user, fromVariable, r.variableBorrowIndex)
                         ELSE @,
        !.stableDebt   = IF owed < amount
                         THEN BurnStable(@, user, amount - fromVariable, now)
                         ELSE @]

(***************************************************************************)
(* The collateral side: the liquidator gets aTokens, moved without the     *)
(* checks of a transfer, or the underlying they stand for.  rs: the        *)
(* reserves after the debt side.                                           *)
(***************************************************************************)
RepricedCollateral(rs, coll, amount) == Repriced(coll, Accrued(coll, rs[coll]), -amount)

CanSeize(rs, coll, user, amount, receiveAToken) ==
  IF receiveAToken
  THEN CanMoveScaled(rs[coll].aToken, user, amount, getNormalizedIncome(rs[coll], now))
  ELSE /\ amount <= rs[coll].cash
       /\ CanAccrue(coll, rs[coll])
       /\ CanReprice(coll, Accrued(coll, rs[coll]), -amount)
       /\ CanBurnScaled(RepricedCollateral(rs, coll, amount).aToken, user, amount,
                        RepricedCollateral(rs, coll, amount).liquidityIndex)

Seized(rs, coll, user, liquidator, amount, receiveAToken) ==
  IF receiveAToken
  THEN [rs EXCEPT ![coll].aToken =
          MoveScaled(@, user, liquidator, amount, getNormalizedIncome(rs[coll], now))]
  ELSE LET r == RepricedCollateral(rs, coll, amount)
       IN [rs EXCEPT ![coll] =
             [r EXCEPT !.aToken = BurnScaled(@, user, amount, r.liquidityIndex),
                       !.cash   = @ - amount]]

(***************************************************************************)
(* The liquidator's first aTokens become collateral; a user whose whole    *)
(* balance was seized no longer has that collateral.                       *)
(***************************************************************************)
\* Mutation: any seizure clears the user's bit.
BitsAfterSeizureOfAnything(rs, coll, user, liquidator, amount, receiveAToken) ==
  LET withLiquidator ==
        IF receiveAToken /\ ATokenBalanceOf(rs[coll], liquidator, now) = 0
        THEN WithBit(usingAsCollateral, liquidator, coll)
        ELSE usingAsCollateral
  IN WithoutBit(withLiquidator, user, coll)

BitsAfterSeizure(rs, coll, user, liquidator, amount, receiveAToken) ==
  LET withLiquidator ==
        IF receiveAToken /\ ATokenBalanceOf(rs[coll], liquidator, now) = 0
        THEN WithBit(usingAsCollateral, liquidator, coll)
        ELSE usingAsCollateral
  IN IF amount = ATokenBalanceOf(reserves[coll], user, now)
     THEN WithoutBit(withLiquidator, user, coll)
     ELSE withLiquidator

liquidationCall(liquidator, coll, debt, user, debtToCover, receiveAToken) ==
  LET variableOwed == VariableDebtOf(reserves[debt], user, now)
      owed         == StableDebtOf(reserves[debt], user, now) + variableOwed
      amounts      == Liquidated(coll, debt, user, debtToCover)
      accrued      == Accrued(debt, reserves[debt])
      burned       == BurnDebt(accrued, user, variableOwed, amounts.debt)
      rs           == [reserves EXCEPT ![debt] = Repriced(debt, burned, amounts.debt)]
      seized       == Seized(rs, coll, user, liquidator, amounts.collateral, receiveAToken)
      walletThen   == IF receiveAToken THEN wallet
                      ELSE Received(wallet, coll, liquidator, amounts.collateral)
  IN /\ ~paused
     /\ validateLiquidationCall(coll, debt, user, owed)
     /\ receiveAToken \/ amounts.collateral <= reserves[coll].cash
     /\ CanAccrue(debt, reserves[debt])
     /\ CanBurnDebt(accrued, user, variableOwed, amounts.debt)
     /\ CanReprice(debt, burned, amounts.debt)
     /\ CanSeize(rs, coll, user, amounts.collateral, receiveAToken)
     /\ amounts.debt <= walletThen[debt][liquidator]
     /\ reserves' = [seized EXCEPT ![debt].cash = @ + amounts.debt]
     /\ wallet' = Paid(walletThen, debt, liquidator, amounts.debt)
     /\ usingAsCollateral' =
          BitsAfterSeizure(rs, coll, user, liquidator, amounts.collateral, receiveAToken)
     /\ UNCHANGED <<configuration, borrowing, paused, borrowAllowance, price, now>>

=============================================================================
