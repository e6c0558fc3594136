----------------------- MODULE LendingPoolProperties ------------------------
(***************************************************************************)
(* What the lending pool promises.                                         *)
(***************************************************************************)
EXTENDS LendingPool

CONSTANT Dust   \* underlying units one transaction may round away

\* The same rounding, in every asset at once, in ETH.
DustInETH == MapThenSumSet(LAMBDA a : InETH(a, Dust), Assets)

(***************************************************************************)
(* calculateUserAccountData only looks at reserves whose borrowing bit is  *)
(* set: a debt without its bit would be invisible to every health check.   *)
(* Bits and debts are written by different contracts, in different calls.  *)
(***************************************************************************)
InDebt(r, u) == r.variableDebt.balances[u] > 0 \/ r.stableDebt.balances[u] > 0

BorrowBitCoversDebt ==
  \A u \in Accounts, a \in Assets : InDebt(reserves[a], u) => a \in borrowing[u]

(***************************************************************************)
(* The scaled supply of an aToken or a variable debt token, which interest *)
(* and the treasury's share are computed from, is the sum of the balances. *)
(***************************************************************************)
IsSumOfBalances(token) ==
  token.totalSupply = MapThenSumSet(LAMBDA u : token.balances[u], Accounts)

ScaledSuppliesAreSums ==
  \A a \in Assets : /\ IsSumOfBalances(reserves[a].aToken)
                    /\ IsSumOfBalances(reserves[a].variableDebt)

(***************************************************************************)
(* updateState comes first in every operation on a reserve: if it could    *)
(* revert, say on the subtractions of _mintToTreasury, deposits and debts  *)
(* would be locked in the reserve.                                         *)
(***************************************************************************)
AccrualNeverReverts == \A a \in Assets : CanAccrue(a, reserves[a])

(***************************************************************************)
(* "Send the value type(uint256).max in order to repay the whole debt"     *)
(* (ILendingPool.sol): the amount repay computes for it before updating    *)
(* the reserve can be burned after the update, and leaves nothing.         *)
(***************************************************************************)
FullRepayEmptiesDebt ==
  \A u \in Accounts, a \in Assets :
    LET debt    == VariableDebtOf(reserves[a], u, now)
        accrued == Accrued(a, reserves[a])
    IN debt > 0 => AmountScaled(debt, accrued.variableBorrowIndex)
                     = reserves[a].variableDebt.balances[u]

(***************************************************************************)
(* What borrowers owe plus the cash, less what depositors can claim and    *)
(* the treasury's share of the interest not accrued yet.                   *)
(***************************************************************************)
OwedByBorrowers(a) ==
  MapThenSumSet(LAMBDA u : StableDebtOf(reserves[a], u, now)
                             + VariableDebtOf(reserves[a], u, now), Accounts)

Equity(a) ==
  reserves[a].cash + OwedByBorrowers(a)
    - ScaledTotalSupply(reserves[a].aToken, getNormalizedIncome(reserves[a], now))
    - AmountToMint(reserves[a], configuration[a].reserveFactor, now)

\* All the interest goes to the treasury: depositors earn a rate of 0, and the
\* debts the views show are not what _updateIndexes stores (ReserveLogic.sol:347).
LentForNothing(a) ==
  reserves[a].currentLiquidityRate = 0 /\ TotalDebt(reserves[a], now) > 0

(***************************************************************************)
(* No transaction hands out claims that nothing backs: but for rounding,   *)
(* whatever is minted, burned, moved or accrued keeps a reserve's equity.  *)
(***************************************************************************)
EquityKept ==
  [][now' = now => \A a \in Assets : Equity(a)' >= Equity(a) - Dust]_vars

(***************************************************************************)
(* A transaction, anyone's, never makes a healthy account liquidatable;    *)
(* only time, prices and the configurator do.  The shortfall is in ETH.    *)
(***************************************************************************)
Healthy(user) == healthFactor(reserves, user) >= HEALTH_FACTOR_LIQUIDATION_THRESHOLD

Shortfall(user) ==
  totalDebtInETH(reserves, user)
    - percentMul(totalCollateralInETH(reserves, user), avgLiquidationThreshold(reserves, user))

HealthyStaysHealthy ==
  [][<<price, configuration, now>>' = <<price, configuration, now>> =>
       \A u \in Accounts : Healthy(u) => Shortfall(u)' <= DustInETH]_vars

(***************************************************************************)
(* When an operation that moves balances clears a collateral bit, nothing  *)
(* is left: neither withdraw, transfer nor liquidation orphans collateral. *)
(* The exception is an account in liquidation that liquidates itself for   *)
(* aTokens: all of its balance is "seized", and stays where it was.        *)
(***************************************************************************)
ClearedBitLeavesNothing ==
  [][reserves' # reserves =>
       \A u \in Accounts : \A a \in usingAsCollateral[u] \ usingAsCollateral'[u] :
         \/ reserves'[a].aToken.balances[u] = 0
         \/ /\ ~Healthy(u)
            /\ reserves'[a].aToken.balances[u] = reserves[a].aToken.balances[u]]_vars

(***************************************************************************)
(* Debt opened in u's name for tokens that v received was allowed by u, in *)
(* that rate mode: v spends as much allowance as tokens arrive (the check  *)
(* is in the debt token's mint, the payment in _executeBorrow).            *)
(***************************************************************************)
DebtIn(mode, r, u) ==
  IF mode = "stable" THEN StableDebtOf(r, u, now) ELSE VariableDebtOf(r, u, now)

DelegatedDebtIsAllowed ==
  [][now' = now =>
       \A a \in Assets, m \in RateModes, u, v \in Accounts :
         LET received == wallet'[a][v] - wallet[a][v]
         IN (u # v /\ received > 0 /\ DebtIn(m, reserves[a], u)' > DebtIn(m, reserves[a], u))
            => borrowAllowance'[a][m][u][v] = borrowAllowance[a][m][u][v] - received]_vars

(***************************************************************************)
(* Income and debt indexes start at one ray and only grow.                 *)
(***************************************************************************)
IndexesOnlyGrow ==
  [][\A a \in Assets :
       /\ reserves'[a].liquidityIndex >= reserves[a].liquidityIndex
       /\ reserves'[a].variableBorrowIndex >= reserves[a].variableBorrowIndex]_vars

(***************************************************************************)
(* After an operation on a reserve its rates are those of the liquidity it *)
(* really has: the amounts announced to updateInterestRates are the ones   *)
(* that moved.                                                             *)
(***************************************************************************)
SameRates(r, s) ==
  /\ r.currentLiquidityRate = s.currentLiquidityRate
  /\ r.currentStableBorrowRate = s.currentStableBorrowRate
  /\ r.currentVariableBorrowRate = s.currentVariableBorrowRate

RatesMatchLiquidity ==
  [][\A a \in Assets : reserves'[a].cash # reserves[a].cash
       => SameRates(reserves'[a], Repriced(a, reserves[a], 0)')]_vars

(***************************************************************************)
(* An account in liquidation loses collateral only against its debt: no    *)
(* more than what was paid of it plus the liquidation bonus.  It cannot    *)
(* move that collateral itself: withdraw, transfer and the collateral      *)
(* switch all refuse.                                                      *)
(***************************************************************************)
LiquidationTakesDebtAndBonus ==
  [][<<price, configuration, now>>' = <<price, configuration, now>> =>
       \A u \in Accounts :
         LET debtPaid       == totalDebtInETH(reserves, u) - totalDebtInETH(reserves, u)'
             Collateral(rs) == MapThenSumSet(LAMBDA a : CollateralInETH(rs, u, a),
                                             CollateralAssets(u))
             bonus          == Max({configuration[a].liquidationBonus : a \in Assets})
         IN ~Healthy(u) => Collateral(reserves) - Collateral(reserves')
                             <= percentMul(Max({debtPaid, 0}), bonus) + DustInETH]_vars

(***************************************************************************)
(* Underlying tokens are only moved between the accounts and the reserve.  *)
(***************************************************************************)
UnderlyingConserved ==
  \A a \in Assets :
    reserves[a].cash + MapThenSumSet(LAMBDA u : wallet[a][u], Accounts)
      = MapThenSumSet(LAMBDA u : InitialWallet[a][u], Accounts)

(***************************************************************************)
(* "A frozen reserve doesn't allow any new deposit, borrow or rate swap    *)
(* but allows repayments, liquidations, rate rebalances and withdrawals"   *)
(* (LendingPoolConfigurator.sol): in its tokens, but for the treasury's    *)
(* share, nobody's claims or debts grow other than by interest.            *)
(***************************************************************************)
OthersThanTreasury == Accounts \ {Treasury}

ClaimsOn(r) == MapThenSumSet(LAMBDA u : r.aToken.balances[u], OthersThanTreasury)

FrozenOnlyShrinks ==
  [][\A a \in Assets : configuration[a].frozen =>
       /\ ClaimsOn(reserves'[a]) <= ClaimsOn(reserves[a])
       /\ \A u \in Accounts :
            /\ reserves'[a].variableDebt.balances[u] <= reserves[a].variableDebt.balances[u]
            /\ now' = now => StableDebtOf(reserves[a], u, now)' <= StableDebtOf(reserves[a], u, now)
    ]_vars

=============================================================================
