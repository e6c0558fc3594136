----------------------------- MODULE Scenarios ------------------------------
(***************************************************************************)
(* The scenario tests of actions.ts: a transaction at a time, the data     *)
(* read before and after it, and the comparison with the expected data.    *)
(*                                                                         *)
(* A scenario is alone on its chain, so the data read before a transaction *)
(* are those of the same storage at an earlier time, readAt; only views    *)
(* that accrue interest tell the two times apart.                          *)
(***************************************************************************)
EXTENDS ExpectedData, LendingPoolProperties

VARIABLE check   \* the last transaction, and what was read before it

NoCheck == [op |-> "none"]

\* Times since the reserve was last written.
ReadTimes(a) == {t \in 1 .. now : reserves[a].lastUpdateTimestamp <= t}

Check(op, a, amount, mode, user, sender, readAt) ==
  [op |-> op, a |-> a, amount |-> amount, mode |-> mode, user |-> user, sender |-> sender,
   at |-> now, isOwn |-> TRUE,
   reserveBefore |-> getReserveData(a, readAt),
   userBefore    |-> getUserData(a, user, sender, readAt)]

scenarioDeposit(sender, a, amount, onBehalfOf) ==
  /\ deposit(sender, a, amount, onBehalfOf)
  /\ \E t \in ReadTimes(a) : check' = Check("deposit", a, amount, "none", onBehalfOf, sender, t)

scenarioWithdraw(user, a, amount) ==
  /\ withdraw(user, a, amount, user)
  /\ \E t \in ReadTimes(a) : check' = Check("withdraw", a, amount, "none", user, user, t)

scenarioDelegateBorrowAllowance(user, a, mode, receiver, amount) ==
  /\ approveDelegation(user, a, mode, receiver, amount)
  /\ check' = NoCheck

scenarioBorrow(user, a, amount, mode, onBehalfOf) ==
  /\ borrow(user, a, amount, mode, onBehalfOf)
  /\ \E t \in ReadTimes(a) : check' = Check("borrow", a, amount, mode, onBehalfOf, user, t)

\* The wallet read is that of the account whose debt is repaid.
scenarioRepay(user, a, amount, mode, onBehalfOf) ==
  /\ repay(user, a, amount, mode, onBehalfOf)
  /\ \E t \in ReadTimes(a) :
       check' = [Check("repay", a, amount, mode, onBehalfOf, onBehalfOf, t)
                   EXCEPT !.isOwn = user = onBehalfOf]

scenarioSetUseAsCollateral(user, a, use) ==
  /\ setUserUseReserveAsCollateral(user, a, use)
  /\ \E t \in ReadTimes(a) :
       check' = [Check("setUseAsCollateral", a, 0, "none", user, user, t) EXCEPT !.amount = use]

scenarioSwapBorrowRateMode(user, a, mode) ==
  /\ swapBorrowRateMode(user, a, mode)
  /\ \E t \in ReadTimes(a) : check' = Check("swapBorrowRateMode", a, 0, mode, user, user, t)

scenarioRebalanceStableBorrowRate(a, target) ==
  /\ rebalanceStableBorrowRate(a, target)
  /\ \E t \in ReadTimes(a) :
       check' = Check("rebalanceStableBorrowRate", a, 0, "none", target, target, t)

advanceTimeAndBlock == NextBlock /\ UNCHANGED check

(***************************************************************************)
(* The comparison.  After a loan the scenario may let time pass before it  *)
(* reads; after anything else it reads at once.                            *)
(***************************************************************************)
Comparing == check.op # "none" /\ (check.op = "borrow" \/ now = check.at)

ExpectedReserve ==
  LET b  == check.reserveBefore
      ub == check.userBefore
      t  == check.at
  IN CASE check.op = "deposit" ->
            calcExpectedReserveDataAfterDeposit(check.a, b, check.amount, t)
       [] check.op = "withdraw" ->
            calcExpectedReserveDataAfterWithdraw(check.a, b, ub, check.amount, t)
       [] check.op = "borrow" ->
            calcExpectedReserveDataAfterBorrow(check.a, b, check.amount, check.mode, t, now)
       [] check.op = "repay" ->
            calcExpectedReserveDataAfterRepay(check.a, b, ub, check.amount, check.mode, t)
       [] check.op = "swapBorrowRateMode" ->
            calcExpectedReserveDataAfterSwapRateMode(check.a, b, ub, check.mode, t)
       [] check.op = "rebalanceStableBorrowRate" ->
            calcExpectedReserveDataAfterStableRateRebalance(check.a, b, ub, t)
       [] OTHER -> getReserveData(check.a, now)

ExpectedUser ==
  LET b  == check.reserveBefore
      ub == check.userBefore
      t  == check.at
      e  == ExpectedReserve
  IN CASE check.op = "deposit" ->
            calcExpectedUserDataAfterDeposit(b, e, ub, check.amount, t)
       [] check.op = "withdraw" ->
            calcExpectedUserDataAfterWithdraw(b, e, ub, check.amount, t)
       [] check.op = "borrow" ->
            calcExpectedUserDataAfterBorrow(b, e, ub, check.amount, check.mode, t, now)
       [] check.op = "repay" ->
            calcExpectedUserDataAfterRepay(b, e, ub, check.amount, check.mode, check.isOwn, t)
       [] check.op = "swapBorrowRateMode" ->
            calcExpectedUserDataAfterSwapRateMode(b, e, ub, check.mode, t)
       [] check.op = "rebalanceStableBorrowRate" ->
            calcExpectedUserDataAfterStableRateRebalance(b, e, ub, t)
       [] check.op = "setUseAsCollateral" ->
            calcExpectedUserDataAfterSetUseAsCollateral(ub, check.amount)

(***************************************************************************)
(* Where the expected data are known to leave the pool, outside what the   *)
(* scenarios do: views read before the transaction that have accrued       *)
(* since, debts that are not those of the user at hand, and amounts no     *)
(* debt reaches.                                                           *)
(***************************************************************************)
\* AfterDeposit keeps the total liquidity it read; AfterRepay of variable debt
\* keeps, and AfterSwapRateMode to stable weighs, the total stable debt.
UsesStaleTotals ==
  LET b       == check.reserveBefore
      accrued == UntouchedDebts(b, check.at)
  IN \/ /\ check.op = "deposit"
        /\ accrued.totalStableDebt + accrued.totalVariableDebt
             # b.totalStableDebt + b.totalVariableDebt
     \/ /\ check.op \in {"repay", "swapBorrowRateMode"} /\ check.mode = "variable"
        /\ accrued.totalStableDebt # b.totalStableDebt

\* AfterSetUseAsCollateral keeps the balances it read, AfterSwapRateMode to
\* stable and AfterRepay of variable debt the stable debt.
UsesStaleBalances ==
  LET ub      == check.userBefore
      accrued == WithCurrentBalances(check.reserveBefore, ub, check.at)
  IN \/ check.op = "setUseAsCollateral" /\ accrued # ub
     \/ /\ check.op = "swapBorrowRateMode" /\ check.mode = "variable"
        /\ accrued.currentStableDebt # ub.currentStableDebt
     \/ /\ check.op = "repay" /\ check.mode = "variable"
        /\ accrued.currentStableDebt # ub.principalStableDebt

\* AfterDeposit puts the variable debt for the principal of the stable debt,
\* AfterBorrow the scaled debt of the reserve for that of the user.
MixesDebts ==
  LET b  == check.reserveBefore
      ub == check.userBefore
  IN \/ /\ check.op = "deposit"
        /\ ub.principalStableDebt # calcExpectedVariableDebtTokenBalance(b, ub, check.at)
     \/ /\ check.op = "borrow" /\ check.mode = "variable"
        /\ ub.scaledVariableDebt # b.scaledVariableDebt

\* AfterRepay takes any amount but type(uint256).max for the amount repaid.
RepaysMoreThanOwed ==
  /\ check.op = "repay" /\ check.amount # MAX_UINT256
  /\ check.amount > AmountRepaid(check.reserveBefore, check.userBefore, MAX_UINT256,
                                 check.mode, check.at)

\* The average after a rebalancing weighs other borrowers in the wrong unit.
RebalancesOneOfSeveral ==
  /\ check.op = "rebalanceStableBorrowRate"
  /\ check.userBefore.principalStableDebt # check.reserveBefore.principalStableDebt

ReserveOutOfReach == UsesStaleTotals \/ RepaysMoreThanOwed \/ RebalancesOneOfSeveral
UserOutOfReach == ReserveOutOfReach \/ UsesStaleBalances \/ MixesDebts

(***************************************************************************)
(* The expected data were written apart from the contracts, from the same  *)
(* definitions: on every path of scenario actions, with time passing       *)
(* before or after any of them, the reserve is what they say it is.        *)
(***************************************************************************)
ReserveDataAsExpected ==
  (Comparing /\ check.op # "setUseAsCollateral" /\ ~ReserveOutOfReach)
    => almostEqualOrEqual(getReserveData(check.a, now), ExpectedReserve)

(***************************************************************************)
(* And so are the balances, debts, rate, collateral bit and wallet of the  *)
(* account at hand.                                                        *)
(***************************************************************************)
UserDataAsExpected ==
  (Comparing /\ ~UserOutOfReach)
    => almostEqualOrEqual(getUserData(check.a, check.user, check.sender, now), ExpectedUser)

=============================================================================
