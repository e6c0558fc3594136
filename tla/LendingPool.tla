---------------------------- MODULE LendingPool -----------------------------
(***************************************************************************)
(* LendingPool.sol: one action per external operation.  A transaction is   *)
(* atomic, so an action makes every call of its handler, in the source's   *)
(* order; a guard that fails is a revert.  flashLoan and the               *)
(* configurator's initReserve are not in this module.                      *)
(***************************************************************************)
EXTENDS LendingPoolCollateralManager

CONSTANTS
  Amounts,                \* the amounts transactions name
  MaxTime,                \* bound on the block time, for model checking
  InitialConfiguration,   \* what the market starts from
  InitialPrice,
  InitialWallet

ASSUME LendingPoolAssumption ==
  /\ Amounts \subseteq 0 .. MAX_UINT256
  /\ InitialConfiguration \in [Assets -> ReserveConfiguration]
  /\ InitialPrice \in [Assets -> Nat \ {0}]
  /\ InitialWallet \in [Assets -> Balances]

\* A market whose reserves were just initialized.  Block time is never 0, the
\* value of a timestamp nobody has written.
Init ==
  /\ reserves = [a \in Assets |-> InitializedReserve]
  /\ configuration = InitialConfiguration
  /\ borrowing = [u \in Accounts |-> {}]
  /\ usingAsCollateral = [u \in Accounts |-> {}]
  /\ paused = FALSE
  /\ borrowAllowance =
       [a \in Assets |-> [m \in RateModes |-> [u \in Accounts |-> NoBalances]]]
  /\ wallet = InitialWallet
  /\ price = InitialPrice
  /\ now = 1

(***************************************************************************)
(* Deposits and withdrawals.                                               *)
(***************************************************************************)
deposit(caller, a, amount, onBehalfOf) ==
  LET accrued  == Accrued(a, reserves[a])
      repriced == Repriced(a, accrued, amount)
      first    == repriced.aToken.balances[onBehalfOf] = 0
  IN /\ ~paused
     /\ validateDeposit(a, amount)
     /\ CanAccrue(a, reserves[a])
     /\ CanReprice(a, accrued, amount)
     /\ amount <= wallet[a][caller]
     /\ CanMintScaled(amount, repriced.liquidityIndex)
     /\ reserves' = [reserves EXCEPT ![a] =
          [repriced EXCEPT
             !.aToken = MintScaled(@, onBehalfOf, amount, repriced.liquidityIndex),
             !.cash   = @ + amount]]
     /\ wallet' = Paid(wallet, a, caller, amount)
     /\ usingAsCollateral' = IF first THEN WithBit(usingAsCollateral, onBehalfOf, a)
                             ELSE usingAsCollateral
     /\ UNCHANGED <<configuration, borrowing, paused, borrowAllowance, price, now>>

withdraw(caller, a, amount, to) ==
  LET userBalance == ATokenBalanceOf(reserves[a], caller, now)
      withdrawn   == IF amount = MAX_UINT256 THEN userBalance ELSE amount
      accrued     == Accrued(a, reserves[a])
      repriced    == Repriced(a, accrued, -withdrawn)
  IN /\ ~paused
     /\ validateWithdraw(a, caller, withdrawn, userBalance)
     /\ CanAccrue(a, reserves[a])
     /\ CanReprice(a, accrued, -withdrawn)
     /\ CanBurnScaled(repriced.aToken, caller, withdrawn, repriced.liquidityIndex)
     /\ reserves' = [reserves EXCEPT ![a] =
          [repriced EXCEPT
             !.aToken = BurnScaled(@, caller, withdrawn, repriced.liquidityIndex),
             !.cash   = @ - withdrawn]]
     /\ wallet' = Received(wallet, a, to, withdrawn)
     /\ usingAsCollateral' = IF withdrawn = userBalance
                             THEN WithoutBit(usingAsCollateral, caller, a)
                             ELSE usingAsCollateral
     /\ UNCHANGED <<configuration, borrowing, paused, borrowAllowance, price, now>>

(***************************************************************************)
(* The two debt tokens of a reserve, by rate mode.                         *)
(***************************************************************************)
CanMintDebt(r, mode, user, amount) ==
  IF mode = "stable"
  THEN CanMintStable(r.stableDebt, user, amount, r.currentStableBorrowRate, now)
  ELSE CanMintScaled(amount, r.variableBorrowIndex)

MintDebt(r, mode, user, amount) ==
  IF mode = "stable"
  THEN [r EXCEPT !.stableDebt =
          MintStable(@, user, amount, r.currentStableBorrowRate, now)]
  ELSE [r EXCEPT !.variableDebt =
          MintScaled(@, user, amount, r.variableBorrowIndex)]

CanBurnDebtOf(r, mode, user, amount) ==
  IF mode = "stable"
  THEN CanBurnStable(r.stableDebt, user, amount, now)
  ELSE CanBurnScaled(r.variableDebt, user, amount, r.variableBorrowIndex)

BurnDebtOf(r, mode, user, amount) ==
  IF mode = "stable"
  THEN [r EXCEPT !.stableDebt = BurnStable(@, user, amount, now)]
  ELSE [r EXCEPT !.variableDebt = BurnScaled(@, user, amount, r.variableBorrowIndex)]

isFirstBorrowing(r, mode, user) ==
  IF mode = "stable" THEN StableDebtOf(r, user, now) = 0
  ELSE r.variableDebt.balances[user] = 0

(***************************************************************************)
(* A debt opened for somebody else spends the allowance they gave.         *)
(***************************************************************************)
approveDelegation(delegator, a, mode, delegatee, amount) ==
  /\ borrowAllowance' = [borrowAllowance EXCEPT ![a][mode][delegator][delegatee] = amount]
  /\ UNCHANGED <<poolVars, wallet, price, now>>

MaySpend(caller, a, mode, onBehalfOf, amount) ==
  caller = onBehalfOf \/ amount <= borrowAllowance[a][mode][onBehalfOf][caller]

\* Mutation: the allowance is checked and kept.
AllowanceKept(caller, a, mode, onBehalfOf, amount) == borrowAllowance

AllowanceSpent(caller, a, mode, onBehalfOf, amount) ==
  IF caller = onBehalfOf THEN borrowAllowance
  ELSE [borrowAllowance EXCEPT ![a][mode][onBehalfOf][caller] = @ - amount]

(***************************************************************************)
(* Loans.                                                                  *)
(***************************************************************************)
borrow(caller, a, amount, mode, onBehalfOf) ==
  LET accrued  == Accrued(a, reserves[a])
      minted   == MintDebt(accrued, mode, onBehalfOf, amount)
      repriced == Repriced(a, minted, -amount)
      first    == isFirstBorrowing(accrued, mode, onBehalfOf)
  IN /\ ~paused
     /\ validateBorrow(a, onBehalfOf, amount, mode)
     /\ CanAccrue(a, reserves[a])
     /\ MaySpend(caller, a, mode, onBehalfOf, amount)
     /\ CanMintDebt(accrued, mode, onBehalfOf, amount)
     /\ CanReprice(a, minted, -amount)
     /\ reserves' = [reserves EXCEPT ![a] = [repriced EXCEPT !.cash = @ - amount]]
     /\ borrowing' = IF first THEN WithBit(borrowing, onBehalfOf, a) ELSE borrowing
     /\ borrowAllowance' = AllowanceSpent(caller, a, mode, onBehalfOf, amount)
     /\ wallet' = Received(wallet, a, caller, amount)
     /\ UNCHANGED <<configuration, usingAsCollateral, paused, price, now>>

\* Mutation: it is enough that one of the debts is paid in full.
ClearsBorrowingOfOneMode(stableDebt, variableDebt, paybackAmount) ==
  stableDebt - paybackAmount = 0 \/ variableDebt - paybackAmount = 0

\* The bit goes when the debts read before the update are paid in full.
ClearsBorrowing(stableDebt, variableDebt, paybackAmount) ==
  stableDebt + variableDebt - paybackAmount = 0

repay(caller, a, amount, mode, onBehalfOf) ==
  LET stableDebt    == StableDebtOf(reserves[a], onBehalfOf, now)
      variableDebt  == VariableDebtOf(reserves[a], onBehalfOf, now)
      debt          == IF mode = "stable" THEN stableDebt ELSE variableDebt
      paybackAmount == IF amount < debt THEN amount ELSE debt
      accrued       == Accrued(a, reserves[a])
      burned        == BurnDebtOf(accrued, mode, onBehalfOf, paybackAmount)
      repriced      == Repriced(a, burned, paybackAmount)
  IN /\ ~paused
     /\ validateRepay(a, caller, onBehalfOf, amount, debt)
     /\ CanAccrue(a, reserves[a])
     /\ CanBurnDebtOf(accrued, mode, onBehalfOf, paybackAmount)
     /\ CanReprice(a, burned, paybackAmount)
     /\ paybackAmount <= wallet[a][caller]
     /\ reserves' = [reserves EXCEPT ![a] = [repriced EXCEPT !.cash = @ + paybackAmount]]
     /\ borrowing' = IF ClearsBorrowing(stableDebt, variableDebt, paybackAmount)
                     THEN WithoutBit(borrowing, onBehalfOf, a)
                     ELSE borrowing
     /\ wallet' = Paid(wallet, a, caller, paybackAmount)
     /\ UNCHANGED <<configuration, usingAsCollateral, paused, borrowAllowance, price, now>>

OtherMode(mode) == IF mode = "stable" THEN "variable" ELSE "stable"

swapBorrowRateMode(caller, a, mode) ==
  LET stableDebt   == StableDebtOf(reserves[a], caller, now)
      variableDebt == VariableDebtOf(reserves[a], caller, now)
      amount       == IF mode = "stable" THEN stableDebt ELSE variableDebt
      accrued      == Accrued(a, reserves[a])
      burned       == BurnDebtOf(accrued, mode, caller, amount)
      minted       == MintDebt(burned, OtherMode(mode), caller, amount)
  IN /\ ~paused
     /\ validateSwapRateMode(a, caller, mode, stableDebt, variableDebt)
     /\ CanAccrue(a, reserves[a])
     /\ CanBurnDebtOf(accrued, mode, caller, amount)
     /\ CanMintDebt(burned, OtherMode(mode), caller, amount)
     /\ CanReprice(a, minted, 0)
     /\ reserves' = [reserves EXCEPT ![a] = Repriced(a, minted, 0)]
     /\ UNCHANGED <<configuration, borrowing, usingAsCollateral, paused,
                    borrowAllowance, wallet, price, now>>

rebalanceStableBorrowRate(a, user) ==
  LET stableDebt == StableDebtOf(reserves[a], user, now)
      accrued    == Accrued(a, reserves[a])
      burned     == BurnDebtOf(accrued, "stable", user, stableDebt)
      minted     == MintDebt(burned, "stable", user, stableDebt)
  IN /\ ~paused
     /\ validateRebalanceStableBorrowRate(a)
     /\ CanAccrue(a, reserves[a])
     /\ CanBurnDebtOf(accrued, "stable", user, stableDebt)
     /\ CanMintDebt(burned, "stable", user, stableDebt)
     /\ CanReprice(a, minted, 0)
     /\ reserves' = [reserves EXCEPT ![a] = Repriced(a, minted, 0)]
     /\ UNCHANGED <<configuration, borrowing, usingAsCollateral, paused,
                    borrowAllowance, wallet, price, now>>

(***************************************************************************)
(* Collateral bits and aToken transfers.                                   *)
(***************************************************************************)
setUserUseReserveAsCollateral(caller, a, useAsCollateral) ==
  /\ ~paused
  /\ validateSetUseReserveAsCollateral(a, caller, useAsCollateral)
  /\ usingAsCollateral' = IF useAsCollateral
                          THEN WithBit(usingAsCollateral, caller, a)
                          ELSE WithoutBit(usingAsCollateral, caller, a)
  /\ UNCHANGED <<reserves, configuration, borrowing, paused,
                 borrowAllowance, wallet, price, now>>

\* Mutation: any transfer clears the sender's bit.
BitsAfterAnyTransfer(a, from, to, amount, fromBefore, toBefore) ==
  LET withoutSender == WithoutBit(usingAsCollateral, from, a)
  IN IF toBefore = 0 /\ amount # 0 THEN WithBit(withoutSender, to, a) ELSE withoutSender

\* finalizeTransfer's bits: the sender's is cleared first.
BitsAfterTransfer(a, from, to, amount, fromBefore, toBefore) ==
  LET withoutSender == IF fromBefore - amount = 0
                       THEN WithoutBit(usingAsCollateral, from, a)
                       ELSE usingAsCollateral
  IN IF toBefore = 0 /\ amount # 0 THEN WithBit(withoutSender, to, a) ELSE withoutSender

\* AToken.transfer: the balances move, then the pool checks the sender's health.
transfer(from, a, to, amount) ==
  LET index      == getNormalizedIncome(reserves[a], now)
      fromBefore == ATokenBalanceOf(reserves[a], from, now)
      toBefore   == ATokenBalanceOf(reserves[a], to, now)
      moved      == [reserves EXCEPT ![a].aToken = MoveScaled(@, from, to, amount, index)]
  IN /\ ~paused
     /\ CanMoveScaled(reserves[a].aToken, from, amount, index)
     /\ validateTransfer(moved, from)
     /\ from # to => amount <= fromBefore
     /\ reserves' = moved
     /\ usingAsCollateral' =
          IF from # to THEN BitsAfterTransfer(a, from, to, amount, fromBefore, toBefore)
          ELSE usingAsCollateral
     /\ UNCHANGED <<configuration, borrowing, paused, borrowAllowance, wallet, price, now>>

(***************************************************************************)
(* The configurator's calls.                                               *)
(***************************************************************************)
setConfiguration(a, c) ==
  /\ configuration' = [configuration EXCEPT ![a] = c]
  /\ UNCHANGED <<reserves, borrowing, usingAsCollateral, paused,
                 borrowAllowance, wallet, price, now>>

setPause(val) ==
  /\ paused' = val
  /\ UNCHANGED <<reserves, configuration, borrowing, usingAsCollateral,
                 borrowAllowance, wallet, price, now>>

(***************************************************************************)
(* What happens around the pool: blocks are mined, prices move.            *)
(***************************************************************************)
NextBlock ==
  /\ now < MaxTime
  /\ now' = now + 1
  /\ UNCHANGED <<poolVars, borrowAllowance, wallet, price>>

PriceMove(a, p) ==
  /\ price' = [price EXCEPT ![a] = p]
  /\ UNCHANGED <<poolVars, borrowAllowance, wallet, now>>

(***************************************************************************)
(* A specification                                                         *)
(***************************************************************************)
Supply ==
  \E u, v \in Users, a \in Assets, x \in Amounts :
    \/ deposit(u, a, x, v)
    \/ withdraw(u, a, x, v)
    \/ transfer(u, a, v, x)

Loan ==
  \E u, v \in Users, a \in Assets, m \in RateModes, x \in Amounts :
    \/ borrow(u, a, x, m, v)
    \/ repay(u, a, x, m, v)

StableSwitch ==
  \E u \in Users, a \in Assets :
    \/ \E m \in RateModes : swapBorrowRateMode(u, a, m)
    \/ rebalanceStableBorrowRate(a, u)

CollateralSwitch ==
  \E u \in Users, a \in Assets, use \in BOOLEAN :
    setUserUseReserveAsCollateral(u, a, use)

Delegation ==
  \E u, v \in Users, a \in Assets, m \in RateModes, x \in Amounts :
    approveDelegation(u, a, m, v, x)

Liquidation ==
  \E l, u \in Users, c, d \in Assets, x \in Amounts, receive \in BOOLEAN :
    liquidationCall(l, c, d, u, x, receive)

Configuration ==
  \/ \E a \in Assets : \E c \in Configurations[a] : setConfiguration(a, c)
  \/ \E val \in BOOLEAN : setPause(val)

PriceChange == \E a \in Assets : \E p \in Prices[a] : PriceMove(a, p)

Next ==
  \/ Supply \/ Loan \/ StableSwitch \/ CollateralSwitch \/ Delegation
  \/ Liquidation \/ Configuration \/ PriceChange \/ NextBlock

Spec == Init /\ [][Next]_vars

=============================================================================
