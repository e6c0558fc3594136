----------------------------- MODULE FlashLoan ------------------------------
(***************************************************************************)
(* LendingPool.flashLoan.  Between paying out and accounting, the pool     *)
(* calls the receiver, whose executeOperation may call back into the pool, *)
(* for another flash loan as well: here a transaction is several actions,  *)
(* and flashes the stack of loans it is inside of.                         *)
(*                                                                         *)
(* A transaction that reverts has never happened: it is a behaviour that   *)
(* stops inside a loan.                                                    *)
(***************************************************************************)
EXTENDS LendingPoolProperties, Sequences

CONSTANTS
  FLASHLOAN_PREMIUM_TOTAL,   \* _flashLoanPremiumTotal: 9, of 10000
  LoanLists,                 \* the lists of assets, amounts and modes asked for
  MaxDepth                   \* bound on loans inside loans, for model checking

Leg == [asset : Assets, amount : Nat, mode : RateModes \union {"none"}]

ASSUME FlashLoanAssumption ==
  /\ FLASHLOAN_PREMIUM_TOTAL \in Nat
  /\ LoanLists \subseteq Seq(Leg) \ {<<>>}

VARIABLE flashes   \* the innermost loan first

\* A loan, and how many of its legs are paid out and accounted for.
FlashLoans ==
  [caller : Users, receiver : Users, onBehalfOf : Users, legs : LoanLists,
   paid : Nat, settled : Nat]

FlashTypeOK == TypeOK /\ flashes \in Seq(FlashLoans)

premium(amount) == (amount * FLASHLOAN_PREMIUM_TOTAL) \div PERCENTAGE_FACTOR

\* Whose code is running: anybody's outside the pool, the pool's own loops, or
\* the innermost receiver's.
Idle == flashes = <<>>
PayingOut == ~Idle /\ flashes[1].paid < Len(flashes[1].legs)
InCallback == ~Idle /\ ~PayingOut /\ flashes[1].settled = 0

(***************************************************************************)
(* The first loop: every amount is paid out to the receiver.               *)
(***************************************************************************)
flashLoan(caller, receiver, legs, onBehalfOf) ==
  /\ ~paused
  /\ Idle \/ InCallback
  /\ Len(flashes) < MaxDepth
  /\ flashes' = <<[caller |-> caller, receiver |-> receiver, onBehalfOf |-> onBehalfOf,
                   legs |-> legs, paid |-> 0, settled |-> 0]>> \o flashes
  /\ UNCHANGED vars

transferUnderlyingTo ==
  LET leg == flashes[1].legs[flashes[1].paid + 1]
  IN /\ PayingOut
     /\ leg.amount <= reserves[leg.asset].cash
     /\ reserves' = [reserves EXCEPT ![leg.asset].cash = @ - leg.amount]
     /\ wallet' = Received(wallet, leg.asset, flashes[1].receiver, leg.amount)
     /\ flashes' = [flashes EXCEPT ![1].paid = @ + 1]
     /\ UNCHANGED <<configuration, borrowing, usingAsCollateral, paused,
                    borrowAllowance, price, now>>

(***************************************************************************)
(* The second loop, once executeOperation has returned.                    *)
(***************************************************************************)
Settling == ~Idle /\ ~PayingOut

CurrentLeg == flashes[1].legs[flashes[1].settled + 1]

\* After its last leg a loan returns to whoever asked for it.
NextLeg ==
  flashes' = IF flashes[1].settled + 1 = Len(flashes[1].legs) THEN Tail(flashes)
             ELSE [flashes EXCEPT ![1].settled = @ + 1]

\* Mutation: the rates are told the amount alone.
ReturnedWithoutPremium(r, a, amount) ==
  Repriced(a,
    cumulateToLiquidityIndex(r, ScaledTotalSupply(r.aToken, getNormalizedIncome(r, now)),
                             premium(amount)),
    amount)

\* Mutation: the amount is taken for income together with its premium.
ReturnedAsIncome(r, a, amount) ==
  Repriced(a,
    cumulateToLiquidityIndex(r, ScaledTotalSupply(r.aToken, getNormalizedIncome(r, now)),
                             amount + premium(amount)),
    amount + premium(amount))

\* What is added to the reserve: the premium becomes income, the rates count both.
Returned(r, a, amount) ==
  Repriced(a,
    cumulateToLiquidityIndex(r, ScaledTotalSupply(r.aToken, getNormalizedIncome(r, now)),
                             premium(amount)),
    amount + premium(amount))

returnFunds ==
  LET leg      == CurrentLeg
      a        == leg.asset
      owed     == leg.amount + premium(leg.amount)
      receiver == flashes[1].receiver
      accrued  == Accrued(a, reserves[a])
      supply   == ScaledTotalSupply(accrued.aToken, getNormalizedIncome(accrued, now))
  IN /\ Settling
     /\ leg.mode = "none"
     /\ CanAccrue(a, reserves[a])
     /\ CanCumulate(accrued, supply, premium(leg.amount))
     /\ CanReprice(a, cumulateToLiquidityIndex(accrued, supply, premium(leg.amount)), owed)
     /\ owed <= wallet[a][receiver]
     /\ reserves' = [reserves EXCEPT ![a] =
          [Returned(accrued, a, leg.amount) EXCEPT !.cash = @ + owed]]
     /\ wallet' = Paid(wallet, a, receiver, owed)
     /\ NextLeg
     /\ UNCHANGED <<configuration, borrowing, usingAsCollateral, paused,
                    borrowAllowance, price, now>>

\* _executeBorrow without releasing the underlying, which is gone already.
openDebt ==
  LET leg        == CurrentLeg
      a          == leg.asset
      caller     == flashes[1].caller
      onBehalfOf == flashes[1].onBehalfOf
      accrued    == Accrued(a, reserves[a])
      minted     == MintDebt(accrued, leg.mode, onBehalfOf, leg.amount)
  IN /\ Settling
     /\ leg.mode \in RateModes
     /\ validateBorrow(a, onBehalfOf, leg.amount, leg.mode)
     /\ CanAccrue(a, reserves[a])
     /\ MaySpend(caller, a, leg.mode, onBehalfOf, leg.amount)
     /\ CanMintDebt(accrued, leg.mode, onBehalfOf, leg.amount)
     /\ CanReprice(a, minted, 0)
     /\ reserves' = [reserves EXCEPT ![a] = Repriced(a, minted, 0)]
     /\ borrowing' = IF isFirstBorrowing(accrued, leg.mode, onBehalfOf)
                     THEN WithBit(borrowing, onBehalfOf, a) ELSE borrowing
     /\ borrowAllowance' = AllowanceSpent(caller, a, leg.mode, onBehalfOf, leg.amount)
     /\ NextLeg
     /\ UNCHANGED <<configuration, usingAsCollateral, paused, wallet, price, now>>

(***************************************************************************)
(* A specification.  The receiver may make any transaction's calls; blocks *)
(* are mined, prices and configurations change, between transactions.      *)
(***************************************************************************)
FlashInit == Init /\ flashes = <<>>

Call ==
  /\ Idle \/ InCallback
  /\ Supply \/ Loan \/ StableSwitch \/ CollateralSwitch \/ Delegation \/ Liquidation
  /\ UNCHANGED flashes

AskFlashLoan ==
  \E u, v, w \in Users, legs \in LoanLists : flashLoan(u, v, legs, w)

Process == transferUnderlyingTo \/ returnFunds \/ openDebt

Between ==
  /\ Idle
  /\ Configuration \/ PriceChange \/ NextBlock
  /\ UNCHANGED flashes

FlashNext == Call \/ AskFlashLoan \/ Process \/ Between

flashVars == <<vars, flashes>>
FlashSpec == FlashInit /\ [][FlashNext]_flashVars

(***************************************************************************)
(* While a loan is out, its amount stands for the cash that is missing.    *)
(***************************************************************************)
Unsettled(a, f) ==
  MapThenSumSet(LAMBDA i : f.legs[i].amount,
                {i \in f.settled + 1 .. f.paid : f.legs[i].asset = a})

Outstanding(a) == MapThenSumSet(LAMBDA i : Unsettled(a, flashes[i]), DOMAIN flashes)

(***************************************************************************)
(* No step of a flash loan, of what its receiver does meanwhile or of      *)
(* loans inside loans hands out claims that nothing backs: the premium     *)
(* added to the deposits is the premium paid.                              *)
(***************************************************************************)
EquityKeptInLoans ==
  [][<<configuration, now>>' = <<configuration, now>> =>
       \A a \in Assets : ~LentForNothing(a) =>
         (Equity(a) + Outstanding(a))' >= Equity(a) + Outstanding(a) - Dust]_flashVars

(***************************************************************************)
(* Whatever is called while the cash is away sets rates for a reserve that *)
(* looks empty.  When the transaction is over, none of that is left: a     *)
(* reserve written in this block has the borrow rates of what it holds.    *)
(* (The liquidity rate also depends on the reserve factor, which the       *)
(* configurator changes without updating the reserve.)                     *)
(***************************************************************************)
SameBorrowRates(r, s) ==
  /\ r.currentStableBorrowRate = s.currentStableBorrowRate
  /\ r.currentVariableBorrowRate = s.currentVariableBorrowRate

RatesSettleWithLoans ==
  Idle => \A a \in Assets :
    (reserves[a].lastUpdateTimestamp = now)
      => SameBorrowRates(reserves[a], Repriced(a, reserves[a], 0))

=============================================================================
