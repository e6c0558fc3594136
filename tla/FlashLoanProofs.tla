--------------------------- MODULE FlashLoanProofs --------------------------
(***************************************************************************)
(* The invariants of the pool hold at every point of a flash loan, and of  *)
(* loans inside loans: whatever the receiver calls, it calls a pool in     *)
(* which they are intact.  The calls themselves are those of               *)
(* LendingPoolProofs and the modules above it; what is new is that they    *)
(* happen between the payout of a loan and its accounting, and those two.  *)
(*                                                                         *)
(* First the types and the invariants of one state; then sums, supplies    *)
(* and the underlying; then what a step may do, and what holds unless the  *)
(* lenders of an asset earn nothing, or an index outgrows its word; then   *)
(* the rates a transaction leaves; last the configurator's market.         *)
(***************************************************************************)
EXTENDS FlashLoan, LendingPoolConfigurator, LendingPoolStepProofs

\* Every loan on the stack has a leg left to account for, and none is paid twice.
LegsLeft(f) == f.paid <= Len(f.legs) /\ f.settled < Len(f.legs)

FlashInv ==
  /\ IInv
  /\ flashes \in Seq(FlashLoans)
  /\ \A i \in 1 .. Len(flashes) : LegsLeft(flashes[i])

\* A loan's fields.
LEMMA LoanFields ==
  ASSUME NEW f \in FlashLoans
  PROVE  /\ f.caller \in Users /\ f.receiver \in Users /\ f.onBehalfOf \in Users
         /\ f.paid \in Nat /\ f.settled \in Nat
         /\ f.legs \in Seq(Leg) /\ Len(f.legs) \in Nat /\ f.legs # <<>>
<1>1. /\ f.caller \in Users /\ f.receiver \in Users /\ f.onBehalfOf \in Users
      /\ f.paid \in Nat /\ f.settled \in Nat /\ f.legs \in LoanLists
  BY DEF FlashLoans
<1>2. f.legs \in Seq(Leg) /\ f.legs # <<>> BY <1>1, FlashLoanAssumption
<1> QED BY <1>1, <1>2

\* A leg of a loan's list is what was asked for.
LEMMA LegFields ==
  ASSUME NEW f \in FlashLoans, NEW i \in Nat, i < Len(f.legs)
  PROVE  LET leg == f.legs[i + 1]
         IN /\ leg.asset \in Assets /\ leg.amount \in Nat
            /\ leg.mode \in RateModes \union {"none"}
            /\ premium(leg.amount) \in Nat
<1> DEFINE leg == f.legs[i + 1]
<1>1. f.legs \in Seq(Leg) /\ Len(f.legs) \in Nat BY LoanFields
<1>2. i + 1 \in 1 .. Len(f.legs) BY <1>1, SMT
<1>3. leg \in Leg BY <1>1, <1>2
<1> HIDE DEF leg
<1>4. /\ leg.asset \in Assets /\ leg.amount \in Nat
      /\ leg.mode \in RateModes \union {"none"}
  BY <1>3 DEF Leg
<1>5. premium(leg.amount) \in Nat
  <2>1. leg.amount * FLASHLOAN_PREMIUM_TOTAL \in Nat BY <1>4, FlashLoanAssumption, SMT
  <2>2. PERCENTAGE_FACTOR \in Nat \ {0} BY ScaleAssumption
  <2> QED BY <2>1, <2>2, DivBounds DEF premium
<1> QED BY <1>4, <1>5 DEF leg

(***************************************************************************)
(* The stack of loans.                                                     *)
(***************************************************************************)
StackSound == flashes' \in Seq(FlashLoans) /\ \A i \in 1 .. Len(flashes') : LegsLeft(flashes'[i])

\* A new loan on the stack has all its legs ahead of it.
LEMMA PushedStack ==
  ASSUME FlashInv, NEW caller \in Users, NEW receiver \in Users, NEW onBehalfOf \in Users,
         NEW legs \in LoanLists, flashLoan(caller, receiver, legs, onBehalfOf)
  PROVE  StackSound
<1> DEFINE f == [caller |-> caller, receiver |-> receiver, onBehalfOf |-> onBehalfOf,
                 legs |-> legs, paid |-> 0, settled |-> 0]
<1>1. f \in FlashLoans BY DEF FlashLoans
<1>2. LegsLeft(f)
  <2>1. legs \in Seq(Leg) /\ legs # <<>> BY FlashLoanAssumption
  <2>2. Len(legs) \in Nat \ {0} BY <2>1
  <2> QED BY <2>2, SMT DEF LegsLeft
<1>3. flashes' = <<f>> \o flashes BY DEF flashLoan
<1>4. flashes \in Seq(FlashLoans) /\ \A i \in 1 .. Len(flashes) : LegsLeft(flashes[i])
  BY DEF FlashInv
<1> HIDE DEF f
<1>5. /\ flashes' \in Seq(FlashLoans)
      /\ Len(flashes') = 1 + Len(flashes) /\ flashes'[1] = f
      /\ \A i \in 2 .. 1 + Len(flashes) : flashes'[i] = flashes[i - 1]
  BY <1>1, <1>3, <1>4
<1>6. \A i \in 2 .. 1 + Len(flashes) : i - 1 \in 1 .. Len(flashes) BY <1>4
<1> QED BY <1>2, <1>4, <1>5, <1>6 DEF StackSound

\* The innermost loan is replaced by one that is further on.
LEMMA AdvancedStack ==
  ASSUME FlashInv, flashes # <<>>, NEW f \in FlashLoans, LegsLeft(f),
         flashes' = [flashes EXCEPT ![1] = f]
  PROVE  StackSound
<1>1. flashes \in Seq(FlashLoans) /\ \A i \in 1 .. Len(flashes) : LegsLeft(flashes[i])
  BY DEF FlashInv
<1>2. /\ flashes' \in Seq(FlashLoans) /\ Len(flashes') = Len(flashes) /\ flashes'[1] = f
      /\ \A i \in 2 .. Len(flashes) : flashes'[i] = flashes[i]
  BY <1>1
<1> QED BY <1>1, <1>2 DEF StackSound

\* The innermost loan, while there is one.
LEMMA InnermostLoan ==
  ASSUME FlashInv, flashes # <<>>
  PROVE  /\ flashes[1] \in FlashLoans /\ LegsLeft(flashes[1])
         /\ flashes \in Seq(FlashLoans) /\ 1 \in 1 .. Len(flashes)
BY DEF FlashInv

\* After a leg is accounted for, the loan goes on or is over.
LEMMA NextLegStack ==
  ASSUME FlashInv, flashes # <<>>, NextLeg
  PROVE  StackSound
<1>1. /\ flashes[1] \in FlashLoans /\ LegsLeft(flashes[1])
      /\ flashes \in Seq(FlashLoans)
  BY InnermostLoan
<1>2. CASE flashes[1].settled + 1 = Len(flashes[1].legs)
  <2>1. flashes' = Tail(flashes) BY <1>2 DEF NextLeg
  <2>2. /\ Tail(flashes) \in Seq(FlashLoans)
        /\ \A i \in 1 .. Len(Tail(flashes)) :
             i + 1 \in 1 .. Len(flashes) /\ Tail(flashes)[i] = flashes[i + 1]
    BY <1>1
  <2> QED BY <2>1, <2>2 DEF StackSound, FlashInv
<1>3. CASE flashes[1].settled + 1 # Len(flashes[1].legs)
  <2> DEFINE f == [flashes[1] EXCEPT !.settled = @ + 1]
  <2>1. /\ flashes[1].settled \in Nat /\ flashes[1].paid \in Nat /\ Len(flashes[1].legs) \in Nat
    BY <1>1, LoanFields
  <2>2. flashes[1].settled + 1 \in Nat BY <2>1, SMT
  <2>3. f \in FlashLoans BY <1>1, <2>2 DEF FlashLoans
  <2>4. f.settled = flashes[1].settled + 1 /\ f.paid = flashes[1].paid /\ f.legs = flashes[1].legs
    BY <1>1 DEF FlashLoans
  <2>5. flashes' = [flashes EXCEPT ![1] = f] BY <1>3 DEF NextLeg
  <2> HIDE DEF f
  <2>6. LegsLeft(f) BY <1>1, <1>3, <2>1, <2>4, SMT DEF LegsLeft
  <2> QED BY <2>3, <2>5, <2>6, AdvancedStack
<1> QED BY <1>2, <1>3

(***************************************************************************)
(* The steps of the pool's two loops keep the invariant of the pool, and   *)
(* shrink no index.                                                        *)
(***************************************************************************)

\* The payout of a leg moves cash, and nothing else of the reserve.
LEMMA PayoutStep ==
  ASSUME FlashInv, transferUnderlyingTo
  PROVE  Step /\ StackSound
<1> DEFINE loan == flashes[1]
           leg  == loan.legs[loan.paid + 1]
           a    == leg.asset
           R    == WithCash(reserves[a], reserves[a].cash - leg.amount)
           f    == [loan EXCEPT !.paid = @ + 1]
<1>1. /\ flashes # <<>> /\ loan.paid < Len(loan.legs) /\ leg.amount <= reserves[a].cash
      /\ wallet' = Received(wallet, a, loan.receiver, leg.amount)
      /\ flashes' = [flashes EXCEPT ![1] = f]
      /\ UNCHANGED <<configuration, borrowing, usingAsCollateral, paused,
                     borrowAllowance, price, now>>
  BY DEF transferUnderlyingTo, PayingOut, Idle
<1>2. reserves' = [reserves EXCEPT ![a] = R]
  BY DEF transferUnderlyingTo, WithCash
<1>3. loan \in FlashLoans /\ LegsLeft(loan) BY <1>1, InnermostLoan
<1>4. /\ loan.paid \in Nat /\ loan.settled \in Nat /\ loan.receiver \in Users
      /\ Len(loan.legs) \in Nat
  BY <1>3, LoanFields
<1>5. a \in Assets /\ leg.amount \in Nat BY <1>1, <1>3, <1>4, LegFields
<1>6. f \in FlashLoans /\ LegsLeft(f)
  <2>1. loan.paid + 1 \in Nat BY <1>4, SMT
  <2>2. f \in FlashLoans BY <1>3, <2>1 DEF FlashLoans
  <2>3. f.paid = loan.paid + 1 /\ f.settled = loan.settled /\ f.legs = loan.legs
    BY <1>3 DEF FlashLoans
  <2> HIDE DEF f, loan
  <2> QED BY <1>1, <1>3, <1>4, <2>2, <2>3, SMT DEF LegsLeft
<1>7. StackSound BY <1>1, <1>6, AdvancedStack
<1>8. /\ IInv /\ TypeOK /\ now \in Nat /\ wallet \in Wallets
      /\ borrowing \in Bits /\ usingAsCollateral \in Bits /\ borrowAllowance \in Allowances
      /\ Sound(reserves[a], now)
      /\ \A u \in Accounts : InDebt(reserves[a], u) => a \in borrowing[u]
  BY <1>5, IInvParts DEF FlashInv
<1>9. wallet' \in Wallets
  <2>1. loan.receiver \in Accounts BY <1>4, MarketAssumption
  <2> QED BY <1>1, <1>5, <1>8, <2>1, ReceivedType
<1> HIDE DEF leg, f
<1>10. reserves[a].cash - leg.amount \in Nat
  <2>1. reserves[a].cash \in Nat BY <1>8, SoundFields
  <2> QED BY <1>1, <1>5, <2>1, SMT
<1>11. /\ Sound(R, now) /\ SameDebts(reserves[a], R)
       /\ R.liquidityIndex = reserves[a].liquidityIndex
       /\ R.variableBorrowIndex = reserves[a].variableBorrowIndex
  BY <1>8, <1>10, CashReplaced
<1> HIDE DEF R
<1>12. IndexesAtLeast(reserves[a], R) BY <1>8, <1>11, IndexesAtLeastItself
<1>13. \A u \in Accounts : InDebt(R, u) => a \in borrowing'[u]
  BY <1>1, <1>8, <1>11, SameDebtors
<1>14. \A u \in Accounts : borrowing[u] \ {a} \subseteq borrowing'[u] BY <1>1
<1>15. Step
  <2> HIDE DEF a
  <2> QED BY <1>1, <1>2, <1>5, <1>8, <1>9, <1>11, <1>12, <1>13, <1>14, ReserveStep
<1> QED BY <1>7, <1>15

\* cumulateToLiquidityIndex: a premium makes the liquidity index grow.
LEMMA CumulatedSound ==
  ASSUME NEW t \in Nat, NEW r, Sound(r, t), NEW supply \in Nat, NEW amount \in Nat,
         CanCumulate(r, supply, amount)
  PROVE  LET after == cumulateToLiquidityIndex(r, supply, amount)
         IN /\ Sound(after, t) /\ SameDebts(r, after) /\ IndexesAtLeast(r, after)
            /\ after.cash = r.cash /\ after.aToken = r.aToken
<1> DEFINE ratio == rayDiv(wadToRay(amount), wadToRay(supply))
           index == CumulatedLiquidityIndex(r, supply, amount)
           after == cumulateToLiquidityIndex(r, supply, amount)
<1>1. /\ r \in Reserve /\ RAY \in Nat
      /\ r.liquidityIndex \in Nat /\ r.variableBorrowIndex \in Nat /\ RAY <= r.liquidityIndex
  BY SoundFields, RayPositive DEF Sound
<1>2. ratio \in Nat
  <2>1. wadToRay(amount) \in Nat /\ wadToRay(supply) \in Nat \ {0}
    BY WadToRayType DEF CanCumulate
  <2> QED BY <2>1, RayDivType
<1>3. index = rayMul(RAY + ratio, r.liquidityIndex) BY DEF CumulatedLiquidityIndex
<1> HIDE DEF ratio
<1>4. RAY + ratio \in Nat /\ RAY <= RAY + ratio BY <1>1, <1>2, SMT
<1>5. index \in Nat /\ r.liquidityIndex <= index /\ RAY <= index
  <2> DEFINE factor == RAY + ratio
  <2>1. factor \in Nat /\ RAY <= factor BY <1>4
  <2>2. index = rayMul(factor, r.liquidityIndex) BY <1>3
  <2> HIDE DEF index, factor
  <2>3. index \in Nat /\ r.liquidityIndex <= index BY <1>1, <2>1, <2>2, IndexTimesFactor
  <2> QED BY <1>1, <2>3, SMT
<1>6. after = [r EXCEPT !.liquidityIndex = index] BY DEF cumulateToLiquidityIndex
<1> HIDE DEF index
<1>7. /\ after \in Reserve /\ after.liquidityIndex = index
      /\ after.variableBorrowIndex = r.variableBorrowIndex
      /\ after.lastUpdateTimestamp = r.lastUpdateTimestamp
      /\ after.variableDebt = r.variableDebt /\ after.stableDebt = r.stableDebt
      /\ after.cash = r.cash /\ after.aToken = r.aToken
  BY <1>1, <1>5, <1>6 DEF Reserve
<1> HIDE DEF after
<1>8. Sound(after, t) BY <1>5, <1>7 DEF Sound
<1>9. IndexesAtLeast(r, after) BY <1>1, <1>5, <1>7, SMT DEF IndexesAtLeast
<1> QED BY <1>7, <1>8, <1>9 DEF SameDebts, after

\* The return of a leg with its premium: updateState, the premium into the index,
\* the rates, and the transfer.
LEMMA ReturnStep ==
  ASSUME FlashInv, returnFunds
  PROVE  Step /\ StackSound
<1> DEFINE loan == flashes[1]
           leg  == loan.legs[loan.settled + 1]
           a    == leg.asset
           amount    == leg.amount
           owed      == amount + premium(amount)
           accrued   == Accrued(a, reserves[a])
           supply    == ScaledTotalSupply(accrued.aToken, getNormalizedIncome(accrued, now))
           cumulated == cumulateToLiquidityIndex(accrued, supply, premium(amount))
           repriced  == Repriced(a, cumulated, owed)
<1>1. /\ flashes # <<>> /\ NextLeg /\ owed <= wallet[a][loan.receiver]
      /\ CanAccrue(a, reserves[a])
      /\ CanCumulate(accrued, supply, premium(amount))
      /\ CanReprice(a, cumulated, owed)
      /\ wallet' = Paid(wallet, a, loan.receiver, owed)
      /\ UNCHANGED <<configuration, borrowing, usingAsCollateral, paused,
                     borrowAllowance, price, now>>
  BY DEF returnFunds, Settling, Idle, CurrentLeg
<1>2. reserves' = [reserves EXCEPT ![a] = WithCash(repriced, repriced.cash + owed)]
  BY DEF returnFunds, CurrentLeg, Returned, WithCash
<1>3. loan \in FlashLoans /\ LegsLeft(loan) /\ StackSound
  BY <1>1, InnermostLoan, NextLegStack
<1>4. loan.settled \in Nat /\ loan.receiver \in Accounts BY <1>3, LoanFields, MarketAssumption
<1>5. a \in Assets /\ amount \in Nat /\ premium(amount) \in Nat
  BY <1>3, <1>4, LegFields DEF LegsLeft
<1> HIDE DEF leg
<1>6. owed \in Nat /\ owed \in Int BY <1>5, SMT
<1>7. /\ IInv /\ TypeOK /\ now \in Nat /\ Sound(accrued, now)
      /\ IndexesAtLeast(reserves[a], accrued)
      /\ \A u \in Accounts : InDebt(accrued, u) => a \in borrowing[u]
  BY <1>1, <1>5, AccruedDebts DEF FlashInv
<1> HIDE DEF accrued
<1>8. supply \in Nat
  <2>1. accrued.aToken \in ScaledLedger BY <1>7, SoundFields
  <2>2. getNormalizedIncome(accrued, now) \in Nat /\ RAY <= getNormalizedIncome(accrued, now)
    BY <1>7, LiquidityIndexGrows
  <2>3. Treasury \in Accounts BY TreasuryAssumption
  <2> QED BY <2>1, <2>2, <2>3, ScaledBalanceType
<1> HIDE DEF supply
<1>9. /\ Sound(cumulated, now) /\ SameDebts(accrued, cumulated)
      /\ IndexesAtLeast(accrued, cumulated)
  BY <1>1, <1>5, <1>7, <1>8, CumulatedSound
<1> HIDE DEF cumulated
<1>10. IndexesAtLeast(reserves[a], cumulated)
  <2>1. Sound(reserves[a], now) BY <1>5, <1>7, IInvParts
  <2>2. /\ reserves[a].liquidityIndex \in Nat /\ reserves[a].variableBorrowIndex \in Nat
        /\ accrued.liquidityIndex \in Nat /\ accrued.variableBorrowIndex \in Nat
        /\ cumulated.liquidityIndex \in Nat /\ cumulated.variableBorrowIndex \in Nat
    BY <1>7, <1>9, <2>1, SoundFields
  <2> QED BY <1>7, <1>9, <2>2, SMT DEF IndexesAtLeast
<1> HIDE DEF owed
<1>11. repriced.cash = cumulated.cash /\ cumulated.cash \in Nat
  BY <1>1, <1>5, <1>6, <1>7, <1>9, CashAfter, SoundFields
<1> DEFINE cash == repriced.cash + owed
<1>12. cash \in Nat
  <2> HIDE DEF repriced
  <2> QED BY <1>6, <1>11, SMT
<1>13. reserves' = [reserves EXCEPT ![a] = WithCash(Repriced(a, cumulated, owed), cash)]
  BY <1>2
<1>14. /\ borrowing' \in Bits /\ borrowAllowance' \in Allowances /\ wallet \in Wallets
  BY <1>1, <1>7, IInvParts
<1>15. wallet' \in Wallets BY <1>1, <1>4, <1>5, <1>6, <1>14, PaidType
<1>16. \A u \in Accounts : InDebt(cumulated, u) => a \in borrowing'[u]
  BY <1>1, <1>7, <1>9, SameDebtors
<1>17. \A u \in Accounts : borrowing[u] \ {a} \subseteq borrowing'[u] BY <1>1
<1> HIDE DEF a, cash, repriced
<1>18. Step
  BY <1>1, <1>5, <1>7, <1>9, <1>10, <1>12, <1>13, <1>14, <1>15, <1>16, <1>17, DebtStep
<1> QED BY <1>3, <1>18

\* A spent allowance is one that was there.
LEMMA SpentAllowanceType ==
  ASSUME IInv, NEW caller \in Accounts, NEW a \in Assets, NEW mode \in RateModes,
         NEW onBehalfOf \in Accounts, NEW x \in Nat, MaySpend(caller, a, mode, onBehalfOf, x)
  PROVE  AllowanceSpent(caller, a, mode, onBehalfOf, x) \in Allowances
<1>1. borrowAllowance \in Allowances BY IInvParts
<1>2. CASE caller = onBehalfOf BY <1>1, <1>2 DEF AllowanceSpent
<1>3. CASE caller # onBehalfOf
  <2> DEFINE allowance == borrowAllowance[a][mode][onBehalfOf][caller]
  <2>1. allowance \in Nat BY <1>1 DEF Allowances, Balances
  <2>2. x <= allowance BY <1>3 DEF MaySpend
  <2>3. allowance - x \in Nat BY <2>1, <2>2, SMT
  <2> DEFINE left == allowance - x
             spent == [borrowAllowance EXCEPT ![a][mode][onBehalfOf][caller] = left]
  <2>4. AllowanceSpent(caller, a, mode, onBehalfOf, x) = spent
    BY <1>3 DEF AllowanceSpent
  <2>5. left \in Nat BY <2>3
  <2> HIDE DEF left
  <2>6. spent \in Allowances BY <1>1, <2>5, AllowanceType
  <2> QED BY <2>4, <2>6
<1> QED BY <1>2, <1>3

\* A leg that becomes a debt: _executeBorrow without the release of the underlying.
LEMMA OpenDebtStep ==
  ASSUME FlashInv, openDebt
  PROVE  Step /\ StackSound
<1> DEFINE loan       == flashes[1]
           leg        == loan.legs[loan.settled + 1]
           a          == leg.asset
           mode       == leg.mode
           x          == leg.amount
           caller     == loan.caller
           onBehalfOf == loan.onBehalfOf
           accrued    == Accrued(a, reserves[a])
           minted     == MintDebt(accrued, mode, onBehalfOf, x)
           repriced   == Repriced(a, minted, 0)
           first      == isFirstBorrowing(accrued, mode, onBehalfOf)
<1>1. /\ flashes # <<>> /\ NextLeg /\ mode \in RateModes
      /\ CanAccrue(a, reserves[a])
      /\ CanMintDebt(accrued, mode, onBehalfOf, x)
      /\ CanReprice(a, minted, 0)
      /\ MaySpend(caller, a, mode, onBehalfOf, x)
  BY DEF openDebt, Settling, Idle, CurrentLeg
<1>2. /\ reserves' = [reserves EXCEPT ![a] = repriced]
      /\ borrowing' = IF first THEN WithBit(borrowing, onBehalfOf, a) ELSE borrowing
      /\ borrowAllowance' = AllowanceSpent(caller, a, mode, onBehalfOf, x)
      /\ UNCHANGED <<configuration, usingAsCollateral, paused, wallet, price, now>>
  BY DEF openDebt, CurrentLeg
<1>3. loan \in FlashLoans /\ LegsLeft(loan) /\ StackSound
  BY <1>1, InnermostLoan, NextLegStack
<1>4. loan.settled \in Nat /\ caller \in Accounts /\ onBehalfOf \in Accounts
  BY <1>3, LoanFields, MarketAssumption
<1>5. a \in Assets /\ x \in Nat BY <1>3, <1>4, LegFields DEF LegsLeft
<1> HIDE DEF leg, caller, onBehalfOf
<1>6. /\ IInv /\ TypeOK /\ now \in Nat /\ Sound(accrued, now)
      /\ IndexesAtLeast(reserves[a], accrued)
      /\ \A u \in Accounts : InDebt(accrued, u) => a \in borrowing[u]
  BY <1>1, <1>5, AccruedDebts DEF FlashInv
<1> HIDE DEF accrued, a, x, mode
<1>7. /\ Sound(minted, now)
      /\ \A u \in Accounts \ {onBehalfOf} : InDebt(minted, u) => InDebt(accrued, u)
      /\ minted.liquidityIndex = accrued.liquidityIndex
      /\ minted.variableBorrowIndex = accrued.variableBorrowIndex
  BY <1>1, <1>4, <1>5, <1>6, MintDebtSound
<1> HIDE DEF minted
<1>8. /\ Sound(repriced, now) /\ SameDebts(minted, repriced)
      /\ repriced.liquidityIndex = minted.liquidityIndex
      /\ repriced.variableBorrowIndex = minted.variableBorrowIndex
  BY <1>1, <1>5, <1>6, <1>7, RepricedSound
<1> HIDE DEF repriced
<1>9. IndexesAtLeast(reserves[a], repriced) BY <1>6, <1>7, <1>8 DEF IndexesAtLeast
<1>10. borrowing \in Bits /\ usingAsCollateral' \in Bits /\ wallet' \in Wallets
  BY <1>2, <1>6, IInvParts
<1>11. borrowing' \in Bits BY <1>2, <1>4, <1>5, <1>10, BitTypes
<1>12. borrowAllowance' \in Allowances
  BY <1>1, <1>2, <1>4, <1>5, <1>6, SpentAllowanceType
<1>13. \A u \in Accounts : borrowing[u] \subseteq borrowing'[u]
  BY <1>2, <1>4, <1>10 DEF Bits, WithBit
<1>14. \A u \in Accounts : InDebt(minted, u) => a \in borrowing'[u]
  <2>1. \A u \in Accounts \ {onBehalfOf} : InDebt(minted, u) => a \in borrowing'[u]
    BY <1>6, <1>7, <1>13
  <2>2. CASE first
    <3>1. a \in borrowing'[onBehalfOf] BY <1>2, <1>4, <1>10, <2>2 DEF Bits, WithBit
    <3> QED BY <2>1, <3>1
  <2>3. CASE ~first
    <3>1. InDebt(accrued, onBehalfOf) BY <1>1, <1>4, <1>6, <2>3, FirstBorrowing
    <3>2. a \in borrowing'[onBehalfOf] BY <1>4, <1>6, <1>13, <3>1
    <3> QED BY <2>1, <3>2
  <2> QED BY <2>2, <2>3
<1>15. \A u \in Accounts : InDebt(repriced, u) => a \in borrowing'[u]
  BY <1>8, <1>14, SameDebtors
<1>16. \A u \in Accounts : borrowing[u] \ {a} \subseteq borrowing'[u] BY <1>13
<1>17. Step
  BY <1>2, <1>5, <1>6, <1>8, <1>9, <1>10, <1>11, <1>12, <1>15, <1>16, ReserveStep
<1> QED BY <1>3, <1>17

(***************************************************************************)
(* Every step of the pool, inside a flash loan or not.                     *)
(***************************************************************************)
LEMMA FlashStep ==
  ASSUME FlashInv, [FlashNext]_flashVars
  PROVE  FlashInv' /\ IndexesGrow
<1> SUFFICES Step /\ StackSound BY DEF Step, StackSound, FlashInv, LegsLeft
<1>1. ASSUME [Next]_vars, UNCHANGED flashes PROVE Step /\ StackSound
  BY <1>1, EveryStep DEF FlashInv, StackSound
<1>2. CASE Call BY <1>1, <1>2 DEF Call, Next
<1>3. CASE Between BY <1>1, <1>3 DEF Between, Next
<1>4. CASE AskFlashLoan
  <2>1. PICK u \in Users, v \in Users, w \in Users, legs \in LoanLists : flashLoan(u, v, legs, w)
    BY <1>4 DEF AskFlashLoan
  <2>2. Step BY <2>1, StutterStep DEF flashLoan, FlashInv
  <2> QED BY <2>1, <2>2, PushedStack
<1>5. CASE Process BY <1>5, PayoutStep, ReturnStep, OpenDebtStep DEF Process
<1>6. CASE UNCHANGED flashVars BY <1>1, <1>6 DEF flashVars
<1> QED BY <1>2, <1>3, <1>4, <1>5, <1>6 DEF FlashNext

\* A market starts outside of any loan.
LEMMA FlashInitSound ==
  ASSUME FlashInit
  PROVE  FlashInv
BY InitKeepsIInv DEF FlashInit, FlashInv

(***************************************************************************)
(* The books of LendingPoolBalanceProofs: what a loan pays out is in a       *)
(* wallet, and what it gets back comes from one.                           *)
(***************************************************************************)

\* transferUnderlyingTo: the receiver has what the reserve lost.
LEMMA PayoutBooks ==
  ASSUME FlashInv, Books, transferUnderlyingTo
  PROVE  Books'
<1> DEFINE loan == flashes[1]
           leg  == loan.legs[loan.paid + 1]
           a    == leg.asset
           x    == leg.amount
           R    == [reserves[a] EXCEPT !.cash = reserves[a].cash - x]
<1>1. /\ flashes # <<>> /\ loan.paid < Len(loan.legs)
      /\ wallet' = Received(wallet, a, loan.receiver, x)
      /\ reserves' = [reserves EXCEPT ![a] = R]
  BY DEF transferUnderlyingTo, PayingOut, Idle
<1>2. loan \in FlashLoans BY <1>1, InnermostLoan
<1>3. /\ loan.paid \in Nat /\ loan.receiver \in Accounts
  BY <1>2, LoanFields, MarketAssumption
<1>4. a \in Assets /\ x \in Nat BY <1>1, <1>2, <1>3, LegFields
<1>5. /\ IInv /\ now \in Nat /\ wallet \in Wallets
      /\ Sound(reserves[a], now) /\ ReserveBalanced(reserves[a])
  BY <1>4, IInvParts DEF FlashInv, Books
<1>6. reserves[a] \in Reserve /\ reserves[a].cash \in Nat BY <1>5, SoundFields DEF Sound
<1> HIDE DEF x
<1>7. /\ R.aToken = reserves[a].aToken /\ R.variableDebt = reserves[a].variableDebt
      /\ R.cash = reserves[a].cash - x
  BY <1>6 DEF Reserve
<1>8. /\ Held(wallet, a) \in Int
      /\ Held(wallet', a) = Held(wallet, a) + x
      /\ \A b \in Assets \ {a} : Held(wallet', b) = Held(wallet, b)
  BY <1>1, <1>3, <1>4, <1>5, HeldType, ReceivedHeld
<1> HIDE DEF a, R
<1>9. ReserveBalanced(R) BY <1>5, <1>7 DEF ReserveBalanced
<1>10. R.cash + Held(wallet', a) = reserves[a].cash + Held(wallet, a)
  BY <1>4, <1>6, <1>7, <1>8, SMT
<1> QED BY <1>1, <1>4, <1>5, <1>8, <1>9, <1>10, BooksStep

\* returnFunds: the receiver pays the amount and the premium, and mints nothing.
LEMMA ReturnBooks ==
  ASSUME FlashInv, Books, returnFunds
  PROVE  Books'
<1> DEFINE loan == flashes[1]
           leg  == loan.legs[loan.settled + 1]
           a    == leg.asset
           amount    == leg.amount
           owed      == amount + premium(amount)
           accrued   == Accrued(a, reserves[a])
           supply    == ScaledTotalSupply(accrued.aToken, getNormalizedIncome(accrued, now))
           cumulated == cumulateToLiquidityIndex(accrued, supply, premium(amount))
           R         == WithCash(Repriced(a, cumulated, owed), Repriced(a, cumulated, owed).cash + owed)
<1>1. /\ flashes # <<>> /\ owed <= wallet[a][loan.receiver]
      /\ CanAccrue(a, reserves[a])
      /\ CanCumulate(accrued, supply, premium(amount))
      /\ CanReprice(a, cumulated, owed)
      /\ wallet' = Paid(wallet, a, loan.receiver, owed)
  BY DEF returnFunds, Settling, Idle, CurrentLeg
<1>2. reserves' = [reserves EXCEPT ![a] = R]
  BY DEF returnFunds, CurrentLeg, Returned, WithCash
<1>3. loan \in FlashLoans /\ LegsLeft(loan) BY <1>1, InnermostLoan
<1>4. loan.settled \in Nat /\ loan.receiver \in Accounts BY <1>3, LoanFields, MarketAssumption
<1>5. a \in Assets /\ amount \in Nat /\ premium(amount) \in Nat
  BY <1>3, <1>4, LegFields DEF LegsLeft
<1> HIDE DEF leg
<1>6. owed \in Nat BY <1>5, SMT
<1>7. /\ IInv /\ now \in Nat /\ wallet \in Wallets BY IInvParts DEF FlashInv
<1>8. /\ TypeOK /\ Sound(accrued, now) /\ ReserveBalanced(accrued)
      /\ accrued.cash = reserves[a].cash /\ reserves[a].cash \in Nat
  BY <1>1, <1>5, <1>7, AccruedBooks
<1> HIDE DEF accrued
<1>9. supply \in Nat
  <2>1. accrued.aToken \in ScaledLedger BY <1>7, <1>8, SoundFields
  <2>2. getNormalizedIncome(accrued, now) \in Nat /\ RAY <= getNormalizedIncome(accrued, now)
    BY <1>7, <1>8, LiquidityIndexGrows
  <2>3. Treasury \in Accounts BY TreasuryAssumption
  <2> QED BY <2>1, <2>2, <2>3, ScaledBalanceType
<1> HIDE DEF supply
<1>10. /\ Sound(cumulated, now) /\ SameDebts(accrued, cumulated)
       /\ cumulated.cash = accrued.cash /\ cumulated.aToken = accrued.aToken
  BY <1>1, <1>5, <1>7, <1>8, <1>9, CumulatedSound
<1> HIDE DEF cumulated
<1>11. ReserveBalanced(cumulated) BY <1>8, <1>10 DEF ReserveBalanced, SameDebts
<1> HIDE DEF owed
<1>12. ReserveBalanced(R) /\ R.cash = cumulated.cash + owed
  BY <1>1, <1>5, <1>8, <1>10, <1>11, RepricedCash
<1>13. /\ Held(wallet, a) \in Int
       /\ Held(wallet', a) = Held(wallet, a) - owed
       /\ \A b \in Assets \ {a} : Held(wallet', b) = Held(wallet, b)
  BY <1>1, <1>4, <1>5, <1>6, <1>7, HeldType, PaidHeld
<1> HIDE DEF a, R
<1>14. R.cash + Held(wallet', a) = reserves[a].cash + Held(wallet, a)
  BY <1>6, <1>8, <1>10, <1>12, <1>13, SMT
<1> QED BY <1>2, <1>5, <1>7, <1>12, <1>13, <1>14, BooksStep

\* A leg that becomes a debt moves no tokens: they left with the payout.
LEMMA OpenDebtBooks ==
  ASSUME FlashInv, Books, openDebt
  PROVE  Books'
<1> DEFINE loan       == flashes[1]
           leg        == loan.legs[loan.settled + 1]
           a          == leg.asset
           mode       == leg.mode
           x          == leg.amount
           onBehalfOf == loan.onBehalfOf
           accrued    == Accrued(a, reserves[a])
           minted     == MintDebt(accrued, mode, onBehalfOf, x)
           R          == Repriced(a, minted, 0)
<1>1. /\ flashes # <<>> /\ mode \in RateModes
      /\ CanAccrue(a, reserves[a])
      /\ CanMintDebt(accrued, mode, onBehalfOf, x)
      /\ CanReprice(a, minted, 0)
  BY DEF openDebt, Settling, Idle, CurrentLeg
<1>2. reserves' = [reserves EXCEPT ![a] = R] /\ wallet' = wallet
  BY DEF openDebt, CurrentLeg
<1>3. loan \in FlashLoans /\ LegsLeft(loan) BY <1>1, InnermostLoan
<1>4. loan.settled \in Nat /\ onBehalfOf \in Accounts BY <1>3, LoanFields, MarketAssumption
<1>5. a \in Assets /\ x \in Nat BY <1>3, <1>4, LegFields DEF LegsLeft
<1> HIDE DEF leg, onBehalfOf
<1>6. IInv /\ now \in Nat BY IInvParts DEF FlashInv
<1>7. /\ TypeOK /\ Sound(accrued, now) /\ ReserveBalanced(accrued)
      /\ accrued.cash = reserves[a].cash
  BY <1>1, <1>5, <1>6, AccruedBooks
<1> HIDE DEF accrued, a, x, mode
<1>8. Sound(minted, now) /\ ReserveBalanced(minted) /\ minted.cash = accrued.cash
  BY <1>1, <1>4, <1>5, <1>7, MintDebtSound, MintDebtBalanced
<1> HIDE DEF minted
<1>9. ReserveBalanced(R) /\ R.cash = minted.cash
  BY <1>1, <1>5, <1>7, <1>8, RepricedSound, RepricedBalanced
<1> HIDE DEF R
<1>10. /\ R.cash + Held(wallet', a) = reserves[a].cash + Held(wallet, a)
       /\ \A b \in Assets \ {a} : Held(wallet', b) = Held(wallet, b)
  BY <1>2, <1>7, <1>8, <1>9
<1> QED BY <1>2, <1>5, <1>6, <1>9, <1>10, BooksStep

\* Every step of the pool keeps the books, inside a flash loan or not.
LEMMA FlashStepKeepsBooks ==
  ASSUME FlashInv, Books, [FlashNext]_flashVars
  PROVE  Books'
<1>1. ASSUME [Next]_vars PROVE Books' BY <1>1, EveryStepKeepsBooks DEF FlashInv
<1>2. CASE Call BY <1>1, <1>2 DEF Call, Next
<1>3. CASE Between BY <1>1, <1>3 DEF Between, Next
<1>4. CASE AskFlashLoan BY <1>1, <1>4 DEF AskFlashLoan, flashLoan
<1>5. CASE Process BY <1>5, PayoutBooks, ReturnBooks, OpenDebtBooks DEF Process
<1>6. CASE UNCHANGED flashVars BY <1>1, <1>6 DEF flashVars
<1> QED BY <1>2, <1>3, <1>4, <1>5, <1>6 DEF FlashNext

(***************************************************************************)
(* The results.                                                            *)
(***************************************************************************)

\* Even while flashLoan has paid out and not accounted, and executeOperation calls
\* the pool, whoever owes in a reserve has its borrowing bit set.
THEOREM BorrowBitsCoverDebtsInLoans == FlashSpec => []BorrowBitCoversDebt
<1>1. FlashInit => FlashInv BY FlashInitSound
<1>2. FlashInv /\ [FlashNext]_flashVars => FlashInv' BY FlashStep
<1>3. FlashInv => BorrowBitCoversDebt BY DEF FlashInv, IInv
<1> QED BY <1>1, <1>2, <1>3, PTL DEF FlashSpec

\* No subtraction of flashLoan, or of what its receiver calls, goes below 0, and the
\* loops of nested loans never leave their lists.
THEOREM FlashTypesHold == FlashSpec => []FlashTypeOK
<1>1. FlashInit => FlashInv BY FlashInitSound
<1>2. FlashInv /\ [FlashNext]_flashVars => FlashInv' BY FlashStep
<1>3. FlashInv => FlashTypeOK BY DEF FlashInv, IInv, FlashTypeOK
<1> QED BY <1>1, <1>2, <1>3, PTL DEF FlashSpec

\* No step of a flash loan, cumulateToLiquidityIndex included, lowers an index.
THEOREM IndexesNeverShrinkInLoans == FlashSpec => IndexesOnlyGrow
<1>1. FlashInit => FlashInv BY FlashInitSound
<1>2. FlashInv /\ [FlashNext]_flashVars => FlashInv' BY FlashStep
<1>3. FlashInv /\ [FlashNext]_flashVars => [IndexesGrow]_vars BY FlashStep
<1>4. [][IndexesGrow]_vars <=> IndexesOnlyGrow BY DEF IndexesOnlyGrow, IndexesGrow
<1> QED BY <1>1, <1>2, <1>3, <1>4, PTL DEF FlashSpec

\* The books balance at every point of a transaction.
LEMMA BooksHoldInLoans == FlashSpec => [](FlashInv /\ Books)
<1>1. FlashInit => FlashInv /\ Books BY FlashInitSound, InitKeepsBooks DEF FlashInit
<1>2. (FlashInv /\ Books) /\ [FlashNext]_flashVars => (FlashInv /\ Books)'
  BY FlashStep, FlashStepKeepsBooks
<1> QED BY <1>1, <1>2, PTL DEF FlashSpec

\* While loans are out, and inside what their receivers call, the supplies are still
\* the sums of the balances: premiums go into the index and mint nothing.
THEOREM ScaledSuppliesHoldInLoans == FlashSpec => []ScaledSuppliesAreSums
<1>1. FlashInv /\ Books => ScaledSuppliesAreSums BY BooksSay DEF FlashInv
<1> QED BY <1>1, BooksHoldInLoans, PTL

\* Paying out, returning with a premium, or keeping the amount as a debt: flash loans
\* neither make nor lose underlying tokens, however they are nested.
THEOREM UnderlyingIsConservedInLoans == FlashSpec => []UnderlyingConserved
<1>1. FlashInv /\ Books => UnderlyingConserved BY BooksSay DEF FlashInv
<1> QED BY <1>1, BooksHoldInLoans, PTL

(***************************************************************************)
(* What no step of a flash loan may do.                                    *)
(***************************************************************************)

\* The payout of a leg, as a change of one reserve.
LEMMA PayoutWrites ==
  ASSUME FlashInv, transferUnderlyingTo
  PROVE  /\ \E a \in Assets : \E cash :
              reserves' = [reserves EXCEPT ![a] = WithCash(reserves[a], cash)]
         /\ UNCHANGED <<usingAsCollateral, now, configuration>>
<1> DEFINE loan == flashes[1]
           leg  == loan.legs[loan.paid + 1]
<1>1. /\ flashes # <<>> /\ loan.paid < Len(loan.legs)
      /\ reserves' = [reserves EXCEPT ![leg.asset] =
                        WithCash(reserves[leg.asset], reserves[leg.asset].cash - leg.amount)]
      /\ UNCHANGED <<usingAsCollateral, now, configuration>>
  BY DEF transferUnderlyingTo, PayingOut, Idle, WithCash
<1>2. loan \in FlashLoans BY <1>1, InnermostLoan
<1>3. loan.paid \in Nat BY <1>2, LoanFields
<1>4. leg.asset \in Assets BY <1>1, <1>2, <1>3, LegFields
<1> QED BY <1>1, <1>4

\* The return of a leg: updateState, a larger index, new rates, cash.
LEMMA ReturnWrites ==
  ASSUME FlashInv, returnFunds
  PROVE  /\ \E a \in Assets : \E index, delta, cash :
              LET accrued   == Accrued(a, reserves[a])
                  cumulated == [accrued EXCEPT !.liquidityIndex = index]
              IN /\ CanAccrue(a, reserves[a])
                 /\ Sound(cumulated, now)
                 /\ CanReprice(a, cumulated, delta)
                 /\ reserves' = [reserves EXCEPT ![a] =
                                   WithCash(Repriced(a, cumulated, delta), cash)]
         /\ UNCHANGED <<usingAsCollateral, now, configuration>>
<1> DEFINE loan == flashes[1]
           leg  == loan.legs[loan.settled + 1]
           a    == leg.asset
           amount    == leg.amount
           owed      == amount + premium(amount)
           accrued   == Accrued(a, reserves[a])
           supply    == ScaledTotalSupply(accrued.aToken, getNormalizedIncome(accrued, now))
           cumulated == cumulateToLiquidityIndex(accrued, supply, premium(amount))
           repriced  == Repriced(a, cumulated, owed)
<1>1. /\ flashes # <<>>
      /\ CanAccrue(a, reserves[a])
      /\ CanCumulate(accrued, supply, premium(amount))
      /\ CanReprice(a, cumulated, owed)
      /\ UNCHANGED <<usingAsCollateral, now, configuration>>
  BY DEF returnFunds, Settling, Idle, CurrentLeg
<1>2. reserves' = [reserves EXCEPT ![a] = WithCash(repriced, repriced.cash + owed)]
  BY DEF returnFunds, CurrentLeg, Returned, WithCash
<1>3. loan \in FlashLoans /\ LegsLeft(loan) BY <1>1, InnermostLoan
<1>4. loan.settled \in Nat BY <1>3, LoanFields
<1>5. a \in Assets /\ premium(amount) \in Nat BY <1>3, <1>4, LegFields DEF LegsLeft
<1>6. /\ IInv /\ TypeOK /\ now \in Nat /\ Sound(reserves[a], now)
  BY <1>5, IInvParts DEF FlashInv
<1>7. Sound(accrued, now) BY <1>1, <1>5, <1>6, AccruedSound
<1>8. supply \in Nat
  <2> HIDE DEF accrued
  <2>1. accrued.aToken \in ScaledLedger BY <1>6, <1>7, SoundFields
  <2>2. getNormalizedIncome(accrued, now) \in Nat /\ RAY <= getNormalizedIncome(accrued, now)
    BY <1>6, <1>7, LiquidityIndexGrows
  <2> QED BY <2>1, <2>2, TreasuryAssumption, ScaledBalanceType
<1>9. Sound(cumulated, now)
  <2> HIDE DEF accrued, supply
  <2> QED BY <1>1, <1>5, <1>6, <1>7, <1>8, CumulatedSound
<1>10. cumulated = [accrued EXCEPT !.liquidityIndex =
                      CumulatedLiquidityIndex(accrued, supply, premium(amount))]
  BY DEF cumulateToLiquidityIndex
<1> HIDE DEF accrued, cumulated, repriced, owed, supply, a
<1>11. \E index : /\ cumulated = [accrued EXCEPT !.liquidityIndex = index]
  BY <1>10
<1> QED BY <1>1, <1>2, <1>5, <1>9, <1>11 DEF accrued, repriced

\* A leg that becomes a debt passes validateBorrow, and writes one reserve.
LEMMA OpenDebtWrites ==
  ASSUME FlashInv, openDebt
  PROVE  /\ \E a \in Assets : \E mode, user, amount :
              /\ ~configuration[a].frozen
              /\ reserves' = [reserves EXCEPT ![a] =
                   Repriced(a, MintDebt(Accrued(a, reserves[a]), mode, user, amount), 0)]
         /\ UNCHANGED <<usingAsCollateral, now, configuration>>
<1> DEFINE loan == flashes[1]
           leg  == loan.legs[loan.settled + 1]
<1>1. /\ flashes # <<>>
      /\ validateBorrow(leg.asset, loan.onBehalfOf, leg.amount, leg.mode)
      /\ reserves' = [reserves EXCEPT ![leg.asset] =
           Repriced(leg.asset, MintDebt(Accrued(leg.asset, reserves[leg.asset]), leg.mode,
                                        loan.onBehalfOf, leg.amount), 0)]
      /\ UNCHANGED <<usingAsCollateral, now, configuration>>
  BY DEF openDebt, Settling, Idle, CurrentLeg
<1>2. loan \in FlashLoans /\ LegsLeft(loan) BY <1>1, InnermostLoan
<1>3. loan.settled \in Nat BY <1>2, LoanFields
<1>4. leg.asset \in Assets BY <1>2, <1>3, LegFields DEF LegsLeft
<1>5. ~configuration[leg.asset].frozen BY <1>1 DEF validateBorrow
<1> HIDE DEF leg, loan
<1> QED BY <1>1, <1>4, <1>5

\* The steps of the two loops neither grow anything in a frozen reserve ...
LEMMA LoopsWhenFrozen ==
  ASSUME FlashInv, Process, Treasury \notin Users
  PROVE  FrozenShrinks
<1>1. IInv /\ TypeOK /\ now \in Nat BY IInvParts DEF FlashInv
<1>2. CASE transferUnderlyingTo
  <2>0. PICK a \in Assets : \E cash :
          reserves' = [reserves EXCEPT ![a] = WithCash(reserves[a], cash)]
    BY <1>2, PayoutWrites
  <2>1. PICK cash :
          reserves' = [reserves EXCEPT ![a] = WithCash(reserves[a], cash)]
    BY <2>0
  <2>2. Sound(reserves[a], now) BY <1>1, IInvParts
  <2>3. NotGrown(reserves[a], WithCash(reserves[a], cash))
    BY <1>1, <2>2, NotGrownItself, CashNotGrown DEF Sound
  <2>4. NothingGrows BY <1>1, <2>1, <2>3, OneReserveNotGrown
  <2> QED BY <2>4, NothingGrowsWhenFrozen
<1>3. CASE returnFunds
  <2>0. PICK a \in Assets : \E index, delta, cash :
          LET accrued   == Accrued(a, reserves[a])
              cumulated == [accrued EXCEPT !.liquidityIndex = index]
          IN /\ CanAccrue(a, reserves[a])
             /\ Sound(cumulated, now)
             /\ CanReprice(a, cumulated, delta)
             /\ reserves' = [reserves EXCEPT ![a] =
                               WithCash(Repriced(a, cumulated, delta), cash)]
    BY <1>3, ReturnWrites
  <2>1. PICK index, delta, cash :
          LET accrued   == Accrued(a, reserves[a])
              cumulated == [accrued EXCEPT !.liquidityIndex = index]
          IN /\ CanAccrue(a, reserves[a])
             /\ Sound(cumulated, now)
             /\ CanReprice(a, cumulated, delta)
             /\ reserves' = [reserves EXCEPT ![a] =
                               WithCash(Repriced(a, cumulated, delta), cash)]
    BY <2>0
  <2> DEFINE r         == reserves[a]
             accrued   == Accrued(a, r)
             cumulated == [accrued EXCEPT !.liquidityIndex = index]
             repriced  == Repriced(a, cumulated, delta)
  <2>2. Sound(r, now) BY <1>1, IInvParts
  <2>3. /\ UpToDate(accrued)
        /\ accrued.variableBorrowIndex <= getNormalizedDebt(r, now)
        /\ SameDebts(r, accrued)
        /\ \A u \in Accounts \ {Treasury} :
             accrued.aToken.balances[u] = r.aToken.balances[u]
    BY <1>1, <2>1, <2>2, AccruedUpToDate
  <2>4. /\ Sound(cumulated, now) /\ CanReprice(a, cumulated, delta)
        /\ reserves' = [reserves EXCEPT ![a] = WithCash(repriced, cash)]
    BY <2>1
  <2>5. accrued \in Reserve BY <2>3 DEF UpToDate, Sound
  <2>6. /\ cumulated.lastUpdateTimestamp = accrued.lastUpdateTimestamp
        /\ cumulated.variableBorrowIndex = accrued.variableBorrowIndex
        /\ cumulated.aToken = accrued.aToken /\ SameDebts(accrued, cumulated)
    BY <2>5 DEF Reserve, SameDebts
  <2> HIDE DEF r, accrued, cumulated
  <2>7. UpToDate(cumulated) BY <2>3, <2>4, <2>6 DEF UpToDate
  <2>8. /\ UpToDate(repriced) /\ repriced.aToken = cumulated.aToken
        /\ SameDebts(cumulated, repriced)
        /\ repriced.variableBorrowIndex = cumulated.variableBorrowIndex
    BY <1>1, <2>4, <2>7, RepricedUpToDate DEF SameIncome
  <2> HIDE DEF repriced
  <2>9. getNormalizedDebt(repriced, now) <= getNormalizedDebt(r, now)
    BY <2>3, <2>6, <2>8, UpToDateIndexes DEF UpToDate
  <2>10. SameDebts(r, repriced) BY <2>3, <2>6, <2>8 DEF SameDebts
  <2>11. DebtsShrink(r, repriced) BY <1>1, <2>2, <2>8, <2>9, <2>10, SameDebtsShrink DEF UpToDate
  <2>12. r.aToken \in ScaledLedger /\ repriced.aToken \in ScaledLedger
    BY <1>1, <2>2, <2>8, SoundFields DEF UpToDate
  <2>13. ClaimsShrink(r, repriced) BY <2>3, <2>6, <2>8, <2>12, SameClaims
  <2>14. NotGrown(r, repriced) BY <2>11, <2>13 DEF NotGrown
  <2>15. NotGrown(r, WithCash(repriced, cash))
    BY <2>8, <2>14, CashNotGrown DEF UpToDate, Sound
  <2>16. NothingGrows BY <1>1, <2>4, <2>15, OneReserveNotGrown DEF r
  <2> QED BY <2>16, NothingGrowsWhenFrozen
<1>4. CASE openDebt
  <2>1. PICK a \in Assets :
          ~configuration[a].frozen /\ \E R : reserves' = [reserves EXCEPT ![a] = R]
    BY <1>4, OpenDebtWrites
  <2> QED BY <1>1, <2>1, OthersWhenFrozen
<1> QED BY <1>2, <1>3, <1>4 DEF Process

\* ... nor clear a collateral bit ...
LEMMA LoopsClearNoBit ==
  ASSUME FlashInv, Process
  PROVE  NothingLeft
<1>1. usingAsCollateral' = usingAsCollateral
  BY PayoutWrites, ReturnWrites, OpenDebtWrites DEF Process
<1> QED BY <1>1, NoBitCleared

\* ... nor put the stable supply's timestamp ahead of the reserve's.
LEMMA LoopsKeepStamps ==
  ASSUME FlashInv, SupplyStamped, Process, IInv'
  PROVE  SupplyStamped'
<1>1. IInv /\ reserves \in [Assets -> Reserve] BY DEF FlashInv, IInv, TypeOK
<1>2. now' = now BY PayoutWrites, ReturnWrites, OpenDebtWrites DEF Process
<1>3. CASE transferUnderlyingTo
  <2>0. PICK a \in Assets : \E cash :
          reserves' = [reserves EXCEPT ![a] = WithCash(reserves[a], cash)]
    BY <1>3, PayoutWrites
  <2>1. PICK cash :
          reserves' = [reserves EXCEPT ![a] = WithCash(reserves[a], cash)]
    BY <2>0
  <2> DEFINE R == WithCash(reserves[a], cash)
  <2>2. Untouched(reserves[a], R) BY <1>1 DEF Untouched, WithCash, Reserve
  <2>3. reserves' = [reserves EXCEPT ![a] = R] BY <2>1
  <2> HIDE DEF R
  <2>4. \A b \in Assets : StampKept(reserves[b], reserves'[b])
    BY <1>1, <2>2, <2>3, OneReserveStamped DEF StampKept
  <2> QED BY <1>2, <2>4, StampsKeepOrder
<1>4. CASE returnFunds
  <2>0. PICK a \in Assets : \E index, delta, cash :
          reserves' = [reserves EXCEPT ![a] =
            WithCash(Repriced(a, [Accrued(a, reserves[a]) EXCEPT !.liquidityIndex = index],
                              delta), cash)]
    BY <1>4, ReturnWrites
  <2>1. PICK index, delta, cash :
          reserves' = [reserves EXCEPT ![a] =
            WithCash(Repriced(a, [Accrued(a, reserves[a]) EXCEPT !.liquidityIndex = index],
                              delta), cash)]
    BY <2>0
  <2> DEFINE accrued   == Accrued(a, reserves[a])
             cumulated == [accrued EXCEPT !.liquidityIndex = index]
             R == WithCash(Repriced(a, cumulated, delta), cash)
  <2>2. reserves' = [reserves EXCEPT ![a] = R] BY <2>1
  <2>3. StampedNow(accrued) BY <1>1, EveryCallIsStamped
  <2> HIDE DEF accrued
  <2>4. StampedNow(cumulated) BY <2>3 DEF StampedNow
  <2> HIDE DEF cumulated
  <2>5. StampedNow(R) BY <2>4, EveryCallIsStamped
  <2> HIDE DEF R
  <2>6. \A b \in Assets : StampKept(reserves[b], reserves'[b])
    BY <1>1, <2>2, <2>5, OneReserveStamped DEF StampKept
  <2> QED BY <1>2, <2>6, StampsKeepOrder
<1>5. CASE openDebt
  <2>0. PICK a \in Assets : \E mode, user, amount :
          reserves' = [reserves EXCEPT ![a] =
            Repriced(a, MintDebt(Accrued(a, reserves[a]), mode, user, amount), 0)]
    BY <1>5, OpenDebtWrites
  <2>1. PICK mode, user, amount :
          reserves' = [reserves EXCEPT ![a] =
            Repriced(a, MintDebt(Accrued(a, reserves[a]), mode, user, amount), 0)]
    BY <2>0
  <2> DEFINE minted == MintDebt(Accrued(a, reserves[a]), mode, user, amount)
             R == Repriced(a, minted, 0)
  <2>2. reserves' = [reserves EXCEPT ![a] = R] BY <2>1
  <2>3. StampedNow(minted) BY <1>1, EveryCallIsStamped
  <2> HIDE DEF minted
  <2>4. StampedNow(R) BY <2>3, EveryCallIsStamped
  <2> HIDE DEF R
  <2>5. \A b \in Assets : StampKept(reserves[b], reserves'[b])
    BY <1>1, <2>2, <2>4, OneReserveStamped DEF StampKept
  <2> QED BY <1>2, <2>5, StampsKeepOrder
<1> QED BY <1>3, <1>4, <1>5 DEF Process

\* The steps that are not the loops' are steps of the pool.
LEMMA OtherStepsAreThePools ==
  ASSUME [FlashNext]_flashVars
  PROVE  Process \/ [Next]_vars
BY DEF FlashNext, flashVars, Call, Between, AskFlashLoan, flashLoan, Next

\* A new loan finds the stamps in order, and leaves them so.
LEMMA StampsHoldInLoans == FlashSpec => [](FlashInv /\ SupplyStamped)
<1>1. FlashInit => FlashInv /\ SupplyStamped
  BY FlashInitSound, InitIsStamped DEF FlashInit
<1>2. ASSUME FlashInv, SupplyStamped, [FlashNext]_flashVars
      PROVE  FlashInv' /\ SupplyStamped'
  <2>1. FlashInv' /\ IInv' BY <1>2, FlashStep DEF FlashInv
  <2>2. Process => SupplyStamped' BY <1>2, <2>1, LoopsKeepStamps
  <2>3. [Next]_vars => SupplyStamped' BY <1>2, EveryStepKeepsStamps DEF FlashInv
  <2> QED BY <1>2, <2>1, <2>2, <2>3, OtherStepsAreThePools
<1>3. (FlashInv /\ SupplyStamped) /\ [FlashNext]_flashVars => (FlashInv /\ SupplyStamped)'
  BY <1>2
<1> QED BY <1>1, <1>3, PTL DEF FlashSpec

\* flashLoan pays out a frozen reserve like any other, and takes a premium into its
\* index: but nobody's claims or debts grow in it, and no leg becomes a debt.
THEOREM FrozenOnlyShrinksInLoans ==
  ASSUME Treasury \notin Users
  PROVE  FlashSpec => FrozenOnlyShrinks
<1>1. ASSUME FlashInv, [FlashNext]_flashVars PROVE FrozenShrinks
  <2>1. CASE Process BY <1>1, <2>1, LoopsWhenFrozen
  <2>2. CASE [Next]_vars BY <1>1, <2>2, EveryStepWhenFrozen DEF FlashInv
  <2> QED BY <1>1, <2>1, <2>2, OtherStepsAreThePools
<1>2. FlashInv /\ [FlashNext]_flashVars =>
        [\A a \in Assets : configuration[a].frozen =>
           /\ ClaimsOn(reserves'[a]) <= ClaimsOn(reserves[a])
           /\ \A u \in Accounts :
                /\ reserves'[a].variableDebt.balances[u] <= reserves[a].variableDebt.balances[u]
                /\ now' = now =>
                     StableDebtOf(reserves[a], u, now)' <= StableDebtOf(reserves[a], u, now)]_vars
  BY <1>1 DEF FrozenShrinks
<1> QED BY <1>2, StampsHoldInLoans, PTL DEF FlashSpec, FrozenOnlyShrinks

\* Nor does a receiver that withdraws, transfers or liquidates while the cash is
\* away orphan anybody's collateral.
THEOREM ClearedBitsLeaveNothingInLoans ==
  ASSUME Treasury \notin Users
  PROVE  FlashSpec => ClearedBitLeavesNothing
<1>1. ASSUME FlashInv, [FlashNext]_flashVars, reserves' # reserves PROVE NothingLeft
  <2>1. CASE Process BY <1>1, <2>1, LoopsClearNoBit
  <2>2. CASE [Next]_vars BY <1>1, <2>2, EveryClearedBit DEF FlashInv
  <2> QED BY <1>1, <2>1, <2>2, OtherStepsAreThePools
<1>2. FlashInv /\ [FlashNext]_flashVars =>
        [reserves' # reserves =>
           \A u \in Accounts : \A a \in usingAsCollateral[u] \ usingAsCollateral'[u] :
             \/ reserves'[a].aToken.balances[u] = 0
             \/ /\ ~Healthy(u)
                /\ reserves'[a].aToken.balances[u] = reserves[a].aToken.balances[u]]_vars
  BY <1>1 DEF NothingLeft
<1> QED BY <1>2, StampsHoldInLoans, PTL DEF FlashSpec, ClearedBitLeavesNothing

\* A reserve whose cash is away, or whose index a premium has just raised, can be
\* updated and written like any other: only an index beyond 128 bits stops it.
THEOREM AccrualDoesNotRevertInLoans ==
  FlashSpec => []((\A a \in Assets : IndexesFit(a)) => AccrualNeverReverts)
<1>1. FlashInv /\ SupplyStamped
        => ((\A a \in Assets : IndexesFit(a)) => AccrualNeverReverts)
  BY OnlyIndexesStopAccrual DEF AccrualNeverReverts, FlashInv
<1> QED BY <1>1, StampsHoldInLoans, PTL

\* The whole debt can be repaid out of a loan, too.
THEOREM FullRepayEmptiesDebtInLoans ==
  FlashSpec => []((\A a \in Assets : ~LentForNothing(a)) => FullRepayEmptiesDebt)
<1>1. FlashInv /\ Books
        => ((\A a \in Assets : ~LentForNothing(a)) => FullRepayEmptiesDebt)
  BY FullRepayBurnsAll DEF FullRepayEmptiesDebt, FlashInv
<1> QED BY <1>1, BooksHoldInLoans, PTL

(***************************************************************************)
(* While the cash is away, whatever updates a reserve computes rates for   *)
(* one that looks empty.  A reserve updated in this block has the borrow   *)
(* rates of what it holds, or a leg of a loan on the stack is still to be  *)
(* accounted for in it, which will compute them again.                     *)
(***************************************************************************)

\* A loan accounts for no leg before it has paid them all out.
LegsInOrder(f) == f.paid < Len(f.legs) => f.settled = 0

\* A leg of asset a is still to be accounted for.
LegAhead(f, a) == \E i \in f.settled + 1 .. Len(f.legs) : f.legs[i].asset = a
Awaited(a) == \E k \in 1 .. Len(flashes) : LegAhead(flashes[k], a)

BorrowRatesSettled(a) == SameBorrowRates(reserves[a], Repriced(a, reserves[a], 0))

RatesSettling ==
  /\ \A k \in 1 .. Len(flashes) : LegsInOrder(flashes[k])
  /\ \A a \in Assets : reserves[a].lastUpdateTimestamp = now
       => BorrowRatesSettled(a) \/ Awaited(a)

\* The borrow rates depend on neither the configuration nor the timestamps: a
\* reserve whose rates and holdings are what they were has settled ones still.
LEMMA SettledStays ==
  ASSUME NEW a \in Assets, IInv, IInv', now' = now,
         RatesKept(reserves[a], reserves'[a]), BorrowRatesSettled(a)
  PROVE  BorrowRatesSettled(a)'
<1>1. reserves[a] \in Reserve /\ reserves'[a] \in Reserve BY DEF IInv, TypeOK
<1> QED BY <1>1 DEF BorrowRatesSettled, SameBorrowRates, Repriced, WithInterestRates,
                    RatesKept, SameDebts, SameRates, Reserve

\* A settled reserve has settled borrow rates.
LEMMA SettledBorrowRates ==
  ASSUME NEW a \in Assets, IInv', now' = now, Settled(a, reserves'[a])
  PROVE  BorrowRatesSettled(a)'
<1>1. reserves'[a] \in Reserve BY DEF IInv, TypeOK
<1> QED BY <1>1 DEF BorrowRatesSettled, Settled, SameBorrowRates, SameRates, Repriced,
                    WithInterestRates, Reserve

\* The part of the invariant about one reserve, after a step in the same block.
LEMMA ReserveSettling ==
  ASSUME IInv, IInv', RatesSettling, now' = now, NEW a \in Assets,
         \/ Settled(a, reserves'[a])
         \/ Awaited(a)'
         \/ RatesKept(reserves[a], reserves'[a]) /\ (Awaited(a) => Awaited(a)')
  PROVE  reserves'[a].lastUpdateTimestamp = now' => BorrowRatesSettled(a)' \/ Awaited(a)'
<1>1. CASE Settled(a, reserves'[a]) BY <1>1, SettledBorrowRates
<1>2. CASE RatesKept(reserves[a], reserves'[a]) /\ (Awaited(a) => Awaited(a)')
  BY <1>2, SettledStays DEF RatesSettling, RatesKept
<1> QED BY <1>1, <1>2

\* What the receiver, or anybody between transactions, calls in the pool.
LEMMA CallsKeepSettling ==
  ASSUME FlashInv, IInv', RatesSettling, [Next]_vars, ~SeizesInOneAsset,
         now' = now, flashes' = flashes
  PROVE  RatesSettling'
<1>1. IInv BY DEF FlashInv
<1>2. \A a \in Assets : RatesFollow(a, reserves[a], reserves'[a]) BY <1>1, EveryStepFollows
<1>3. \A a \in Assets : Awaited(a)' <=> Awaited(a) BY DEF Awaited
<1>4. \A k \in 1 .. Len(flashes') : LegsInOrder(flashes'[k]) BY DEF RatesSettling
<1>5. \A a \in Assets :
        reserves'[a].lastUpdateTimestamp = now' => BorrowRatesSettled(a)' \/ Awaited(a)'
  BY <1>1, <1>2, <1>3, ReserveSettling DEF RatesFollow
<1> QED BY <1>4, <1>5 DEF RatesSettling

\* In a new block nothing has been updated yet.
LEMMA NewBlockSettles ==
  ASSUME FlashInv, RatesSettling, NextBlock, flashes' = flashes
  PROVE  RatesSettling'
<1>1. now' = now + 1 /\ reserves' = reserves BY DEF NextBlock, poolVars
<1>2. \A a \in Assets : reserves'[a].lastUpdateTimestamp # now'
  <2> TAKE a \in Assets
  <2>1. /\ now \in Nat /\ reserves[a].lastUpdateTimestamp \in Nat
        /\ reserves[a].lastUpdateTimestamp <= now
    BY IInvParts, SoundFields DEF FlashInv
  <2> QED BY <1>1, <2>1
<1> QED BY <1>2 DEF RatesSettling

\* A new loan has its legs ahead of it, and the loans under it keep theirs.
LEMMA PushedSettles ==
  ASSUME FlashInv, IInv', RatesSettling, NEW caller \in Users, NEW receiver \in Users,
         NEW onBehalfOf \in Users, NEW legs \in LoanLists,
         flashLoan(caller, receiver, legs, onBehalfOf)
  PROVE  RatesSettling'
<1> DEFINE f == [caller |-> caller, receiver |-> receiver, onBehalfOf |-> onBehalfOf,
                 legs |-> legs, paid |-> 0, settled |-> 0]
<1>1. f \in FlashLoans /\ f.settled = 0 BY DEF FlashLoans
<1>2. /\ flashes' = <<f>> \o flashes /\ UNCHANGED <<reserves, now>>
  BY DEF flashLoan, vars, poolVars
<1>3. flashes \in Seq(FlashLoans) /\ IInv BY DEF FlashInv
<1> HIDE DEF f
<1>4. /\ Len(flashes) \in Nat /\ Len(flashes') = 1 + Len(flashes) /\ flashes'[1] = f
      /\ \A k \in 2 .. 1 + Len(flashes) : flashes'[k] = flashes[k - 1]
  BY <1>1, <1>2, <1>3
<1>5. \A k \in 1 .. Len(flashes') : LegsInOrder(flashes'[k])
  <2>1. LegsInOrder(f) BY <1>1 DEF LegsInOrder
  <2>2. \A k \in 2 .. 1 + Len(flashes) : k - 1 \in 1 .. Len(flashes) BY <1>4
  <2> QED BY <1>4, <2>1, <2>2 DEF RatesSettling
<1>6. \A a \in Assets : Awaited(a) => Awaited(a)'
  <2>1. \A k \in 1 .. Len(flashes) :
          k + 1 \in 1 .. Len(flashes') /\ flashes'[k + 1] = flashes[(k + 1) - 1]
    BY <1>4
  <2>2. \A k \in 1 .. Len(flashes) : flashes'[k + 1] = flashes[k] BY <1>4, <2>1
  <2> QED BY <2>1, <2>2 DEF Awaited
<1>7. \A a \in Assets : RatesKept(reserves[a], reserves'[a])
  BY <1>2 DEF RatesKept, SameDebts, SameRates
<1>8. \A a \in Assets :
        reserves'[a].lastUpdateTimestamp = now' => BorrowRatesSettled(a)' \/ Awaited(a)'
  BY <1>2, <1>3, <1>6, <1>7, ReserveSettling
<1> QED BY <1>5, <1>8 DEF RatesSettling

\* A payout changes what one reserve holds, and that leg is still ahead.
LEMMA PayoutSettles ==
  ASSUME FlashInv, IInv', RatesSettling, transferUnderlyingTo
  PROVE  RatesSettling'
<1> DEFINE loan == flashes[1]
           leg  == loan.legs[loan.paid + 1]
           f    == [loan EXCEPT !.paid = @ + 1]
           R    == [reserves[leg.asset] EXCEPT !.cash = @ - leg.amount]
<1>1. /\ flashes # <<>> /\ loan.paid < Len(loan.legs)
      /\ flashes' = [flashes EXCEPT ![1] = f]
      /\ reserves' = [reserves EXCEPT ![leg.asset] = R]
      /\ now' = now
  BY DEF transferUnderlyingTo, PayingOut, Idle
<1>2. /\ loan \in FlashLoans /\ flashes \in Seq(FlashLoans) /\ 1 \in 1 .. Len(flashes)
      /\ IInv /\ reserves \in [Assets -> Reserve]
  BY <1>1, InnermostLoan DEF FlashInv, IInv, TypeOK
<1>3. loan.paid \in Nat /\ loan.settled \in Nat /\ Len(loan.legs) \in Nat BY <1>2, LoanFields
<1>4. loan.settled = 0 BY <1>1, <1>2 DEF RatesSettling, LegsInOrder
<1>5. f.settled = 0 /\ f.legs = loan.legs BY <1>2, <1>4 DEF FlashLoans
<1> HIDE DEF f, R
<1>6. /\ Len(flashes') = Len(flashes) /\ flashes'[1] = f
      /\ \A k \in 1 .. Len(flashes) : k # 1 => flashes'[k] = flashes[k]
  BY <1>1, <1>2
<1>7. \A k \in 1 .. Len(flashes') : LegsInOrder(flashes'[k])
  BY <1>5, <1>6 DEF RatesSettling, LegsInOrder
<1>8. \A a \in Assets : Awaited(a) => Awaited(a)'
  <2>1. \A a \in Assets : LegAhead(loan, a) => LegAhead(f, a) BY <1>4, <1>5 DEF LegAhead
  <2>2. ASSUME NEW a \in Assets, NEW k \in 1 .. Len(flashes), LegAhead(flashes[k], a)
        PROVE  LegAhead(flashes'[k], a)
    BY <1>6, <2>1, <2>2
  <2> QED BY <1>6, <2>2 DEF Awaited
<1>9. \A a \in Assets : a = leg.asset => Awaited(a)'
  <2>1. loan.paid + 1 \in f.settled + 1 .. Len(f.legs) BY <1>1, <1>3, <1>5
  <2>2. LegAhead(f, leg.asset) BY <1>5, <2>1 DEF LegAhead
  <2> QED BY <1>2, <1>6, <2>2 DEF Awaited
<1> HIDE DEF leg
<1>10. \A a \in Assets : a # leg.asset => reserves'[a] = reserves[a] BY <1>1, <1>2
<1>11. \A a \in Assets :
         reserves'[a].lastUpdateTimestamp = now' => BorrowRatesSettled(a)' \/ Awaited(a)'
  <2> TAKE a \in Assets
  <2>1. CASE a = leg.asset BY <1>9, <2>1
  <2>2. CASE a # leg.asset
    <3>1. RatesKept(reserves[a], reserves'[a])
      BY <1>10, <2>2 DEF RatesKept, SameDebts, SameRates
    <3> QED BY <1>1, <1>2, <1>8, <3>1, ReserveSettling
  <2> QED BY <2>1, <2>2
<1> QED BY <1>7, <1>11 DEF RatesSettling

\* Accounting for a leg leaves the legs of the other assets ahead.
LEMMA OthersStillAhead ==
  ASSUME FlashInv, RatesSettling, flashes # <<>>,
         flashes[1].paid = Len(flashes[1].legs), NextLeg
  PROVE  /\ \A k \in 1 .. Len(flashes') : LegsInOrder(flashes'[k])
         /\ \A a \in Assets : a # CurrentLeg.asset /\ Awaited(a) => Awaited(a)'
<1> DEFINE loan == flashes[1]
<1>1. /\ loan \in FlashLoans /\ LegsLeft(loan) /\ flashes \in Seq(FlashLoans)
      /\ 1 \in 1 .. Len(flashes) /\ Len(flashes) \in Nat
  BY InnermostLoan
<1>2. loan.settled \in Nat /\ Len(loan.legs) \in Nat BY <1>1, LoanFields
<1>3. ASSUME NEW a \in Assets, a # CurrentLeg.asset, NEW i \in loan.settled + 1 .. Len(loan.legs),
             loan.legs[i].asset = a
      PROVE  i \in (loan.settled + 1) + 1 .. Len(loan.legs)
  <2>1. i # loan.settled + 1 BY <1>3 DEF CurrentLeg
  <2> QED BY <1>2, <1>3, <2>1
<1>4. CASE loan.settled + 1 = Len(loan.legs)
  <2>1. flashes' = Tail(flashes) BY <1>4 DEF NextLeg
  <2>2. /\ Len(flashes') = Len(flashes) - 1
        /\ \A k \in 1 .. Len(flashes') :
             k + 1 \in 1 .. Len(flashes) /\ flashes'[k] = flashes[k + 1]
        /\ \A k \in 2 .. Len(flashes) :
             k - 1 \in 1 .. Len(flashes') /\ flashes'[k - 1] = flashes[k]
    BY <1>1, <2>1
  <2>3. \A k \in 1 .. Len(flashes') : LegsInOrder(flashes'[k]) BY <2>2 DEF RatesSettling
  <2>4. ASSUME NEW a \in Assets, a # CurrentLeg.asset, Awaited(a) PROVE Awaited(a)'
    <3>1. PICK k \in 1 .. Len(flashes) : LegAhead(flashes[k], a) BY <2>4 DEF Awaited
    <3>2. ~LegAhead(loan, a)
      <4> SUFFICES ASSUME NEW i \in loan.settled + 1 .. Len(loan.legs), loan.legs[i].asset = a
                   PROVE  FALSE
        BY DEF LegAhead
      <4> QED BY <1>2, <1>3, <1>4, <2>4
    <3>3. k \in 2 .. Len(flashes) BY <1>1, <3>1, <3>2
    <3> QED BY <2>2, <3>1, <3>3 DEF Awaited
  <2> QED BY <2>3, <2>4
<1>5. CASE loan.settled + 1 # Len(loan.legs)
  <2> DEFINE f == [loan EXCEPT !.settled = @ + 1]
  <2>1. f.settled = loan.settled + 1 /\ f.paid = loan.paid /\ f.legs = loan.legs
    BY <1>1 DEF FlashLoans
  <2>2. flashes' = [flashes EXCEPT ![1] = f] BY <1>5 DEF NextLeg
  <2> HIDE DEF f
  <2>3. /\ Len(flashes') = Len(flashes) /\ flashes'[1] = f
        /\ \A k \in 1 .. Len(flashes) : k # 1 => flashes'[k] = flashes[k]
    BY <1>1, <2>2
  <2>4. LegsInOrder(f) BY <1>2, <2>1 DEF LegsInOrder
  <2>5. \A k \in 1 .. Len(flashes') : LegsInOrder(flashes'[k])
    BY <2>3, <2>4 DEF RatesSettling
  <2>6. ASSUME NEW a \in Assets, a # CurrentLeg.asset, Awaited(a) PROVE Awaited(a)'
    <3>1. PICK k \in 1 .. Len(flashes) : LegAhead(flashes[k], a) BY <2>6 DEF Awaited
    <3>2. CASE k = 1
      <4>1. PICK i \in loan.settled + 1 .. Len(loan.legs) : loan.legs[i].asset = a
        BY <3>1, <3>2 DEF LegAhead
      <4>2. i \in f.settled + 1 .. Len(f.legs) BY <1>3, <2>1, <2>6, <4>1
      <4>3. LegAhead(f, a) BY <2>1, <4>1, <4>2 DEF LegAhead
      <4> QED BY <1>1, <2>3, <4>3 DEF Awaited
    <3>3. CASE k # 1 BY <2>3, <3>1, <3>3 DEF Awaited
    <3> QED BY <3>2, <3>3
  <2> QED BY <2>5, <2>6
<1> QED BY <1>4, <1>5

\* Accounting for a leg, in either way, computes the rates of its reserve from
\* what that reserve holds afterwards.
LEMMA AccountingSettles ==
  ASSUME FlashInv, returnFunds \/ openDebt
  PROVE  /\ CurrentLeg.asset \in Assets
         /\ Settled(CurrentLeg.asset, reserves'[CurrentLeg.asset])
         /\ \A a \in Assets : a # CurrentLeg.asset => reserves'[a] = reserves[a]
<1> DEFINE leg == CurrentLeg
           a   == leg.asset
           accrued == Accrued(a, reserves[a])
           amount  == leg.amount
           cash    == reserves[a].cash
<1>1. /\ a \in Assets /\ amount \in Nat /\ premium(amount) \in Nat
  <2>1. flashes # <<>> BY DEF returnFunds, openDebt, Settling, Idle
  <2>2. flashes[1] \in FlashLoans /\ LegsLeft(flashes[1]) BY <2>1, InnermostLoan
  <2>3. flashes[1].settled \in Nat BY <2>2, LoanFields
  <2> QED BY <2>2, <2>3, LegFields DEF LegsLeft, CurrentLeg
<1>2. /\ reserves \in [Assets -> Reserve] /\ reserves[a] \in Reserve /\ cash \in Nat
  BY <1>1, IInvParts, SoundFields DEF FlashInv, IInv, TypeOK
<1>3. InHand(accrued, cash) BY <1>1, <1>2, EveryCallKeepsCash
<1>4. CASE returnFunds
  <2> DEFINE owed == amount + premium(amount)
             index == CumulatedLiquidityIndex(accrued,
                        ScaledTotalSupply(accrued.aToken, getNormalizedIncome(accrued, now)),
                        premium(amount))
             cumulated == [accrued EXCEPT !.liquidityIndex = index]
             repriced  == Repriced(a, cumulated, owed)
             R == WithCash(repriced, cash + owed)
  <2>1. owed \in Nat BY <1>1
  <2>2. reserves' = [reserves EXCEPT ![a] = WithCash(repriced, repriced.cash + owed)]
    BY <1>4 DEF returnFunds, Returned, cumulateToLiquidityIndex, WithCash
  <2> HIDE DEF index, accrued, owed, a
  <2>3. InHand(cumulated, cash) BY <1>3 DEF InHand, ReserveFields
  <2> HIDE DEF cumulated
  <2>4. repriced.cash = cash BY <1>1, <2>3, EveryCallKeepsCash DEF InHand
  <2>5. Settled(a, R) BY <1>1, <1>2, <2>1, <2>3, AnnouncedIsMoved
  <2>6. reserves' = [reserves EXCEPT ![a] = R] BY <2>2, <2>4
  <2> HIDE DEF R
  <2> QED BY <1>1, <1>2, <2>5, <2>6 DEF a
<1>5. CASE openDebt
  <2> DEFINE minted == MintDebt(accrued, leg.mode, flashes[1].onBehalfOf, amount)
             R      == Repriced(a, minted, 0)
  <2>1. reserves' = [reserves EXCEPT ![a] = R] BY <1>5 DEF openDebt
  <2>2. InHand(minted, cash) BY <1>1, <1>3, EveryCallKeepsCash
  <2> HIDE DEF minted, a
  <2>3. Settled(a, R) BY <1>1, <1>2, <2>2, NothingAnnounced
  <2> HIDE DEF R
  <2> QED BY <1>1, <1>2, <2>1, <2>3 DEF a
<1> QED BY <1>4, <1>5

\* The second loop: the leg that is accounted for is no longer ahead, and need not be.
LEMMA AccountedSettles ==
  ASSUME FlashInv, IInv', RatesSettling, returnFunds \/ openDebt
  PROVE  RatesSettling'
<1>1. /\ flashes # <<>> /\ NextLeg /\ now' = now
      /\ ~(flashes[1].paid < Len(flashes[1].legs))
  BY DEF returnFunds, openDebt, Settling, PayingOut, Idle
<1>2. flashes[1].paid = Len(flashes[1].legs)
  <2>1. flashes[1] \in FlashLoans /\ LegsLeft(flashes[1]) BY <1>1, InnermostLoan
  <2>2. flashes[1].paid \in Nat /\ Len(flashes[1].legs) \in Nat BY <2>1, LoanFields
  <2> QED BY <1>1, <2>1, <2>2 DEF LegsLeft
<1>3. /\ \A k \in 1 .. Len(flashes') : LegsInOrder(flashes'[k])
      /\ \A a \in Assets : a # CurrentLeg.asset /\ Awaited(a) => Awaited(a)'
  BY <1>1, <1>2, OthersStillAhead
<1>4. /\ Settled(CurrentLeg.asset, reserves'[CurrentLeg.asset])
      /\ \A a \in Assets : a # CurrentLeg.asset => reserves'[a] = reserves[a]
  BY AccountingSettles
<1>5. ASSUME NEW a \in Assets
      PROVE  reserves'[a].lastUpdateTimestamp = now' => BorrowRatesSettled(a)' \/ Awaited(a)'
  <2>1. IInv BY DEF FlashInv
  <2>2. CASE a = CurrentLeg.asset BY <1>1, <1>4, <2>1, <2>2, ReserveSettling
  <2>3. CASE a # CurrentLeg.asset
    <3>1. RatesKept(reserves[a], reserves'[a])
      BY <1>4, <2>3 DEF RatesKept, SameDebts, SameRates
    <3> QED BY <1>1, <1>3, <2>1, <2>3, <3>1, ReserveSettling
  <2> QED BY <2>2, <2>3
<1> QED BY <1>3, <1>5 DEF RatesSettling

\* Every step of a market with flash loans.
LEMMA EveryStepSettles ==
  ASSUME FlashInv, IInv', RatesSettling, [FlashNext]_flashVars, ~SeizesInOneAsset
  PROVE  RatesSettling'
<1>1. CASE Call
  <2>1. [Next]_vars /\ flashes' = flashes BY <1>1 DEF Call, Next
  <2>2. now' = now
    <3>1. CASE Supply BY <3>1 DEF Supply, deposit, withdraw, transfer
    <3>2. CASE Loan BY <3>2 DEF Loan, borrow, repay
    <3>3. CASE StableSwitch
      BY <3>3 DEF StableSwitch, swapBorrowRateMode, rebalanceStableBorrowRate
    <3>4. CASE CollateralSwitch \/ Delegation
      BY <3>4 DEF CollateralSwitch, setUserUseReserveAsCollateral, Delegation,
                  approveDelegation
    <3>5. CASE Liquidation BY <3>5 DEF Liquidation, liquidationCall
    <3> QED BY <1>1, <3>1, <3>2, <3>3, <3>4, <3>5 DEF Call
  <2> QED BY <2>1, <2>2, CallsKeepSettling
<1>2. CASE AskFlashLoan BY <1>2, PushedSettles DEF AskFlashLoan
<1>3. CASE Process BY <1>3, PayoutSettles, AccountedSettles DEF Process
<1>4. CASE Between
  <2>1. flashes' = flashes /\ (Configuration \/ PriceChange \/ NextBlock)
    BY <1>4 DEF Between
  <2>2. CASE NextBlock BY <2>1, <2>2, NewBlockSettles
  <2>3. CASE Configuration \/ PriceChange
    <3>1. now' = now /\ [Next]_vars
      BY <2>3 DEF Configuration, setConfiguration, setPause, PriceChange, PriceMove, Next
    <3> QED BY <2>1, <3>1, CallsKeepSettling
  <2> QED BY <2>1, <2>2, <2>3
<1>5. CASE UNCHANGED flashVars
  <2>1. flashes' = flashes /\ now' = now /\ [Next]_vars BY <1>5 DEF flashVars, vars
  <2> QED BY <2>1, CallsKeepSettling
<1> QED BY <1>1, <1>2, <1>3, <1>4, <1>5 DEF FlashNext

\* No reserve of a new market has been updated.
LEMMA InitSettles ==
  ASSUME FlashInit
  PROVE  RatesSettling
<1>1. flashes = <<>> /\ now = 1 /\ \A a \in Assets : reserves[a].lastUpdateTimestamp = 0
  BY DEF FlashInit, Init, InitializedReserve
<1> QED BY <1>1 DEF RatesSettling

\* Whatever is called while the cash is away sets rates for a reserve that looks
\* empty; when the transaction is over none of that is left, however deep the
\* loans were stacked and whatever the receivers called.  The exception is again
\* the liquidation of which SameAssetLiquidation is the run.
THEOREM RatesSettleWithLoansHolds ==
  FlashSpec /\ [][~SeizesInOneAsset]_flashVars => []RatesSettleWithLoans
<1>1. FlashInit => RatesSettling BY InitSettles
<1>2. ASSUME FlashInv, FlashInv', RatesSettling, [FlashNext]_flashVars,
             [~SeizesInOneAsset]_flashVars
      PROVE  RatesSettling'
  <2>1. IInv' BY <1>2 DEF FlashInv
  <2>2. CASE ~SeizesInOneAsset BY <1>2, <2>1, <2>2, EveryStepSettles
  <2>3. CASE UNCHANGED flashVars
    <3>1. flashes' = flashes /\ now' = now /\ reserves' = reserves
      BY <2>3 DEF flashVars, vars, poolVars
    <3>2. \A a \in Assets : Awaited(a)' <=> Awaited(a) BY <3>1 DEF Awaited
    <3>3. \A a \in Assets : RatesKept(reserves[a], reserves'[a])
      BY <3>1 DEF RatesKept, SameDebts, SameRates
    <3>4. IInv BY <1>2 DEF FlashInv
    <3>5. \A a \in Assets :
            reserves'[a].lastUpdateTimestamp = now' => BorrowRatesSettled(a)' \/ Awaited(a)'
      BY <1>2, <2>1, <3>1, <3>2, <3>3, <3>4, ReserveSettling
    <3> QED BY <1>2, <3>1, <3>5 DEF RatesSettling
  <2> QED BY <1>2, <2>2, <2>3
<1>3. RatesSettling => RatesSettleWithLoans
  <2> SUFFICES ASSUME RatesSettling, Idle PROVE ~(\E a \in Assets : Awaited(a))
    BY DEF RatesSettling, RatesSettleWithLoans, BorrowRatesSettled
  <2> QED BY DEF Idle, Awaited
<1>4. FlashInv /\ FlashInv' /\ RatesSettling /\ [FlashNext]_flashVars
        /\ [~SeizesInOneAsset]_flashVars => RatesSettling'
  BY <1>2
<1> QED BY <1>1, <1>3, <1>4, StampsHoldInLoans, PTL DEF FlashSpec

(***************************************************************************)
(* The configurator.  Between transactions the words of a market are       *)
(* changed by the functions of LendingPoolConfigurator, each from the word *)
(* it reads, and not to one word of a list.                                *)
(***************************************************************************)
Administered ==
  /\ Idle
  /\ (\E a \in Assets : AdministrationOf(a)) \/ PriceChange \/ NextBlock
  /\ UNCHANGED flashes

AdministeredNext == Call \/ AskFlashLoan \/ Process \/ Administered
AdministeredSpec == FlashInit /\ [][AdministeredNext]_flashVars

\* What configureReserveAsCollateral and setReserveFactor may be asked for.
Askable ==
  /\ CollateralParameters \subseteq
       [ltv : Nat, liquidationThreshold : Nat, liquidationBonus : Nat]
  /\ ReserveFactors \subseteq Nat

\* Each function writes a word the pool can work with: the checks of
\* configureReserveAsCollateral, and the fields it leaves alone.
LEMMA ConfiguratorWrites ==
  ASSUME TypeOK, Askable, NEW a \in Assets, AdministrationOf(a)
  PROVE  \/ \E c \in ReserveConfiguration : setConfiguration(a, c)
         \/ \E val \in BOOLEAN : setPause(val)
<1> DEFINE c == configuration[a]
<1>1. c \in ReserveConfiguration /\ c \in ConfigurationWord
  BY DEF TypeOK, ReserveConfiguration
<1>2. /\ \A b, s \in BOOLEAN :
           /\ [c EXCEPT !.borrowingEnabled = b] \in ReserveConfiguration
           /\ [c EXCEPT !.borrowingEnabled = b, !.stableRateEnabled = s] \in ReserveConfiguration
           /\ [c EXCEPT !.stableRateEnabled = b] \in ReserveConfiguration
           /\ [c EXCEPT !.active = b] \in ReserveConfiguration
           /\ [c EXCEPT !.frozen = b] \in ReserveConfiguration
      /\ \A f \in Nat : [c EXCEPT !.reserveFactor = f] \in ReserveConfiguration
  BY <1>1 DEF ReserveConfiguration, ConfigurationWord
<1> HIDE DEF c
<1>3. ASSUME NEW p \in CollateralParameters, configureReserveAsCollateral(a, p)
      PROVE  \E d \in ReserveConfiguration : setConfiguration(a, d)
  <2> DEFINE d == [c EXCEPT !.ltv = p.ltv,
                            !.liquidationThreshold = p.liquidationThreshold,
                            !.liquidationBonus = p.liquidationBonus]
  <2>1. p.ltv \in Nat /\ p.liquidationThreshold \in Nat /\ p.liquidationBonus \in Nat
    BY DEF Askable
  <2>2. /\ d \in ConfigurationWord /\ d.ltv = p.ltv
        /\ d.liquidationThreshold = p.liquidationThreshold
        /\ d.liquidationBonus = p.liquidationBonus
    BY <1>1, <2>1 DEF ConfigurationWord
  <2>3. setConfiguration(a, d) BY <1>3 DEF configureReserveAsCollateral, c
  <2>4. /\ p.ltv <= p.liquidationThreshold
        /\ p.liquidationThreshold # 0 =>
             /\ p.liquidationBonus > PERCENTAGE_FACTOR
             /\ percentMul(p.liquidationThreshold, p.liquidationBonus) <= PERCENTAGE_FACTOR
        /\ p.liquidationThreshold = 0 => p.liquidationBonus = 0
    BY <1>3 DEF configureReserveAsCollateral
  <2> HIDE DEF d
  <2>5. d \in ReserveConfiguration BY <2>2, <2>4 DEF ReserveConfiguration
  <2> QED BY <2>3, <2>5
<1>4. ASSUME NEW f \in ReserveFactors, setReserveFactor(a, f)
      PROVE  \E d \in ReserveConfiguration : setConfiguration(a, d)
  BY <1>2, <1>4 DEF setReserveFactor, Askable, c
<1>5. ASSUME \/ \E s \in BOOLEAN : enableBorrowingOnReserve(a, s)
             \/ disableBorrowingOnReserve(a)
             \/ enableReserveStableRate(a) \/ disableReserveStableRate(a)
             \/ activateReserve(a) \/ deactivateReserve(a)
             \/ freezeReserve(a) \/ unfreezeReserve(a)
      PROVE  \E d \in ReserveConfiguration : setConfiguration(a, d)
  BY <1>2, <1>5 DEF enableBorrowingOnReserve, disableBorrowingOnReserve,
                    enableReserveStableRate, disableReserveStableRate, activateReserve,
                    deactivateReserve, freezeReserve, unfreezeReserve, c
<1> QED BY <1>3, <1>4, <1>5 DEF AdministrationOf, setPoolPause

\* Every step of an administered market is one of a market whose words are any of
\* the admissible ones.
LEMMA AdministeredStep ==
  ASSUME FlashInv, Askable, \A a \in Assets : Configurations[a] = ReserveConfiguration,
         [AdministeredNext]_flashVars
  PROVE  [FlashNext]_flashVars
<1>1. CASE Administered
  <2>1. Idle /\ flashes' = flashes BY <1>1 DEF Administered
  <2>2. TypeOK BY DEF FlashInv, IInv
  <2>3. ASSUME NEW a \in Assets, AdministrationOf(a) PROVE Configuration
    BY <2>2, <2>3, ConfiguratorWrites DEF Configuration
  <2>4. Configuration \/ PriceChange \/ NextBlock BY <1>1, <2>3 DEF Administered
  <2> QED BY <2>1, <2>4 DEF FlashNext, Between
<1> QED BY <1>1 DEF AdministeredNext, FlashNext

\* The pool admin and the emergency admin cannot get the market into a state the
\* theorems above do not speak of: with the configurator of the code, a market is
\* a market of FlashSpec, and what is proved of that is true of it.
THEOREM AdministeredMarketIsCovered ==
  ASSUME Askable, \A a \in Assets : Configurations[a] = ReserveConfiguration
  PROVE  AdministeredSpec => FlashSpec
<1>1. FlashInit => FlashInv BY FlashInitSound
<1>2. FlashInv /\ [AdministeredNext]_flashVars => [FlashNext]_flashVars
  BY AdministeredStep
<1>3. FlashInv /\ [FlashNext]_flashVars => FlashInv' BY FlashStep
<1> QED BY <1>1, <1>2, <1>3, PTL DEF AdministeredSpec, FlashSpec
=============================================================================
