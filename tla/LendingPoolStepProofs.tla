------------------------ MODULE LendingPoolStepProofs -----------------------
(***************************************************************************)
(* What no step of the pool may do, for every market: grow a debt or a     *)
(* deposit of a frozen reserve, charge a delegator beyond the allowance,   *)
(* leave aTokens behind a collateral bit that was cleared with them, or    *)
(* leave a reserve with rates for other liquidity than it has.             *)
(***************************************************************************)
EXTENDS LendingPoolBalanceProofs

(***************************************************************************)
(* A reserve brought up to date in this block, and what stays of it while  *)
(* a transaction works on its debts.                                       *)
(***************************************************************************)
UpToDate(r) == Sound(r, now) /\ r.lastUpdateTimestamp = now

SameIncome(r1, r2) ==
  /\ r2.lastUpdateTimestamp = r1.lastUpdateTimestamp
  /\ r2.liquidityIndex = r1.liquidityIndex
  /\ r2.aToken = r1.aToken

\* Up to date, the views are the stored indexes.
LEMMA UpToDateIndexes ==
  ASSUME NEW r, r.lastUpdateTimestamp = now
  PROVE  /\ getNormalizedIncome(r, now) = r.liquidityIndex
         /\ getNormalizedDebt(r, now) = r.variableBorrowIndex
BY DEF getNormalizedIncome, getNormalizedDebt

\* updateState: the income index becomes what its view said, nobody but the
\* treasury gets aTokens, and the debt index is not ahead of its view.
LEMMA AccruedUpToDate ==
  ASSUME TypeOK, NEW a \in Assets, NEW r, Sound(r, now), CanAccrue(a, r)
  PROVE  LET after == Accrued(a, r)
         IN /\ UpToDate(after)
            /\ after.liquidityIndex = getNormalizedIncome(r, now)
            /\ after.variableBorrowIndex <= getNormalizedDebt(r, now)
            /\ SameDebts(r, after)
            /\ after.cash = r.cash
            /\ \A u \in Accounts \ {Treasury} :
                 after.aToken.balances[u] = r.aToken.balances[u]
<1>1. now \in Nat BY DEF TypeOK
<1>2. /\ Sound(Accrued(a, r), now) /\ SameDebts(r, Accrued(a, r))
      /\ Accrued(a, r).cash = r.cash
      /\ Accrued(a, r).variableBorrowIndex = UpdatedVariableBorrowIndex(r, now)
  BY AccruedSound
<1>3. UpdatedVariableBorrowIndex(r, now) <= getNormalizedDebt(r, now)
  BY <1>1, VariableBorrowIndexGrows
<1>4. /\ Accrued(a, r).lastUpdateTimestamp = now
      /\ Accrued(a, r).liquidityIndex = getNormalizedIncome(r, now)
      /\ \A u \in Accounts \ {Treasury} :
           Accrued(a, r).aToken.balances[u] = r.aToken.balances[u]
  BY <1>1, UpdateStateFields, IncomeIsUpdated DEF Accrued
<1> QED BY <1>2, <1>3, <1>4 DEF UpToDate

\* updateInterestRates: rates only.
LEMMA RepricedUpToDate ==
  ASSUME TypeOK, NEW a \in Assets, NEW r, UpToDate(r), NEW delta, CanReprice(a, r, delta)
  PROVE  /\ UpToDate(Repriced(a, r, delta))
         /\ SameIncome(r, Repriced(a, r, delta))
         /\ SameDebts(r, Repriced(a, r, delta))
         /\ Repriced(a, r, delta).variableBorrowIndex = r.variableBorrowIndex
         /\ Repriced(a, r, delta).cash = r.cash
<1>1. /\ Sound(Repriced(a, r, delta), now)
      /\ SameDebts(r, Repriced(a, r, delta))
      /\ Repriced(a, r, delta).liquidityIndex = r.liquidityIndex
      /\ Repriced(a, r, delta).variableBorrowIndex = r.variableBorrowIndex
      /\ Repriced(a, r, delta).aToken = r.aToken
      /\ Repriced(a, r, delta).cash = r.cash
  BY RepricedSound DEF UpToDate
<1>2. Repriced(a, r, delta).lastUpdateTimestamp = r.lastUpdateTimestamp
  BY DEF Repriced, WithInterestRates, UpToDate, Sound, Reserve
<1> QED BY <1>1, <1>2 DEF UpToDate, SameIncome

\* Minting a debt touches neither income nor cash.
LEMMA MintDebtUpToDate ==
  ASSUME TypeOK, NEW r, UpToDate(r), NEW mode \in RateModes, NEW user \in Accounts,
         NEW amount \in Nat, CanMintDebt(r, mode, user, amount)
  PROVE  LET after == MintDebt(r, mode, user, amount)
         IN /\ UpToDate(after) /\ SameIncome(r, after)
            /\ after.variableBorrowIndex = r.variableBorrowIndex
            /\ after.cash = r.cash
<1>1. LET after == MintDebt(r, mode, user, amount)
      IN /\ Sound(after, now)
         /\ after.liquidityIndex = r.liquidityIndex
         /\ after.variableBorrowIndex = r.variableBorrowIndex
         /\ after.cash = r.cash
  BY MintDebtSound DEF UpToDate
<1>2. LET after == MintDebt(r, mode, user, amount)
      IN after.lastUpdateTimestamp = r.lastUpdateTimestamp /\ after.aToken = r.aToken
  BY DEF MintDebt, UpToDate, Sound, Reserve
<1> QED BY <1>1, <1>2 DEF UpToDate, SameIncome

\* Nor does burning one.
LEMMA BurnDebtOfUpToDate ==
  ASSUME TypeOK, NEW r, UpToDate(r), NEW mode \in RateModes, NEW user \in Accounts,
         NEW amount \in Nat, CanBurnDebtOf(r, mode, user, amount)
  PROVE  LET after == BurnDebtOf(r, mode, user, amount)
         IN /\ UpToDate(after) /\ SameIncome(r, after)
            /\ after.variableBorrowIndex = r.variableBorrowIndex
            /\ after.cash = r.cash
<1>1. LET after == BurnDebtOf(r, mode, user, amount)
      IN /\ Sound(after, now)
         /\ after.liquidityIndex = r.liquidityIndex
         /\ after.variableBorrowIndex = r.variableBorrowIndex
         /\ after.cash = r.cash
  BY BurnDebtOfSound DEF UpToDate
<1>2. LET after == BurnDebtOf(r, mode, user, amount)
      IN after.lastUpdateTimestamp = r.lastUpdateTimestamp /\ after.aToken = r.aToken
  BY DEF BurnDebtOf, UpToDate, Sound, Reserve
<1> QED BY <1>1, <1>2 DEF UpToDate, SameIncome

\* Nor does the debt side of a liquidation.
LEMMA BurnDebtUpToDate ==
  ASSUME TypeOK, NEW r, UpToDate(r), NEW user \in Accounts, NEW owed \in Nat,
         NEW amount \in Nat, CanBurnDebt(r, user, owed, amount)
  PROVE  LET after == BurnDebt(r, user, owed, amount)
         IN /\ UpToDate(after) /\ SameIncome(r, after)
            /\ after.variableBorrowIndex = r.variableBorrowIndex
            /\ after.cash = r.cash
<1>1. LET after == BurnDebt(r, user, owed, amount)
      IN /\ Sound(after, now)
         /\ after.liquidityIndex = r.liquidityIndex
         /\ after.variableBorrowIndex = r.variableBorrowIndex
         /\ after.cash = r.cash
  BY BurnDebtSound DEF UpToDate
<1>2. LET after == BurnDebt(r, user, owed, amount)
      IN after.lastUpdateTimestamp = r.lastUpdateTimestamp /\ after.aToken = r.aToken
  BY DEF BurnDebt, UpToDate, Sound, Reserve
<1> QED BY <1>1, <1>2 DEF UpToDate, SameIncome

\* New aTokens and cash in a reserve.
LEMMA SupplyUpToDate ==
  ASSUME NEW r \in Reserve, NEW token, NEW cash
  PROVE  LET after == WithSupply(r, token, cash)
         IN /\ after.aToken = token /\ after.cash = cash
            /\ SameDebts(r, after)
            /\ after.liquidityIndex = r.liquidityIndex
            /\ after.variableBorrowIndex = r.variableBorrowIndex
            /\ after.lastUpdateTimestamp = r.lastUpdateTimestamp
            /\ getNormalizedDebt(after, now) = getNormalizedDebt(r, now)
<1>1. LET after == WithSupply(r, token, cash)
      IN /\ after.aToken = token /\ after.cash = cash
         /\ SameDebts(r, after)
         /\ after.liquidityIndex = r.liquidityIndex
         /\ after.variableBorrowIndex = r.variableBorrowIndex
         /\ after.lastUpdateTimestamp = r.lastUpdateTimestamp
         /\ after.currentVariableBorrowRate = r.currentVariableBorrowRate
  BY DEF WithSupply, Reserve, SameDebts
<1> HIDE DEF WithSupply
<1> QED BY <1>1 DEF getNormalizedDebt

(***************************************************************************)
(* What a transaction may take from and may not add to a reserve: debts,   *)
(* and what others than the treasury can claim.                            *)
(***************************************************************************)
DebtsShrink(r1, r2) ==
  \A u \in Accounts :
    /\ r2.variableDebt.balances[u] <= r1.variableDebt.balances[u]
    /\ VariableDebtOf(r2, u, now) <= VariableDebtOf(r1, u, now)
    /\ StableDebtOf(r2, u, now) <= StableDebtOf(r1, u, now)

\* Debts shrink when the ledgers do and the variable index is not ahead.
LEMMA DebtsShrinkFrom ==
  ASSUME now \in Nat, NEW r1, Sound(r1, now), NEW r2, Sound(r2, now),
         getNormalizedDebt(r2, now) <= getNormalizedDebt(r1, now),
         \A u \in Accounts :
           /\ r2.variableDebt.balances[u] <= r1.variableDebt.balances[u]
           /\ StableDebtOf(r2, u, now) <= StableDebtOf(r1, u, now)
  PROVE  DebtsShrink(r1, r2)
<1>1. /\ getNormalizedDebt(r2, now) \in Nat /\ getNormalizedDebt(r1, now) \in Nat
      /\ \A u \in Accounts : /\ r2.variableDebt.balances[u] \in Nat
                             /\ r1.variableDebt.balances[u] \in Nat
  BY VariableBorrowIndexGrows, DebtTypes
<1> QED BY <1>1, RayMulMonotone DEF DebtsShrink, VariableDebtOf, ScaledBalanceOf

\* The same ledgers under an index that is not ahead.
LEMMA SameDebtsShrink ==
  ASSUME now \in Nat, NEW r1, Sound(r1, now), NEW r2, Sound(r2, now), SameDebts(r1, r2),
         getNormalizedDebt(r2, now) <= getNormalizedDebt(r1, now)
  PROVE  DebtsShrink(r1, r2)
<1>1. \A u \in Accounts :
        /\ StableDebtOf(r1, u, now) \in Nat /\ r1.variableDebt.balances[u] \in Nat
  BY DebtTypes
<1>2. \A u \in Accounts :
        /\ r2.variableDebt.balances[u] = r1.variableDebt.balances[u]
        /\ StableDebtOf(r2, u, now) = StableDebtOf(r1, u, now)
  BY DEF SameDebts, StableDebtOf
<1>3. \A u \in Accounts :
        /\ r2.variableDebt.balances[u] <= r1.variableDebt.balances[u]
        /\ StableDebtOf(r2, u, now) <= StableDebtOf(r1, u, now)
  <2> TAKE u \in Accounts
  <2> DEFINE s1 == StableDebtOf(r1, u, now)
             s2 == StableDebtOf(r2, u, now)
             b1 == r1.variableDebt.balances[u]
             b2 == r2.variableDebt.balances[u]
  <2>1. s1 \in Nat /\ b1 \in Nat /\ s2 = s1 /\ b2 = b1 BY <1>1, <1>2
  <2> HIDE DEF s1, s2, b1, b2
  <2>2. b2 <= b1 /\ s2 <= s1 BY <2>1, SMT
  <2> QED BY <2>2 DEF s1, s2, b1, b2
<1> QED BY <1>3, DebtsShrinkFrom

\* Burning debt in either mode.
LEMMA BurnDebtOfShrinks ==
  ASSUME TypeOK, NEW r, Sound(r, now), NEW mode \in RateModes, NEW user \in Accounts,
         NEW amount \in Nat, CanBurnDebtOf(r, mode, user, amount)
  PROVE  LET after == BurnDebtOf(r, mode, user, amount)
         IN \A u \in Accounts :
              /\ after.variableDebt.balances[u] <= r.variableDebt.balances[u]
              /\ StableDebtOf(after, u, now) <= StableDebtOf(r, u, now)
<1>1. /\ now \in Nat /\ r \in Reserve /\ r.variableDebt \in ScaledLedger
      /\ StableSound(r.stableDebt, now)
  BY SoundFields DEF TypeOK, Sound
<1>2. \A u \in Accounts : /\ StableBalanceOf(r.stableDebt, u, now) \in Nat
                          /\ r.variableDebt.balances[u] \in Nat
  BY <1>1, StableBalanceType, LedgerFields
<1>3. CASE mode = "stable"
  <2> DEFINE token == BurnStable(r.stableDebt, user, amount, now)
  <2>1. CanBurnStable(r.stableDebt, user, amount, now) BY <1>3 DEF CanBurnDebtOf
  <2>2. /\ \A u \in Accounts \ {user} :
             StableBalanceOf(token, u, now) = StableBalanceOf(r.stableDebt, u, now)
        /\ StableBalanceOf(token, user, now) = StableBalanceOf(r.stableDebt, user, now) - amount
    BY <1>1, <2>1, BurnStableDebts
  <2> HIDE DEF token
  <2>3. /\ BurnDebtOf(r, mode, user, amount).variableDebt = r.variableDebt
        /\ BurnDebtOf(r, mode, user, amount).stableDebt = token
    BY <1>1, <1>3 DEF BurnDebtOf, Reserve, token
  <2>4. \A u \in Accounts :
          StableBalanceOf(token, u, now) <= StableBalanceOf(r.stableDebt, u, now)
    BY <1>2, <2>2, SMT
  <2>5. \A u \in Accounts : r.variableDebt.balances[u] <= r.variableDebt.balances[u]
    BY <1>2, SMT
  <2> QED BY <2>3, <2>4, <2>5 DEF StableDebtOf
<1>4. CASE mode # "stable"
  <2> DEFINE token == BurnScaled(r.variableDebt, user, amount, r.variableBorrowIndex)
  <2>1. \A u \in Accounts : token.balances[u] <= r.variableDebt.balances[u]
    BY <1>1, <1>4, BurnScaledType DEF CanBurnDebtOf
  <2> HIDE DEF token
  <2>2. /\ BurnDebtOf(r, mode, user, amount).variableDebt = token
        /\ BurnDebtOf(r, mode, user, amount).stableDebt = r.stableDebt
    BY <1>1, <1>4 DEF BurnDebtOf, Reserve, token
  <2>3. \A u \in Accounts :
          StableBalanceOf(r.stableDebt, u, now) <= StableBalanceOf(r.stableDebt, u, now)
    BY <1>2, SMT
  <2> QED BY <2>1, <2>2, <2>3 DEF StableDebtOf
<1> QED BY <1>3, <1>4

\* The debt side of a liquidation.
LEMMA BurnDebtShrinks ==
  ASSUME TypeOK, NEW r, Sound(r, now), NEW user \in Accounts, NEW owed \in Nat,
         NEW amount \in Nat, CanBurnDebt(r, user, owed, amount)
  PROVE  LET after == BurnDebt(r, user, owed, amount)
         IN \A u \in Accounts :
              /\ after.variableDebt.balances[u] <= r.variableDebt.balances[u]
              /\ StableDebtOf(after, u, now) <= StableDebtOf(r, u, now)
<1> DEFINE part == FromVariable(owed, amount)
           variable == IF BurnsVariable(owed, amount)
                       THEN BurnScaled(r.variableDebt, user, part, r.variableBorrowIndex)
                       ELSE r.variableDebt
           stable == IF owed < amount THEN BurnStable(r.stableDebt, user, amount - part, now)
                     ELSE r.stableDebt
<1>1. /\ now \in Nat /\ r \in Reserve /\ r.variableDebt \in ScaledLedger
      /\ StableSound(r.stableDebt, now)
  BY SoundFields DEF TypeOK, Sound
<1>2. \A u \in Accounts : /\ StableBalanceOf(r.stableDebt, u, now) \in Nat
                          /\ r.variableDebt.balances[u] \in Nat
  BY <1>1, StableBalanceType, LedgerFields
<1>3. /\ BurnsVariable(owed, amount)
           => CanBurnScaled(r.variableDebt, user, part, r.variableBorrowIndex)
      /\ owed < amount => CanBurnStable(r.stableDebt, user, amount - part, now)
  BY DEF CanBurnDebt
<1>4. \A u \in Accounts : variable.balances[u] <= r.variableDebt.balances[u]
  <2>1. CASE BurnsVariable(owed, amount) BY <1>1, <1>3, <2>1, BurnScaledType
  <2>2. CASE ~BurnsVariable(owed, amount) BY <1>2, <2>2, SMT
  <2> QED BY <2>1, <2>2
<1>5. \A u \in Accounts :
        StableBalanceOf(stable, u, now) <= StableBalanceOf(r.stableDebt, u, now)
  <2>1. CASE owed < amount
    <3> DEFINE rest == amount - part
               token == BurnStable(r.stableDebt, user, rest, now)
    <3>1. rest \in Nat BY <2>1, SMT DEF FromVariable
    <3>2. CanBurnStable(r.stableDebt, user, rest, now) BY <1>3, <2>1
    <3> HIDE DEF rest
    <3>3. /\ \A u \in Accounts \ {user} :
               StableBalanceOf(token, u, now) = StableBalanceOf(r.stableDebt, u, now)
          /\ StableBalanceOf(token, user, now) = StableBalanceOf(r.stableDebt, user, now) - rest
      BY <1>1, <3>1, <3>2, BurnStableDebts
    <3> HIDE DEF token
    <3>4. \A u \in Accounts :
            StableBalanceOf(token, u, now) <= StableBalanceOf(r.stableDebt, u, now)
      BY <1>2, <3>1, <3>3, SMT
    <3> QED BY <2>1, <3>4 DEF token, rest
  <2>2. CASE ~(owed < amount) BY <1>2, <2>2, SMT
  <2> QED BY <2>1, <2>2
<1> HIDE DEF variable, stable
<1>6. /\ BurnDebt(r, user, owed, amount).variableDebt = variable
      /\ BurnDebt(r, user, owed, amount).stableDebt = stable
  BY <1>1 DEF BurnDebt, Reserve, variable, stable
<1> QED BY <1>4, <1>5, <1>6 DEF StableDebtOf

\* Nobody but the treasury can claim more.
ClaimsShrink(r1, r2) == ClaimsOn(r2) <= ClaimsOn(r1)

\* In transactions that the treasury does not send itself.
NotGrown(r1, r2) ==
  /\ DebtsShrink(r1, r2)
  /\ Treasury \notin Users => ClaimsShrink(r1, r2)

\* The claims, as a sum over a function.
LEMMA ClaimsAreSums ==
  ASSUME NEW r, r.aToken \in ScaledLedger
  PROVE  /\ ClaimsOn(r) = SumOver(r.aToken.balances, OthersThanTreasury)
         /\ IsFiniteSet(OthersThanTreasury)
         /\ \A u \in OthersThanTreasury : r.aToken.balances[u] \in Int
         /\ ClaimsOn(r) \in Int
<1>1. ClaimsOn(r) = SumOver(r.aToken.balances, OthersThanTreasury) BY DEF ClaimsOn, SumOver
<1>2. IsFiniteSet(OthersThanTreasury)
  BY AccountsAssumption, FS_Subset DEF OthersThanTreasury
<1>3. \A u \in OthersThanTreasury : r.aToken.balances[u] \in Int
  BY LedgerFields DEF OthersThanTreasury
<1>4. ClaimsOn(r) \in Int BY <1>1, <1>2, <1>3, SumType
<1> QED BY <1>1, <1>2, <1>3, <1>4

\* Smaller balances are smaller claims.
LEMMA ClaimsAtMost ==
  ASSUME NEW r1, r1.aToken \in ScaledLedger, NEW r2, r2.aToken \in ScaledLedger,
         \A u \in Accounts \ {Treasury} : r2.aToken.balances[u] <= r1.aToken.balances[u]
  PROVE  ClaimsShrink(r1, r2)
<1> DEFINE f == r1.aToken.balances
           g == r2.aToken.balances
<1>1. /\ \A u \in OthersThanTreasury : f[u] \in Int /\ g[u] \in Int /\ g[u] <= f[u]
      /\ IsFiniteSet(OthersThanTreasury)
      /\ ClaimsOn(r1) = SumOver(f, OthersThanTreasury)
      /\ ClaimsOn(r2) = SumOver(g, OthersThanTreasury)
  BY ClaimsAreSums DEF OthersThanTreasury
<1> HIDE DEF f, g
<1>2. SumOver(g, OthersThanTreasury) <= SumOver(f, OthersThanTreasury) BY <1>1, SumMonotone
<1> QED BY <1>1, <1>2 DEF ClaimsShrink

\* The same balances, but for the treasury's.
LEMMA SameClaims ==
  ASSUME NEW r1, r1.aToken \in ScaledLedger, NEW r2, r2.aToken \in ScaledLedger,
         \A u \in Accounts \ {Treasury} : r2.aToken.balances[u] = r1.aToken.balances[u]
  PROVE  ClaimsShrink(r1, r2)
<1>1. \A u \in Accounts \ {Treasury} : r2.aToken.balances[u] <= r1.aToken.balances[u]
  <2> TAKE u \in Accounts \ {Treasury}
  <2>1. r1.aToken.balances[u] \in Nat /\ r2.aToken.balances[u] = r1.aToken.balances[u]
    BY LedgerFields
  <2> QED BY <2>1, SMT
<1> QED BY <1>1, ClaimsAtMost

\* Moving aTokens between two others than the treasury changes no claim in total.
LEMMA MovedClaims ==
  ASSUME NEW r \in Reserve, NEW from \in Accounts \ {Treasury}, NEW to \in Accounts \ {Treasury},
         NEW amount \in Nat, NEW index \in Nat, RAY <= index,
         CanMoveScaled(r.aToken, from, amount, index)
  PROVE  LET after == [r EXCEPT !.aToken = MoveScaled(r.aToken, from, to, amount, index)]
         IN ClaimsShrink(r, after)
<1> DEFINE token == MoveScaled(r.aToken, from, to, amount, index)
           after == [r EXCEPT !.aToken = token]
           x == AmountScaled(amount, index)
           f == r.aToken.balances
           g == token.balances
<1>1. r.aToken \in ScaledLedger BY DEF Reserve
<1>2. token \in ScaledLedger BY <1>1, MoveScaledType
<1>3. /\ x \in Nat
      /\ from = to => g = f
      /\ from # to => g[from] = f[from] - x /\ g[to] = f[to] + x
      /\ \A u \in Accounts \ {from, to} : g[u] = f[u]
  BY <1>1, MovedBalances
<1> HIDE DEF token, x
<1>4. after.aToken = token BY DEF Reserve
<1>5. /\ IsFiniteSet(OthersThanTreasury)
      /\ \A u \in OthersThanTreasury : f[u] \in Int /\ g[u] \in Int
      /\ ClaimsOn(r) = SumOver(f, OthersThanTreasury) /\ ClaimsOn(r) \in Int
      /\ ClaimsOn(after) = SumOver(g, OthersThanTreasury)
  BY <1>1, <1>2, <1>4, ClaimsAreSums
<1>6. from \in OthersThanTreasury /\ to \in OthersThanTreasury BY DEF OthersThanTreasury
<1>7. \A u \in OthersThanTreasury \ {from, to} : g[u] = f[u] BY <1>3 DEF OthersThanTreasury
<1> HIDE DEF f, g, after
<1>8. SumOver(g, OthersThanTreasury) = SumOver(f, OthersThanTreasury)
  <2>1. CASE from = to BY <1>3, <2>1
  <2>2. CASE from # to
    <3>1. SumOver(g, OthersThanTreasury)
            = SumOver(f, OthersThanTreasury) + (g[from] - f[from]) + (g[to] - f[to])
      BY <1>5, <1>6, <1>7, <2>2, SumChangeTwo
    <3>2. SumOver(f, OthersThanTreasury) \in Int /\ f[from] \in Int /\ f[to] \in Int
      BY <1>5, <1>6
    <3> QED BY <1>3, <2>2, <3>1, <3>2, SMT
  <2> QED BY <2>1, <2>2
<1>9. ClaimsOn(after) <= ClaimsOn(r) BY <1>5, <1>8, SMT
<1> QED BY <1>9 DEF ClaimsShrink, after, token

(***************************************************************************)
(* The reserve after an operation that mints no debt.                      *)
(***************************************************************************)

\* A reserve that nothing happens to.
LEMMA NotGrownItself ==
  ASSUME now \in Nat, NEW r, Sound(r, now)
  PROVE  NotGrown(r, r)
<1>1. getNormalizedDebt(r, now) \in Nat /\ r.aToken \in ScaledLedger
  BY VariableBorrowIndexGrows, SoundFields
<1>2. getNormalizedDebt(r, now) <= getNormalizedDebt(r, now)
  <2> DEFINE i == getNormalizedDebt(r, now)
  <2>1. i \in Nat BY <1>1
  <2> HIDE DEF i
  <2>2. i <= i BY <2>1, SMT
  <2> QED BY <2>2 DEF i
<1>3. DebtsShrink(r, r) BY <1>2, SameDebtsShrink DEF SameDebts
<1>4. ClaimsShrink(r, r) BY <1>1, SameClaims
<1> QED BY <1>3, <1>4 DEF NotGrown

\* Accrued, some debts burned, repriced: what repay, the rebalancing and the debt
\* side of a liquidation make of a reserve.
LEMMA OperationNotGrown ==
  ASSUME TypeOK, NEW a \in Assets, NEW r, Sound(r, now), CanAccrue(a, r),
         NEW mid, UpToDate(mid), SameIncome(Accrued(a, r), mid),
         mid.variableBorrowIndex = Accrued(a, r).variableBorrowIndex,
         \A u \in Accounts :
           /\ mid.variableDebt.balances[u] <= r.variableDebt.balances[u]
           /\ StableDebtOf(mid, u, now) <= StableDebtOf(r, u, now),
         NEW delta, CanReprice(a, mid, delta)
  PROVE  LET after == Repriced(a, mid, delta)
         IN /\ UpToDate(after)
            /\ SameIncome(Accrued(a, r), after)
            /\ after.cash = mid.cash
            /\ NotGrown(r, after)
<1> DEFINE accrued == Accrued(a, r)
           after   == Repriced(a, mid, delta)
<1>1. now \in Nat BY DEF TypeOK
<1>2. /\ UpToDate(accrued)
      /\ accrued.variableBorrowIndex <= getNormalizedDebt(r, now)
      /\ \A u \in Accounts \ {Treasury} : accrued.aToken.balances[u] = r.aToken.balances[u]
  BY AccruedUpToDate
<1>3. SameIncome(accrued, mid) /\ mid.variableBorrowIndex = accrued.variableBorrowIndex
  OBVIOUS
<1> HIDE DEF accrued
<1>4. /\ UpToDate(after) /\ SameIncome(mid, after) /\ SameDebts(mid, after)
      /\ after.variableBorrowIndex = mid.variableBorrowIndex
      /\ after.cash = mid.cash
  BY RepricedUpToDate
<1> HIDE DEF after
<1>5. SameIncome(accrued, after) BY <1>3, <1>4 DEF SameIncome
<1>6. getNormalizedDebt(after, now) <= getNormalizedDebt(r, now)
  BY <1>2, <1>3, <1>4, UpToDateIndexes DEF UpToDate
<1>7. \A u \in Accounts :
        /\ after.variableDebt.balances[u] <= r.variableDebt.balances[u]
        /\ StableDebtOf(after, u, now) <= StableDebtOf(r, u, now)
  BY <1>4 DEF SameDebts, StableDebtOf
<1>8. DebtsShrink(r, after) BY <1>1, <1>4, <1>6, <1>7, DebtsShrinkFrom DEF UpToDate
<1>9. r.aToken \in ScaledLedger /\ after.aToken \in ScaledLedger
  BY <1>1, <1>4, SoundFields DEF UpToDate
<1>10. ClaimsShrink(r, after) BY <1>2, <1>5, <1>9, SameClaims DEF SameIncome
<1> QED BY <1>4, <1>5, <1>8, <1>10 DEF NotGrown, accrued, after

\* Accrued and repriced only.
LEMMA AccrualNotGrown ==
  ASSUME TypeOK, NEW a \in Assets, NEW r, Sound(r, now), CanAccrue(a, r),
         NEW delta, CanReprice(a, Accrued(a, r), delta)
  PROVE  LET after == Repriced(a, Accrued(a, r), delta)
         IN /\ UpToDate(after)
            /\ SameIncome(Accrued(a, r), after)
            /\ after.cash = r.cash
            /\ NotGrown(r, after)
<1> DEFINE mid == Accrued(a, r)
<1>1. UpToDate(mid) /\ SameDebts(r, mid) /\ mid.cash = r.cash BY AccruedUpToDate
<1>2. DebtsShrink(r, r) BY NotGrownItself DEF NotGrown, TypeOK
<1>3. \A u \in Accounts :
        /\ mid.variableDebt.balances[u] <= r.variableDebt.balances[u]
        /\ StableDebtOf(mid, u, now) <= StableDebtOf(r, u, now)
  BY <1>1, <1>2 DEF SameDebts, StableDebtOf, DebtsShrink
<1>4. CanReprice(a, mid, delta) OBVIOUS
<1>5. SameIncome(mid, mid) /\ mid.variableBorrowIndex = Accrued(a, r).variableBorrowIndex
  BY DEF SameIncome
<1> QED BY <1>1, <1>3, <1>4, <1>5, OperationNotGrown

\* New aTokens and cash leave the debts as they are, and the claims where nobody
\* but the treasury has more.
LEMMA SupplyNotGrown ==
  ASSUME now \in Nat, NEW r, Sound(r, now), NEW s, Sound(s, now), NEW token \in ScaledLedger,
         NEW cash
  PROVE  LET after == WithSupply(s, token, cash)
         IN /\ DebtsShrink(r, s) => DebtsShrink(r, after)
            /\ /\ ClaimsShrink(r, s)
               /\ \A u \in Accounts \ {Treasury} : token.balances[u] <= s.aToken.balances[u]
               => ClaimsShrink(r, after)
<1> DEFINE after == WithSupply(s, token, cash)
<1>1. /\ s \in Reserve /\ s.aToken \in ScaledLedger /\ r.aToken \in ScaledLedger
  BY SoundFields DEF Sound
<1>2. /\ after.aToken = token /\ SameDebts(s, after)
      /\ getNormalizedDebt(after, now) = getNormalizedDebt(s, now)
  BY <1>1, SupplyUpToDate
<1> HIDE DEF after
<1>3. DebtsShrink(r, s) => DebtsShrink(r, after)
  BY <1>2 DEF DebtsShrink, SameDebts, VariableDebtOf, StableDebtOf
<1>4. ASSUME ClaimsShrink(r, s),
             \A u \in Accounts \ {Treasury} : token.balances[u] <= s.aToken.balances[u]
      PROVE  ClaimsShrink(r, after)
  <2>1. ClaimsShrink(s, after) BY <1>1, <1>2, <1>4, ClaimsAtMost
  <2>2. ClaimsOn(r) \in Int /\ ClaimsOn(s) \in Int /\ ClaimsOn(after) \in Int
    BY <1>1, <1>2, ClaimsAreSums
  <2> QED BY <1>4, <2>1, <2>2, SMT DEF ClaimsShrink
<1> QED BY <1>3, <1>4 DEF after

\* Nor does cash that moves.
LEMMA CashNotGrown ==
  ASSUME NEW r, NEW s \in Reserve, NotGrown(r, s), NEW cash
  PROVE  NotGrown(r, WithCash(s, cash))
<1> DEFINE after == WithCash(s, cash)
<1>1. /\ after.aToken = s.aToken
      /\ after.variableDebt = s.variableDebt /\ after.stableDebt = s.stableDebt
      /\ after.variableBorrowIndex = s.variableBorrowIndex
      /\ after.currentVariableBorrowRate = s.currentVariableBorrowRate
      /\ after.lastUpdateTimestamp = s.lastUpdateTimestamp
  BY DEF WithCash, Reserve
<1> HIDE DEF after
<1>2. ClaimsOn(after) = ClaimsOn(s) BY <1>1 DEF ClaimsOn
<1>3. getNormalizedDebt(after, now) = getNormalizedDebt(s, now)
  BY <1>1 DEF getNormalizedDebt
<1>4. NotGrown(r, after)
  BY <1>1, <1>2, <1>3 DEF NotGrown, DebtsShrink, ClaimsShrink, VariableDebtOf, StableDebtOf
<1> QED BY <1>4 DEF after

(***************************************************************************)
(* The same of a whole transaction.                                        *)
(***************************************************************************)
DebtsOnlyShrink == \A b \in Assets : DebtsShrink(reserves[b], reserves'[b])
NothingGrows == \A b \in Assets : NotGrown(reserves[b], reserves'[b])

\* One reserve is written.
LEMMA OneReserveNotGrown ==
  ASSUME IInv, NEW a \in Assets, NEW R, reserves' = [reserves EXCEPT ![a] = R]
  PROVE  /\ DebtsShrink(reserves[a], R) => DebtsOnlyShrink
         /\ NotGrown(reserves[a], R) => NothingGrows
<1>1. /\ reserves \in [Assets -> Reserve] /\ now \in Nat
      /\ \A b \in Assets : Sound(reserves[b], now)
  BY IInvParts DEF TypeOK
<1>2. \A b \in Assets : NotGrown(reserves[b], reserves[b]) BY <1>1, NotGrownItself
<1>3. reserves'[a] = R /\ \A b \in Assets \ {a} : reserves'[b] = reserves[b] BY <1>1
<1>4. DebtsShrink(reserves[a], R) => DebtsOnlyShrink
  BY <1>2, <1>3 DEF DebtsOnlyShrink, NotGrown
<1>5. NotGrown(reserves[a], R) => NothingGrows BY <1>2, <1>3 DEF NothingGrows
<1> QED BY <1>4, <1>5

\* No reserve is written.
LEMMA NoReserveNotGrown ==
  ASSUME IInv, reserves' = reserves
  PROVE  NothingGrows
BY IInvParts, NotGrownItself DEF NothingGrows

\* deposit: no debt changes.
LEMMA DepositDebts ==
  ASSUME IInv, NEW caller \in Users, NEW a \in Assets, NEW x \in Amounts,
         NEW onBehalfOf \in Users, deposit(caller, a, x, onBehalfOf)
  PROVE  DebtsOnlyShrink
<1> DEFINE repriced == Repriced(a, Accrued(a, reserves[a]), x)
           token == MintScaled(repriced.aToken, onBehalfOf, x, repriced.liquidityIndex)
           R == WithSupply(repriced, token, repriced.cash + x)
<1>1. x \in Nat /\ onBehalfOf \in Accounts BY AmountsAreNumbers, MarketAssumption
<1>2. CanAccrue(a, reserves[a]) /\ CanReprice(a, Accrued(a, reserves[a]), x)
  BY DEF deposit
<1>3. reserves' = [reserves EXCEPT ![a] = R] BY DEF deposit, WithSupply
<1>4. now \in Nat /\ Sound(reserves[a], now) /\ TypeOK BY IInvParts
<1>5. Sound(repriced, now) /\ NotGrown(reserves[a], repriced)
  BY <1>2, <1>4, AccrualNotGrown DEF UpToDate
<1> HIDE DEF repriced
<1>6. token \in ScaledLedger BY <1>1, <1>4, <1>5, SoundFields, MintScaledType
<1> HIDE DEF token
<1>7. DebtsShrink(reserves[a], R) BY <1>4, <1>5, <1>6, SupplyNotGrown DEF NotGrown
<1> HIDE DEF R
<1> QED BY <1>3, <1>7, OneReserveNotGrown

\* withdraw: no debt changes, and a balance shrinks.
LEMMA WithdrawNotGrown ==
  ASSUME IInv, NEW caller \in Users, NEW a \in Assets, NEW x \in Amounts,
         NEW to \in Users, withdraw(caller, a, x, to)
  PROVE  NothingGrows
<1> DEFINE userBalance == ATokenBalanceOf(reserves[a], caller, now)
           withdrawn == IF x = MAX_UINT256 THEN userBalance ELSE x
           repriced == Repriced(a, Accrued(a, reserves[a]), -withdrawn)
           token == BurnScaled(repriced.aToken, caller, withdrawn, repriced.liquidityIndex)
           R == WithSupply(repriced, token, repriced.cash - withdrawn)
<1>1. caller \in Accounts BY MarketAssumption
<1>2. /\ CanAccrue(a, reserves[a])
      /\ CanReprice(a, Accrued(a, reserves[a]), -withdrawn)
      /\ CanBurnScaled(repriced.aToken, caller, withdrawn, repriced.liquidityIndex)
  BY DEF withdraw
<1>3. reserves' = [reserves EXCEPT ![a] = R] BY DEF withdraw, WithSupply
<1>4. now \in Nat /\ Sound(reserves[a], now) /\ TypeOK BY IInvParts
<1> HIDE DEF withdrawn
<1>5. Sound(repriced, now) /\ NotGrown(reserves[a], repriced)
  BY <1>2, <1>4, AccrualNotGrown DEF UpToDate
<1> HIDE DEF repriced
<1>6. /\ token \in ScaledLedger
      /\ \A u \in Accounts : token.balances[u] <= repriced.aToken.balances[u]
  BY <1>1, <1>2, <1>4, <1>5, SoundFields, BurnScaledType
<1> HIDE DEF token
<1>7. NotGrown(reserves[a], R) BY <1>4, <1>5, <1>6, SupplyNotGrown DEF NotGrown
<1> HIDE DEF R
<1> QED BY <1>3, <1>7, OneReserveNotGrown

\* transfer: no debt changes, and no claim in total.
LEMMA TransferNotGrown ==
  ASSUME IInv, NEW from \in Users, NEW a \in Assets, NEW to \in Users,
         NEW x \in Amounts, transfer(from, a, to, x)
  PROVE  NothingGrows
<1> DEFINE r     == reserves[a]
           index == getNormalizedIncome(r, now)
           token == MoveScaled(r.aToken, from, to, x, index)
           R     == [r EXCEPT !.aToken = token]
<1>1. /\ now \in Nat /\ Sound(r, now)
      /\ from \in Accounts /\ to \in Accounts /\ x \in Nat
  BY IInvParts, MarketAssumption, AmountsAreNumbers
<1>2. index \in Nat /\ RAY <= index BY <1>1, LiquidityIndexGrows
<1>3. CanMoveScaled(r.aToken, from, x, index) BY DEF transfer
<1>4. reserves' = [reserves EXCEPT ![a] = R] BY DEF transfer
<1>5. r \in Reserve /\ r.aToken \in ScaledLedger BY <1>1, SoundFields DEF Sound
<1>6. r = reserves[a] OBVIOUS
<1> HIDE DEF r, index
<1>7. token \in ScaledLedger BY <1>1, <1>2, <1>3, <1>5, MoveScaledType
<1>8. R = WithSupply(r, token, r.cash) BY <1>5 DEF WithSupply, Reserve
<1>9. NotGrown(r, r) BY <1>1, NotGrownItself
<1>10. DebtsShrink(r, R)
  <2> HIDE DEF token, R
  <2> QED BY <1>1, <1>7, <1>8, <1>9, SupplyNotGrown DEF NotGrown
<1>11. Treasury \notin Users => ClaimsShrink(r, R)
  BY <1>1, <1>2, <1>3, <1>5, MovedClaims
<1> HIDE DEF R
<1> QED BY <1>4, <1>6, <1>10, <1>11, OneReserveNotGrown DEF NotGrown

\* Burning a debt of the reserve that was just updated.
LEMMA BurnedNotGrown ==
  ASSUME TypeOK, NEW a \in Assets, NEW r, Sound(r, now), CanAccrue(a, r),
         NEW mode \in RateModes, NEW user \in Accounts, NEW amount \in Nat,
         CanBurnDebtOf(Accrued(a, r), mode, user, amount)
  PROVE  LET mid == BurnDebtOf(Accrued(a, r), mode, user, amount)
         IN /\ UpToDate(mid) /\ SameIncome(Accrued(a, r), mid)
            /\ mid.variableBorrowIndex = Accrued(a, r).variableBorrowIndex
            /\ mid.cash = r.cash
            /\ \A u \in Accounts :
                 /\ mid.variableDebt.balances[u] <= r.variableDebt.balances[u]
                 /\ StableDebtOf(mid, u, now) <= StableDebtOf(r, u, now)
<1> DEFINE accrued == Accrued(a, r)
           mid == BurnDebtOf(accrued, mode, user, amount)
<1>1. UpToDate(accrued) /\ SameDebts(r, accrued) /\ accrued.cash = r.cash BY AccruedUpToDate
<1>2. CanBurnDebtOf(accrued, mode, user, amount) OBVIOUS
<1> HIDE DEF accrued
<1>3. /\ UpToDate(mid) /\ SameIncome(accrued, mid)
      /\ mid.variableBorrowIndex = accrued.variableBorrowIndex
      /\ mid.cash = accrued.cash
  BY <1>1, <1>2, BurnDebtOfUpToDate
<1>4. \A u \in Accounts :
        /\ mid.variableDebt.balances[u] <= accrued.variableDebt.balances[u]
        /\ StableDebtOf(mid, u, now) <= StableDebtOf(accrued, u, now)
  BY <1>1, <1>2, BurnDebtOfShrinks DEF UpToDate
<1> HIDE DEF mid
<1>5. \A u \in Accounts :
        /\ mid.variableDebt.balances[u] <= r.variableDebt.balances[u]
        /\ StableDebtOf(mid, u, now) <= StableDebtOf(r, u, now)
  BY <1>1, <1>4 DEF SameDebts, StableDebtOf
<1> QED BY <1>1, <1>3, <1>5 DEF mid, accrued

\* repay: one debt shrinks.
LEMMA RepayNotGrown ==
  ASSUME IInv, NEW caller \in Users, NEW a \in Assets, NEW x \in Amounts,
         NEW mode \in RateModes, NEW onBehalfOf \in Users,
         repay(caller, a, x, mode, onBehalfOf)
  PROVE  NothingGrows
<1> DEFINE debt     == IF mode = "stable" THEN StableDebtOf(reserves[a], onBehalfOf, now)
                       ELSE VariableDebtOf(reserves[a], onBehalfOf, now)
           amount   == IF x < debt THEN x ELSE debt
           mid      == BurnDebtOf(Accrued(a, reserves[a]), mode, onBehalfOf, amount)
           repriced == Repriced(a, mid, amount)
           R        == WithCash(repriced, repriced.cash + amount)
<1>1. x \in Nat /\ onBehalfOf \in Accounts BY AmountsAreNumbers, MarketAssumption
<1>2. TypeOK /\ now \in Nat /\ Sound(reserves[a], now) BY IInvParts
<1>3. /\ CanAccrue(a, reserves[a])
      /\ CanBurnDebtOf(Accrued(a, reserves[a]), mode, onBehalfOf, amount)
      /\ CanReprice(a, mid, amount)
  BY DEF repay
<1>4. reserves' = [reserves EXCEPT ![a] = R] BY DEF repay, WithCash
<1>5. debt \in Nat BY <1>1, <1>2, DebtTypes
<1> HIDE DEF debt
<1>6. amount \in Nat BY <1>1, <1>5
<1> HIDE DEF amount
<1>7. /\ UpToDate(mid) /\ SameIncome(Accrued(a, reserves[a]), mid)
      /\ mid.variableBorrowIndex = Accrued(a, reserves[a]).variableBorrowIndex
      /\ \A u \in Accounts :
           /\ mid.variableDebt.balances[u] <= reserves[a].variableDebt.balances[u]
           /\ StableDebtOf(mid, u, now) <= StableDebtOf(reserves[a], u, now)
  BY <1>1, <1>2, <1>3, <1>6, BurnedNotGrown
<1> HIDE DEF mid
<1>8. UpToDate(repriced) /\ NotGrown(reserves[a], repriced)
  BY <1>2, <1>3, <1>7, OperationNotGrown
<1> HIDE DEF repriced
<1>9. NotGrown(reserves[a], R) BY <1>8, CashNotGrown DEF UpToDate, Sound
<1> HIDE DEF R
<1> QED BY <1>4, <1>9, OneReserveNotGrown

\* A stable debt burned in full and minted again is the same debt.
LEMMA RemintedStableDebt ==
  ASSUME NEW t \in Nat, NEW token, StableSound(token, t), NEW user \in Accounts,
         NEW amount, amount = StableBalanceOf(token, user, t), NEW rate
  PROVE  LET burned == BurnStable(token, user, amount, t)
             after  == MintStable(burned, user, amount, rate, t)
         IN \A u \in Accounts : StableBalanceOf(after, u, t) = StableBalanceOf(token, u, t)
<1> DEFINE burned == BurnStable(token, user, amount, t)
           after  == MintStable(burned, user, amount, rate, t)
<1>1. amount \in Nat BY StableBalanceType
<1>2. CanBurnStable(token, user, amount, t)
  <2>1. amount <= amount BY <1>1, SMT
  <2> QED BY <2>1 DEF CanBurnStable
<1>3. StableSound(burned, t) BY <1>1, <1>2, BurnStableSound
<1>4. /\ \A u \in Accounts \ {user} :
           StableBalanceOf(burned, u, t) = StableBalanceOf(token, u, t)
      /\ StableBalanceOf(burned, user, t) = StableBalanceOf(token, user, t) - amount
  BY <1>1, <1>2, BurnStableDebts
<1> HIDE DEF burned
<1>5. /\ \A u \in Accounts \ {user} :
           StableBalanceOf(after, u, t) = StableBalanceOf(burned, u, t)
      /\ StableBalanceOf(after, user, t) = StableBalanceOf(burned, user, t) + amount
  BY <1>1, <1>3, MintStableDebts
<1> HIDE DEF after
<1>6. StableBalanceOf(after, user, t) = StableBalanceOf(token, user, t)
  <2>1. (amount - amount) + amount = amount BY <1>1, SMT
  <2> QED BY <1>4, <1>5, <2>1
<1>7. \A u \in Accounts : StableBalanceOf(after, u, t) = StableBalanceOf(token, u, t)
  BY <1>4, <1>5, <1>6
<1> QED BY <1>7 DEF after, burned

\* rebalanceStableBorrowRate: the user owes what they owed, at another rate.
LEMMA RebalanceNotGrown ==
  ASSUME IInv, NEW user \in Users, NEW a \in Assets, rebalanceStableBorrowRate(a, user)
  PROVE  NothingGrows
<1> DEFINE r       == reserves[a]
           amount  == StableDebtOf(r, user, now)
           accrued == Accrued(a, r)
           burned  == BurnDebtOf(accrued, "stable", user, amount)
           mid     == MintDebt(burned, "stable", user, amount)
           R       == Repriced(a, mid, 0)
<1>1. user \in Accounts /\ "stable" \in RateModes BY MarketAssumption DEF RateModes
<1>2. TypeOK /\ now \in Nat /\ Sound(r, now) BY IInvParts
<1>3. /\ CanAccrue(a, r)
      /\ CanBurnDebtOf(accrued, "stable", user, amount)
      /\ CanMintDebt(burned, "stable", user, amount)
      /\ CanReprice(a, mid, 0)
      /\ reserves' = [reserves EXCEPT ![a] = R]
  BY DEF rebalanceStableBorrowRate
<1>4. amount \in Nat BY <1>1, <1>2, DebtTypes
<1>5. /\ UpToDate(accrued) /\ SameDebts(r, accrued)
      /\ accrued.stableDebt = r.stableDebt /\ accrued.variableDebt = r.variableDebt
  BY <1>2, <1>3, AccruedUpToDate DEF SameDebts
<1>6. amount = StableBalanceOf(accrued.stableDebt, user, now) BY <1>5 DEF StableDebtOf
<1>7. r = reserves[a] OBVIOUS
<1> HIDE DEF amount
<1>8. UpToDate(burned) /\ SameIncome(accrued, burned)
      /\ burned.variableBorrowIndex = accrued.variableBorrowIndex
  BY <1>1, <1>2, <1>3, <1>4, BurnedNotGrown
<1>9. /\ burned.stableDebt = BurnStable(accrued.stableDebt, user, amount, now)
      /\ burned.variableDebt = accrued.variableDebt
  <2> HIDE DEF accrued
  <2> QED BY <1>5 DEF BurnDebtOf, UpToDate, Sound, Reserve
<1> HIDE DEF accrued, burned
<1>10. /\ UpToDate(mid) /\ SameIncome(burned, mid)
       /\ mid.variableBorrowIndex = burned.variableBorrowIndex
  BY <1>1, <1>2, <1>3, <1>4, <1>8, MintDebtUpToDate
<1>11. /\ mid.stableDebt = MintStable(burned.stableDebt, user, amount,
                                      burned.currentStableBorrowRate, now)
       /\ mid.variableDebt = burned.variableDebt
  BY <1>8 DEF MintDebt, UpToDate, Sound, Reserve
<1> HIDE DEF mid
<1>12. \A u \in Accounts :
         StableBalanceOf(mid.stableDebt, u, now) = StableBalanceOf(r.stableDebt, u, now)
  <2>1. StableSound(r.stableDebt, now) BY <1>2, SoundFields
  <2> HIDE DEF r
  <2> QED BY <1>1, <1>2, <1>5, <1>6, <1>9, <1>11, <2>1, RemintedStableDebt
<1>13. NotGrown(r, r) BY <1>2, NotGrownItself
<1> HIDE DEF r
<1>14. \A u \in Accounts :
         /\ mid.variableDebt.balances[u] <= r.variableDebt.balances[u]
         /\ StableDebtOf(mid, u, now) <= StableDebtOf(r, u, now)
  BY <1>5, <1>9, <1>11, <1>12, <1>13 DEF NotGrown, DebtsShrink, StableDebtOf
<1>15. SameIncome(accrued, mid) /\ mid.variableBorrowIndex = accrued.variableBorrowIndex
  BY <1>8, <1>10 DEF SameIncome
<1>16. NotGrown(r, R)
  BY <1>2, <1>3, <1>10, <1>14, <1>15, OperationNotGrown DEF accrued
<1> HIDE DEF R
<1> QED BY <1>3, <1>7, <1>16, OneReserveNotGrown

\* One part of a transaction after another.
LEMMA NotGrownTwice ==
  ASSUME now \in Nat, NEW r1, Sound(r1, now), NEW r2, Sound(r2, now), NEW r3, Sound(r3, now),
         NotGrown(r1, r2), NotGrown(r2, r3)
  PROVE  NotGrown(r1, r3)
<1>1. \A u \in Accounts, r \in {r1, r2, r3} :
        /\ r.variableDebt.balances[u] \in Nat
        /\ VariableDebtOf(r, u, now) \in Nat
        /\ StableDebtOf(r, u, now) \in Nat
  BY DebtTypes
<1>2. \A i, j, k \in Nat : j <= i /\ k <= j => k <= i BY SMT
<1>3. DebtsShrink(r1, r3)
  BY <1>1, <1>2 DEF NotGrown, DebtsShrink
<1>4. \A r \in {r1, r2, r3} : ClaimsOn(r) \in Int
  BY SoundFields, ClaimsAreSums
<1>5. \A i, j, k \in Int : j <= i /\ k <= j => k <= i BY SMT
<1>6. (Treasury \notin Users) => ClaimsShrink(r1, r3)
  BY <1>4, <1>5 DEF NotGrown, ClaimsShrink
<1> QED BY <1>3, <1>6 DEF NotGrown

\* Taking the balance that was read at an index, at that index, leaves nothing.
LEMMA WholeBalance ==
  ASSUME NEW s \in Nat, NEW i \in Nat, RAY <= i
  PROVE  s - AmountScaled(rayMul(s, i), i) = 0
<1>1. AmountScaled(rayMul(s, i), i) = s BY ScaledRoundTrip DEF AmountScaled
<1> QED BY <1>1, SMT

\* The collateral side of a liquidation: no debt changes and no claim in total;
\* and when all that the user can claim is seized, nothing is left, unless it is
\* moved from the user to the user.
LEMMA SeizedNotGrown ==
  ASSUME TypeOK, NEW rs \in [Assets -> Reserve], \A b \in Assets : Sound(rs[b], now),
         NEW coll \in Assets, NEW user \in Users, NEW liquidator \in Users,
         NEW amount \in Nat, NEW receiveAToken \in BOOLEAN,
         CanSeize(rs, coll, user, amount, receiveAToken)
  PROVE  LET after == Seized(rs, coll, user, liquidator, amount, receiveAToken)
         IN /\ \A b \in Assets : NotGrown(rs[b], after[b])
            /\ (Treasury \notin Users /\ amount = ATokenBalanceOf(rs[coll], user, now))
               => \/ after[coll].aToken.balances[user] = 0
                  \/ /\ liquidator = user
                     /\ after[coll].aToken.balances[user] = rs[coll].aToken.balances[user]
<1> DEFINE r == rs[coll]
           index == getNormalizedIncome(r, now)
           moved == MoveScaled(r.aToken, user, liquidator, amount, index)
           accrued == Accrued(coll, r)
           s == Repriced(coll, accrued, -amount)
           burned == BurnScaled(s.aToken, user, amount, s.liquidityIndex)
           R == IF receiveAToken THEN [r EXCEPT !.aToken = moved]
                ELSE WithSupply(s, burned, s.cash - amount)
           balance == r.aToken.balances[user]
           Emptied == \/ R.aToken.balances[user] = 0
                      \/ liquidator = user /\ R.aToken.balances[user] = balance
<1>1. /\ now \in Nat /\ Sound(r, now) /\ user \in Accounts /\ liquidator \in Accounts
      /\ r \in Reserve /\ r.aToken \in ScaledLedger /\ balance \in Nat
  BY MarketAssumption, SoundFields, LedgerFields DEF TypeOK, Sound
<1>2. index \in Nat /\ RAY <= index BY <1>1, LiquidityIndexGrows
<1>3. balance - AmountScaled(rayMul(balance, index), index) = 0 BY <1>1, <1>2, WholeBalance
<1>4. ATokenBalanceOf(rs[coll], user, now) = rayMul(balance, index)
  BY DEF ATokenBalanceOf, ScaledBalanceOf
<1>5. CASE receiveAToken
  <2>1. CanMoveScaled(r.aToken, user, amount, index) BY <1>5 DEF CanSeize
  <2>2. Seized(rs, coll, user, liquidator, amount, receiveAToken) = [rs EXCEPT ![coll] = R]
    BY <1>5 DEF Seized
  <2> HIDE DEF r, index
  <2>3. /\ moved \in ScaledLedger
        /\ user = liquidator => moved.balances = r.aToken.balances
        /\ user # liquidator => moved.balances[user] = balance - AmountScaled(amount, index)
    BY <1>1, <1>2, <2>1, MoveScaledType, MovedBalances
  <2>4. Treasury \notin Users => ClaimsShrink(r, R)
    BY <1>1, <1>2, <1>5, <2>1, MovedClaims
  <2> HIDE DEF moved
  <2>5. R = WithSupply(r, moved, r.cash) /\ R.aToken = moved
    BY <1>1, <1>5 DEF WithSupply, Reserve
  <2>6. NotGrown(r, r) BY <1>1, NotGrownItself
  <2> HIDE DEF R
  <2>7. DebtsShrink(r, R) BY <1>1, <2>3, <2>5, <2>6, SupplyNotGrown DEF NotGrown
  <2>8. amount = rayMul(balance, index) => Emptied BY <1>3, <2>3, <2>5
  <2> HIDE DEF Emptied
  <2>9. NotGrown(r, R) /\ (amount = rayMul(balance, index) => Emptied)
    BY <2>4, <2>7, <2>8 DEF NotGrown
  <2>10. /\ [rs EXCEPT ![coll] = R][coll] = R
         /\ \A b \in Assets \ {coll} : [rs EXCEPT ![coll] = R][b] = rs[b]
    OBVIOUS
  <2>11. \A b \in Assets : NotGrown(rs[b], rs[b]) BY <1>1, NotGrownItself
  <2> QED BY <1>4, <2>2, <2>9, <2>10, <2>11 DEF Emptied, r
<1>6. CASE ~receiveAToken
  <2>1. /\ CanAccrue(coll, r)
        /\ CanReprice(coll, accrued, -amount)
        /\ CanBurnScaled(s.aToken, user, amount, s.liquidityIndex)
    BY <1>6 DEF CanSeize, RepricedCollateral
  <2>2. Seized(rs, coll, user, liquidator, amount, receiveAToken) = [rs EXCEPT ![coll] = R]
    BY <1>6 DEF Seized, RepricedCollateral, WithSupply
  <2>3. /\ accrued.liquidityIndex = index
        /\ \A u \in Accounts \ {Treasury} : accrued.aToken.balances[u] = r.aToken.balances[u]
    BY <1>1, <2>1, AccruedUpToDate
  <2> HIDE DEF r, index
  <2>4. UpToDate(s) /\ SameIncome(accrued, s) /\ NotGrown(r, s)
    BY <1>1, <2>1, AccrualNotGrown
  <2> HIDE DEF accrued, s
  <2>5. s \in Reserve /\ s.aToken \in ScaledLedger /\ Sound(s, now)
    BY <1>1, <2>4, SoundFields DEF UpToDate, Sound
  <2>6. /\ burned \in ScaledLedger
        /\ \A u \in Accounts : burned.balances[u] <= s.aToken.balances[u]
    BY <1>1, <2>1, <2>5, BurnScaledType
  <2>7. burned.balances[user]
          = s.aToken.balances[user] - AmountScaled(amount, s.liquidityIndex)
    BY <1>1, <2>5, LedgerFields DEF BurnScaled
  <2>8. s.liquidityIndex = index BY <2>3, <2>4 DEF SameIncome
  <2>9. Treasury \notin Users => s.aToken.balances[user] = balance
    BY <1>1, <2>3, <2>4 DEF SameIncome
  <2> HIDE DEF burned
  <2>10. R = WithSupply(s, burned, s.cash - amount) /\ R.aToken = burned
    BY <1>6, <2>5, SupplyUpToDate
  <2> HIDE DEF R
  <2>11. NotGrown(r, R) BY <1>1, <2>4, <2>5, <2>6, <2>10, SupplyNotGrown DEF NotGrown
  <2>12. (Treasury \notin Users /\ amount = rayMul(balance, index)) => Emptied
    BY <1>3, <2>7, <2>8, <2>9, <2>10
  <2> HIDE DEF Emptied
  <2>13. /\ [rs EXCEPT ![coll] = R][coll] = R
         /\ \A b \in Assets \ {coll} : [rs EXCEPT ![coll] = R][b] = rs[b]
    OBVIOUS
  <2>14. \A b \in Assets : NotGrown(rs[b], rs[b]) BY <1>1, NotGrownItself
  <2> QED BY <1>4, <2>2, <2>11, <2>12, <2>13, <2>14 DEF Emptied, r
<1> QED BY <1>5, <1>6

\* liquidationCall: the debt shrinks, no claim grows in total, and whoever is
\* stripped of all collateral in an asset has none left.
LEMMA LiquidationNotGrown ==
  ASSUME IInv, NEW liquidator \in Users, NEW coll \in Assets, NEW debt \in Assets,
         NEW user \in Users, NEW x \in Amounts, NEW receiveAToken \in BOOLEAN,
         liquidationCall(liquidator, coll, debt, user, x, receiveAToken)
  PROVE  /\ NothingGrows
         /\ (Treasury \notin Users
             /\ Liquidated(coll, debt, user, x).collateral
                  = ATokenBalanceOf(reserves[coll], user, now))
            => \/ reserves'[coll].aToken.balances[user] = 0
               \/ /\ liquidator = user
                  /\ reserves'[coll].aToken.balances[user]
                       = reserves[coll].aToken.balances[user]
<1> DEFINE variableOwed == VariableDebtOf(reserves[debt], user, now)
           amounts  == Liquidated(coll, debt, user, x)
           paid     == amounts.debt
           taken    == amounts.collateral
           accrued  == Accrued(debt, reserves[debt])
           burned   == BurnDebt(accrued, user, variableOwed, paid)
           repriced == Repriced(debt, burned, paid)
           rs       == [reserves EXCEPT ![debt] = repriced]
           seized   == Seized(rs, coll, user, liquidator, taken, receiveAToken)
           final    == WithCash(seized[debt], seized[debt].cash + paid)
           whole    == ATokenBalanceOf(reserves[coll], user, now)
<1>1. x \in Nat /\ liquidator \in Accounts /\ user \in Accounts
  BY AmountsAreNumbers, MarketAssumption
<1>2. /\ coll \in CollateralAssets(user)
      /\ CanAccrue(debt, reserves[debt])
      /\ CanBurnDebt(accrued, user, variableOwed, paid)
      /\ CanReprice(debt, burned, paid)
      /\ CanSeize(rs, coll, user, taken, receiveAToken)
  BY DEF liquidationCall, validateLiquidationCall
<1>3. reserves' = [seized EXCEPT ![debt] = final] BY DEF liquidationCall, WithCash
<1>4. paid \in Nat /\ taken \in Nat BY <1>1, <1>2, LiquidatedType
<1>5. variableOwed \in Nat BY <1>1, IInvParts, DebtTypes
<1>6. /\ reserves \in [Assets -> Reserve] /\ TypeOK /\ now \in Nat
      /\ \A b \in Assets : Sound(reserves[b], now)
  BY IInvParts DEF TypeOK
<1>7. /\ UpToDate(accrued) /\ SameDebts(reserves[debt], accrued)
      /\ accrued.liquidityIndex = getNormalizedIncome(reserves[debt], now)
      /\ \A u \in Accounts \ {Treasury} :
           accrued.aToken.balances[u] = reserves[debt].aToken.balances[u]
  BY <1>2, <1>6, AccruedUpToDate
<1> HIDE DEF variableOwed, amounts
<1>8. /\ UpToDate(burned) /\ SameIncome(accrued, burned)
      /\ burned.variableBorrowIndex = accrued.variableBorrowIndex
  <2> HIDE DEF accrued
  <2> QED BY <1>1, <1>2, <1>4, <1>5, <1>6, <1>7, BurnDebtUpToDate
<1>9. \A u \in Accounts :
        /\ burned.variableDebt.balances[u] <= reserves[debt].variableDebt.balances[u]
        /\ StableDebtOf(burned, u, now) <= StableDebtOf(reserves[debt], u, now)
  <2> HIDE DEF accrued
  <2>1. \A u \in Accounts :
          /\ burned.variableDebt.balances[u] <= accrued.variableDebt.balances[u]
          /\ StableDebtOf(burned, u, now) <= StableDebtOf(accrued, u, now)
    BY <1>1, <1>2, <1>4, <1>5, <1>6, <1>7, BurnDebtShrinks DEF UpToDate
  <2> HIDE DEF burned
  <2> QED BY <1>7, <2>1 DEF SameDebts, StableDebtOf
<1> HIDE DEF burned
<1>10. UpToDate(repriced) /\ SameIncome(accrued, repriced) /\ NotGrown(reserves[debt], repriced)
  BY <1>2, <1>6, <1>8, <1>9, OperationNotGrown
<1> HIDE DEF accrued, repriced
<1>11. /\ rs \in [Assets -> Reserve] /\ rs[debt] = repriced
       /\ \A b \in Assets \ {debt} : rs[b] = reserves[b]
  BY <1>6, <1>10 DEF UpToDate, Sound
<1> HIDE DEF rs
<1>12. \A b \in Assets : Sound(rs[b], now) /\ NotGrown(reserves[b], rs[b])
  <2> TAKE b \in Assets
  <2>1. CASE b = debt BY <1>10, <1>11, <2>1 DEF UpToDate
  <2>2. CASE b # debt BY <1>6, <1>11, <2>2, NotGrownItself
  <2> QED BY <2>1, <2>2
<1>13. Treasury \notin Users => /\ rs[coll].aToken.balances[user]
                                     = reserves[coll].aToken.balances[user]
                                /\ ATokenBalanceOf(rs[coll], user, now) = whole
  <2>1. CASE coll = debt
    <3>1. getNormalizedIncome(repriced, now) = getNormalizedIncome(reserves[debt], now)
      BY <1>7, <1>10, UpToDateIndexes DEF UpToDate, SameIncome
    <3>2. Treasury \notin Users => repriced.aToken.balances[user]
                                     = reserves[debt].aToken.balances[user]
      BY <1>1, <1>7, <1>10 DEF SameIncome
    <3> QED BY <1>11, <2>1, <3>1, <3>2 DEF ATokenBalanceOf, ScaledBalanceOf
  <2>2. CASE coll # debt BY <1>11, <2>2
  <2> QED BY <2>1, <2>2
<1>14. /\ seized \in [Assets -> Reserve]
       /\ \A b \in Assets : Sound(seized[b], now) /\ NotGrown(rs[b], seized[b])
       /\ (Treasury \notin Users /\ taken = ATokenBalanceOf(rs[coll], user, now))
          => \/ seized[coll].aToken.balances[user] = 0
             \/ /\ liquidator = user
                /\ seized[coll].aToken.balances[user] = rs[coll].aToken.balances[user]
  <2> HIDE DEF taken
  <2>1. seized \in [Assets -> Reserve] /\ \A b \in Assets : Supplied(rs[b], seized[b])
    BY <1>1, <1>2, <1>4, <1>6, <1>11, <1>12, SeizedSupply
  <2>2. \A b \in Assets : Sound(seized[b], now) BY <2>1 DEF Supplied
  <2>3. /\ \A b \in Assets : NotGrown(rs[b], seized[b])
        /\ (Treasury \notin Users /\ taken = ATokenBalanceOf(rs[coll], user, now))
           => \/ seized[coll].aToken.balances[user] = 0
              \/ /\ liquidator = user
                 /\ seized[coll].aToken.balances[user] = rs[coll].aToken.balances[user]
    BY <1>2, <1>4, <1>6, <1>11, <1>12, SeizedNotGrown
  <2> QED BY <2>1, <2>2, <2>3
<1> HIDE DEF seized, whole
<1>15. \A b \in Assets : NotGrown(reserves[b], seized[b])
  BY <1>6, <1>12, <1>14, NotGrownTwice
<1>16. NotGrown(reserves[debt], final) BY <1>14, <1>15, CashNotGrown
<1>17. final.aToken = seized[debt].aToken BY <1>14 DEF WithCash, Reserve
<1> HIDE DEF final
<1>18. /\ reserves'[debt] = final
       /\ \A b \in Assets \ {debt} : reserves'[b] = seized[b]
  BY <1>3, <1>14
<1>19. NothingGrows BY <1>15, <1>16, <1>18 DEF NothingGrows
<1>20. reserves'[coll].aToken = seized[coll].aToken
  <2>1. CASE coll = debt BY <1>17, <1>18, <2>1
  <2>2. CASE coll # debt BY <1>18, <2>2
  <2> QED BY <2>1, <2>2
<1>21. (Treasury \notin Users /\ taken = whole)
       => \/ reserves'[coll].aToken.balances[user] = 0
          \/ /\ liquidator = user
             /\ reserves'[coll].aToken.balances[user] = reserves[coll].aToken.balances[user]
  BY <1>13, <1>14, <1>20
<1> QED BY <1>19, <1>21 DEF whole, amounts


(***************************************************************************)
(* Frozen reserves.                                                        *)
(***************************************************************************)

\* What FrozenOnlyShrinks asks of a step.
FrozenShrinks ==
  \A a \in Assets : configuration[a].frozen =>
    /\ ClaimsOn(reserves'[a]) <= ClaimsOn(reserves[a])
    /\ \A u \in Accounts :
         /\ reserves'[a].variableDebt.balances[u] <= reserves[a].variableDebt.balances[u]
         /\ now' = now => StableDebtOf(reserves[a], u, now)' <= StableDebtOf(reserves[a], u, now)

\* A reserve in which nothing grows, in a step that takes no time.
LEMMA FrozenReserve ==
  ASSUME NEW a \in Assets, NotGrown(reserves[a], reserves'[a]), Treasury \notin Users
  PROVE  /\ ClaimsOn(reserves'[a]) <= ClaimsOn(reserves[a])
         /\ \A u \in Accounts :
              /\ reserves'[a].variableDebt.balances[u] <= reserves[a].variableDebt.balances[u]
              /\ now' = now =>
                   StableDebtOf(reserves[a], u, now)' <= StableDebtOf(reserves[a], u, now)
<1>1. ClaimsOn(reserves'[a]) <= ClaimsOn(reserves[a]) BY DEF NotGrown, ClaimsShrink
<1>2. \A u \in Accounts :
        /\ reserves'[a].variableDebt.balances[u] <= reserves[a].variableDebt.balances[u]
        /\ StableDebtOf(reserves'[a], u, now) <= StableDebtOf(reserves[a], u, now)
  BY DEF NotGrown, DebtsShrink
<1>3. ASSUME now' = now, NEW u \in Accounts
      PROVE  StableDebtOf(reserves[a], u, now)' = StableDebtOf(reserves'[a], u, now)
  BY <1>3
<1> QED BY <1>1, <1>2, <1>3

\* A step in which nothing grows at all.
LEMMA NothingGrowsWhenFrozen ==
  ASSUME NothingGrows, Treasury \notin Users
  PROVE  FrozenShrinks
BY FrozenReserve DEF FrozenShrinks, NothingGrows

\* A step that writes one reserve, which is not frozen.
LEMMA OthersWhenFrozen ==
  ASSUME IInv, NEW a \in Assets, NEW R, reserves' = [reserves EXCEPT ![a] = R],
         ~configuration[a].frozen, Treasury \notin Users
  PROVE  FrozenShrinks
<1> SUFFICES ASSUME NEW b \in Assets, configuration[b].frozen
             PROVE  NotGrown(reserves[b], reserves'[b])
  BY FrozenReserve DEF FrozenShrinks
<1>1. b # a OBVIOUS
<1>2. reserves \in [Assets -> Reserve] BY IInvParts DEF TypeOK
<1>3. reserves'[b] = reserves[b] BY <1>1, <1>2
<1>4. Sound(reserves[b], now) /\ now \in Nat BY IInvParts
<1> QED BY <1>3, <1>4, NotGrownItself

\* No operation of the pool gives anybody but the treasury more claims or debts in
\* a frozen reserve.
LEMMA EveryStepWhenFrozen ==
  ASSUME IInv, [Next]_vars, Treasury \notin Users
  PROVE  FrozenShrinks
<1>1. CASE Supply
  <2>1. PICK u \in Users, v \in Users, a \in Assets, x \in Amounts :
          deposit(u, a, x, v) \/ withdraw(u, a, x, v) \/ transfer(u, a, v, x)
    BY <1>1 DEF Supply
  <2>2. CASE deposit(u, a, x, v)
    <3>1. \E R : reserves' = [reserves EXCEPT ![a] = R] BY <2>2 DEF deposit
    <3>2. ~configuration[a].frozen BY <2>2 DEF deposit, validateDeposit
    <3> QED BY <3>1, <3>2, OthersWhenFrozen
  <2>3. CASE withdraw(u, a, x, v) BY <2>3, WithdrawNotGrown, NothingGrowsWhenFrozen
  <2>4. CASE transfer(u, a, v, x) BY <2>4, TransferNotGrown, NothingGrowsWhenFrozen
  <2> QED BY <2>1, <2>2, <2>3, <2>4
<1>2. CASE Loan
  <2>1. PICK u \in Users, v \in Users, a \in Assets, m \in RateModes, x \in Amounts :
          borrow(u, a, x, m, v) \/ repay(u, a, x, m, v)
    BY <1>2 DEF Loan
  <2>2. CASE borrow(u, a, x, m, v)
    <3>1. \E R : reserves' = [reserves EXCEPT ![a] = R] BY <2>2 DEF borrow
    <3>2. ~configuration[a].frozen BY <2>2 DEF borrow, validateBorrow
    <3> QED BY <3>1, <3>2, OthersWhenFrozen
  <2>3. CASE repay(u, a, x, m, v) BY <2>3, RepayNotGrown, NothingGrowsWhenFrozen
  <2> QED BY <2>1, <2>2, <2>3
<1>3. CASE StableSwitch
  <2>1. PICK u \in Users, a \in Assets :
          \/ \E m \in RateModes : swapBorrowRateMode(u, a, m)
          \/ rebalanceStableBorrowRate(a, u)
    BY <1>3 DEF StableSwitch
  <2>2. CASE \E m \in RateModes : swapBorrowRateMode(u, a, m)
    <3>1. PICK m \in RateModes : swapBorrowRateMode(u, a, m) BY <2>2
    <3>2. \E R : reserves' = [reserves EXCEPT ![a] = R] BY <3>1 DEF swapBorrowRateMode
    <3>3. ~configuration[a].frozen BY <3>1 DEF swapBorrowRateMode, validateSwapRateMode
    <3> QED BY <3>2, <3>3, OthersWhenFrozen
  <2>3. CASE rebalanceStableBorrowRate(a, u)
    BY <2>3, RebalanceNotGrown, NothingGrowsWhenFrozen
  <2> QED BY <2>1, <2>2, <2>3
<1>4. CASE Liquidation
  <2>1. PICK l \in Users, u \in Users, c \in Assets, d \in Assets, x \in Amounts,
             receive \in BOOLEAN : liquidationCall(l, c, d, u, x, receive)
    BY <1>4 DEF Liquidation
  <2>2. NothingGrows BY <2>1, LiquidationNotGrown
  <2> QED BY <2>2, NothingGrowsWhenFrozen
<1>5. CASE \/ CollateralSwitch \/ Delegation \/ Configuration \/ PriceChange
           \/ NextBlock \/ UNCHANGED vars
  <2>1. reserves' = reserves
    BY <1>5 DEF CollateralSwitch, setUserUseReserveAsCollateral, Delegation,
                approveDelegation, Configuration, setConfiguration, setPause,
                PriceChange, PriceMove, NextBlock, vars, poolVars
  <2> QED BY <2>1, NoReserveNotGrown, NothingGrowsWhenFrozen
<1> QED BY <1>1, <1>2, <1>3, <1>4, <1>5 DEF Next

\* "A frozen reserve doesn't allow any new deposit, borrow or rate swap but allows
\* repayments, liquidations, rate rebalances and withdrawals": whatever is
\* called, nobody's claims or debts grow in it, as long as the treasury's own
\* aTokens, which updateState keeps minting, are not moved to others.
THEOREM FrozenOnlyShrinksHolds ==
  ASSUME Treasury \notin Users
  PROVE  Spec => FrozenOnlyShrinks
<1>1. IInv /\ [Next]_vars =>
        [\A a \in Assets : configuration[a].frozen =>
           /\ ClaimsOn(reserves'[a]) <= ClaimsOn(reserves[a])
           /\ \A u \in Accounts :
                /\ reserves'[a].variableDebt.balances[u] <= reserves[a].variableDebt.balances[u]
                /\ now' = now =>
                     StableDebtOf(reserves[a], u, now)' <= StableDebtOf(reserves[a], u, now)]_vars
  BY EveryStepWhenFrozen DEF FrozenShrinks
<1> QED BY <1>1, IInvHolds, PTL DEF Spec, FrozenOnlyShrinks

(***************************************************************************)
(* Debts in somebody's name.                                               *)
(***************************************************************************)

\* What DelegatedDebtIsAllowed asks of a step that takes no time.
DebtIsAllowed ==
  \A a \in Assets, m \in RateModes, u, v \in Accounts :
    LET received == wallet'[a][v] - wallet[a][v]
    IN (u # v /\ received > 0 /\ DebtIn(m, reserves[a], u)' > DebtIn(m, reserves[a], u))
       => borrowAllowance'[a][m][u][v] = borrowAllowance[a][m][u][v] - received

\* Between two states of a block, debts are numbers read at the same time.
LEMMA DebtInTypes ==
  ASSUME IInv, IInv', now' = now, NEW m \in RateModes, NEW a \in Assets, NEW u \in Accounts
  PROVE  /\ DebtIn(m, reserves[a], u) \in Nat
         /\ DebtIn(m, reserves[a], u)' \in Nat
         /\ DebtIn(m, reserves[a], u)' = DebtIn(m, reserves'[a], u)
<1>1. now \in Nat /\ Sound(reserves[a], now) BY IInvParts
<1>2. Sound(reserves'[a], now) BY DEF IInv
<1>3. DebtIn(m, reserves[a], u) \in Nat BY <1>1, DebtTypes DEF DebtIn
<1>4. DebtIn(m, reserves'[a], u) \in Nat BY <1>1, <1>2, DebtTypes DEF DebtIn
<1>5. DebtIn(m, reserves[a], u)' = DebtIn(m, reserves'[a], u) BY DEF DebtIn
<1> QED BY <1>3, <1>4, <1>5

\* Where no debt grows, none has to be allowed.
LEMMA NoNewDebt ==
  ASSUME IInv, IInv', now' = now, DebtsOnlyShrink
  PROVE  DebtIsAllowed
<1>1. SUFFICES ASSUME NEW a \in Assets, NEW m \in RateModes, NEW u \in Accounts,
                      DebtIn(m, reserves[a], u)' > DebtIn(m, reserves[a], u)
               PROVE  FALSE
  BY DEF DebtIsAllowed
<1>2. DebtIn(m, reserves'[a], u) <= DebtIn(m, reserves[a], u)
  BY DEF DebtsOnlyShrink, DebtsShrink, DebtIn
<1> QED BY <1>1, <1>2, DebtInTypes, SMT

\* Nor where nobody receives anything.
LEMMA NobodyReceives ==
  ASSUME IInv, wallet' = wallet
  PROVE  DebtIsAllowed
<1>1. \A a \in Assets, v \in Accounts : wallet[a][v] \in Nat BY IInvParts, HeldType
<1>2. \A i \in Nat : ~(i - i > 0) BY SMT
<1> QED BY <1>1, <1>2 DEF DebtIsAllowed

\* Minting debt: nobody else's grows, nor the user's own in the other mode.
LEMMA MintDebtOthers ==
  ASSUME TypeOK, NEW r, Sound(r, now), NEW mode \in RateModes, NEW user \in Accounts,
         NEW amount \in Nat
  PROVE  LET after == MintDebt(r, mode, user, amount)
         IN \A u \in Accounts :
              /\ (u # user \/ mode = "stable") =>
                   after.variableDebt.balances[u] = r.variableDebt.balances[u]
              /\ (u # user \/ mode # "stable") =>
                   StableDebtOf(after, u, now) = StableDebtOf(r, u, now)
<1>1. /\ now \in Nat /\ r \in Reserve /\ r.variableDebt \in ScaledLedger
      /\ StableSound(r.stableDebt, now)
  BY SoundFields DEF TypeOK, Sound
<1>2. CASE mode = "stable"
  <2> DEFINE token == MintStable(r.stableDebt, user, amount, r.currentStableBorrowRate, now)
  <2>1. \A u \in Accounts \ {user} :
          StableBalanceOf(token, u, now) = StableBalanceOf(r.stableDebt, u, now)
    BY <1>1, MintStableDebts
  <2> HIDE DEF token
  <2>2. /\ MintDebt(r, mode, user, amount).variableDebt = r.variableDebt
        /\ MintDebt(r, mode, user, amount).stableDebt = token
    BY <1>1, <1>2 DEF MintDebt, Reserve, token
  <2> QED BY <1>2, <2>1, <2>2 DEF StableDebtOf
<1>3. CASE mode # "stable"
  <2> DEFINE token == MintScaled(r.variableDebt, user, amount, r.variableBorrowIndex)
  <2>1. \A u \in Accounts \ {user} : token.balances[u] = r.variableDebt.balances[u]
    BY <1>1, LedgerFields DEF MintScaled
  <2> HIDE DEF token
  <2>2. /\ MintDebt(r, mode, user, amount).variableDebt = token
        /\ MintDebt(r, mode, user, amount).stableDebt = r.stableDebt
    BY <1>1, <1>3 DEF MintDebt, Reserve, token
  <2> QED BY <1>3, <2>1, <2>2 DEF StableDebtOf
<1> QED BY <1>2, <1>3

\* The same scaled debt, or less, under an index that is not ahead.
LEMMA VariableDebtAtMost ==
  ASSUME now \in Nat, NEW r1, Sound(r1, now), NEW r2, Sound(r2, now), NEW u \in Accounts,
         getNormalizedDebt(r2, now) <= getNormalizedDebt(r1, now),
         r2.variableDebt.balances[u] <= r1.variableDebt.balances[u]
  PROVE  VariableDebtOf(r2, u, now) <= VariableDebtOf(r1, u, now)
<1>1. /\ getNormalizedDebt(r2, now) \in Nat /\ getNormalizedDebt(r1, now) \in Nat
      /\ r2.variableDebt.balances[u] \in Nat /\ r1.variableDebt.balances[u] \in Nat
  BY VariableBorrowIndexGrows, DebtTypes
<1> QED BY <1>1, RayMulMonotone DEF VariableDebtOf, ScaledBalanceOf

\* borrow: the only debt that grows is onBehalfOf's in this mode.
LEMMA BorrowedDebt ==
  ASSUME IInv, NEW caller \in Users, NEW a \in Assets, NEW x \in Amounts,
         NEW mode \in RateModes, NEW onBehalfOf \in Users,
         borrow(caller, a, x, mode, onBehalfOf)
  PROVE  \A b \in Assets, m \in RateModes, u \in Accounts :
           \/ DebtIn(m, reserves'[b], u) <= DebtIn(m, reserves[b], u)
           \/ b = a /\ m = mode /\ u = onBehalfOf
<1> DEFINE r        == reserves[a]
           accrued  == Accrued(a, r)
           minted   == MintDebt(accrued, mode, onBehalfOf, x)
           repriced == Repriced(a, minted, -x)
           R        == WithCash(repriced, repriced.cash - x)
<1>1. x \in Nat /\ onBehalfOf \in Accounts BY AmountsAreNumbers, MarketAssumption
<1>2. /\ CanAccrue(a, r)
      /\ CanMintDebt(accrued, mode, onBehalfOf, x)
      /\ CanReprice(a, minted, -x)
  BY DEF borrow
<1>3. reserves' = [reserves EXCEPT ![a] = R] BY DEF borrow, WithCash
<1>4. /\ reserves \in [Assets -> Reserve] /\ TypeOK /\ now \in Nat
      /\ \A b \in Assets : Sound(reserves[b], now)
  BY IInvParts DEF TypeOK
<1>5. Sound(r, now) /\ r = reserves[a] BY <1>4
<1> HIDE DEF r
<1>6. /\ UpToDate(accrued) /\ SameDebts(r, accrued)
      /\ accrued.variableBorrowIndex <= getNormalizedDebt(r, now)
  BY <1>2, <1>4, <1>5, AccruedUpToDate
<1> HIDE DEF accrued
<1>7. /\ UpToDate(minted) /\ minted.variableBorrowIndex = accrued.variableBorrowIndex
      /\ \A u \in Accounts :
           /\ (u # onBehalfOf \/ mode = "stable") =>
                minted.variableDebt.balances[u] = r.variableDebt.balances[u]
           /\ (u # onBehalfOf \/ mode # "stable") =>
                StableDebtOf(minted, u, now) = StableDebtOf(r, u, now)
  <2>1. /\ UpToDate(minted)
        /\ minted.variableBorrowIndex = accrued.variableBorrowIndex
    BY <1>1, <1>2, <1>4, <1>6, MintDebtUpToDate
  <2>2. \A u \in Accounts :
          /\ (u # onBehalfOf \/ mode = "stable") =>
               minted.variableDebt.balances[u] = accrued.variableDebt.balances[u]
          /\ (u # onBehalfOf \/ mode # "stable") =>
               StableDebtOf(minted, u, now) = StableDebtOf(accrued, u, now)
    BY <1>1, <1>4, <1>6, MintDebtOthers DEF UpToDate
  <2> HIDE DEF minted
  <2> QED BY <1>6, <2>1, <2>2 DEF SameDebts, StableDebtOf
<1> HIDE DEF minted
<1>8. /\ UpToDate(repriced) /\ SameDebts(minted, repriced)
      /\ repriced.variableBorrowIndex = minted.variableBorrowIndex
  BY <1>2, <1>4, <1>7, RepricedUpToDate
<1> HIDE DEF repriced
<1>9. repriced \in Reserve BY <1>8 DEF UpToDate, Sound
<1>10. /\ R.variableDebt = repriced.variableDebt /\ R.stableDebt = repriced.stableDebt
       /\ R.variableBorrowIndex = repriced.variableBorrowIndex
       /\ R.lastUpdateTimestamp = repriced.lastUpdateTimestamp
  BY <1>9 DEF WithCash, Reserve
<1> HIDE DEF R
<1>11. getNormalizedDebt(R, now) = repriced.variableBorrowIndex
  BY <1>8, <1>10, UpToDateIndexes DEF UpToDate
<1>12. getNormalizedDebt(repriced, now) = repriced.variableBorrowIndex
  BY <1>8, UpToDateIndexes DEF UpToDate
<1>13. getNormalizedDebt(repriced, now) <= getNormalizedDebt(r, now)
  BY <1>6, <1>7, <1>8, <1>12
<1>14. \A u \in Accounts :
         /\ (u # onBehalfOf \/ mode = "stable") =>
              VariableDebtOf(R, u, now) <= VariableDebtOf(r, u, now)
         /\ (u # onBehalfOf \/ mode # "stable") =>
              StableDebtOf(R, u, now) <= StableDebtOf(r, u, now)
  <2> TAKE u \in Accounts
  <2>1. VariableDebtOf(R, u, now) = VariableDebtOf(repriced, u, now)
    BY <1>10, <1>11, <1>12 DEF VariableDebtOf
  <2>2. ASSUME u # onBehalfOf \/ mode = "stable"
        PROVE  VariableDebtOf(R, u, now) <= VariableDebtOf(r, u, now)
    <3>1. repriced.variableDebt.balances[u] = r.variableDebt.balances[u]
      BY <1>7, <1>8, <2>2 DEF SameDebts
    <3>2. r.variableDebt.balances[u] \in Nat BY <1>4, <1>5, DebtTypes
    <3>3. repriced.variableDebt.balances[u] <= r.variableDebt.balances[u]
      BY <3>1, <3>2, SMT
    <3> QED BY <1>4, <1>5, <1>8, <1>13, <2>1, <3>3, VariableDebtAtMost DEF UpToDate
  <2>3. ASSUME u # onBehalfOf \/ mode # "stable"
        PROVE  StableDebtOf(R, u, now) <= StableDebtOf(r, u, now)
    <3>1. StableDebtOf(R, u, now) = StableDebtOf(r, u, now)
      BY <1>7, <1>8, <1>10, <2>3 DEF SameDebts, StableDebtOf
    <3>2. StableDebtOf(r, u, now) \in Nat BY <1>4, <1>5, DebtTypes
    <3> QED BY <3>1, <3>2, SMT
  <2> QED BY <2>2, <2>3
<1>15. TAKE b \in Assets, m \in RateModes, u \in Accounts
<1>16. CASE b = a
  <2>1. reserves'[b] = R /\ reserves[b] = r BY <1>3, <1>4, <1>5, <1>16
  <2>2. mode \in {"stable", "variable"} /\ m \in {"stable", "variable"} BY DEF RateModes
  <2> QED BY <1>14, <1>16, <2>1, <2>2 DEF DebtIn
<1>17. CASE b # a
  <2>1. reserves'[b] = reserves[b] BY <1>3, <1>4, <1>17
  <2>2. DebtIn(m, reserves[b], u) \in Nat BY <1>4, DebtTypes DEF DebtIn
  <2>3. DebtIn(m, reserves[b], u) <= DebtIn(m, reserves[b], u) BY <2>2, SMT
  <2> QED BY <2>1, <2>3
<1> QED BY <1>16, <1>17

\* borrow: whoever receives the tokens spends as much of the allowance.
LEMMA BorrowIsAllowed ==
  ASSUME IInv, IInv', NEW caller \in Users, NEW a \in Assets, NEW x \in Amounts,
         NEW mode \in RateModes, NEW onBehalfOf \in Users,
         borrow(caller, a, x, mode, onBehalfOf)
  PROVE  DebtIsAllowed
<1>1. x \in Nat /\ caller \in Accounts /\ onBehalfOf \in Accounts
  BY AmountsAreNumbers, MarketAssumption
<1>2. /\ wallet' = Received(wallet, a, caller, x)
      /\ borrowAllowance' = AllowanceSpent(caller, a, mode, onBehalfOf, x)
      /\ now' = now
  BY DEF borrow
<1>3. wallet \in Wallets /\ borrowAllowance \in Allowances BY IInvParts
<1> SUFFICES ASSUME NEW b \in Assets, NEW m \in RateModes, NEW u \in Accounts,
                    NEW v \in Accounts, u # v, wallet'[b][v] - wallet[b][v] > 0,
                    DebtIn(m, reserves[b], u)' > DebtIn(m, reserves[b], u)
             PROVE  borrowAllowance'[b][m][u][v]
                      = borrowAllowance[b][m][u][v] - (wallet'[b][v] - wallet[b][v])
  BY DEF DebtIsAllowed
<1>4. b = a /\ m = mode /\ u = onBehalfOf
  <2>1. DebtIn(m, reserves'[b], u) > DebtIn(m, reserves[b], u)
    BY <1>2, DebtInTypes
  <2>2. ~(DebtIn(m, reserves'[b], u) <= DebtIn(m, reserves[b], u))
    BY <1>2, <2>1, DebtInTypes, SMT
  <2> QED BY <2>2, BorrowedDebt
<1>5. wallet[b][v] \in Nat BY <1>3, HeldType
<1>6. v = caller
  <2> SUFFICES ASSUME v # caller PROVE FALSE OBVIOUS
  <2>1. wallet'[b][v] = wallet[b][v] BY <1>1, <1>2, <1>3, <1>4 DEF Received, Wallets, Balances
  <2> QED BY <1>5, <2>1, SMT
<1>7. wallet'[b][v] - wallet[b][v] = x
  <2>1. wallet'[b][v] = wallet[b][v] + x
    BY <1>1, <1>2, <1>3, <1>4, <1>6 DEF Received, Wallets, Balances
  <2> QED BY <1>1, <1>5, <2>1, SMT
<1>8. borrowAllowance'
        = [borrowAllowance EXCEPT ![a][mode][onBehalfOf][caller] = @ - x]
  BY <1>2, <1>4, <1>6 DEF AllowanceSpent
<1>9. borrowAllowance'[b][m][u][v] = borrowAllowance[b][m][u][v] - x
  BY <1>1, <1>3, <1>4, <1>6, <1>8 DEF Allowances, Balances
<1> QED BY <1>7, <1>9

\* Every operation of the pool.
LEMMA EveryDebtIsAllowed ==
  ASSUME IInv, IInv', [Next]_vars, now' = now
  PROVE  DebtIsAllowed
<1>1. NothingGrows => DebtIsAllowed
  BY NoNewDebt DEF NothingGrows, NotGrown, DebtsOnlyShrink
<1>2. CASE Supply
  <2>1. PICK u \in Users, v \in Users, a \in Assets, x \in Amounts :
          deposit(u, a, x, v) \/ withdraw(u, a, x, v) \/ transfer(u, a, v, x)
    BY <1>2 DEF Supply
  <2>2. CASE deposit(u, a, x, v) BY <2>2, DepositDebts, NoNewDebt
  <2>3. CASE withdraw(u, a, x, v) BY <1>1, <2>3, WithdrawNotGrown
  <2>4. CASE transfer(u, a, v, x) BY <1>1, <2>4, TransferNotGrown
  <2> QED BY <2>1, <2>2, <2>3, <2>4
<1>3. CASE Loan
  <2>1. PICK u \in Users, v \in Users, a \in Assets, m \in RateModes, x \in Amounts :
          borrow(u, a, x, m, v) \/ repay(u, a, x, m, v)
    BY <1>3 DEF Loan
  <2>2. CASE borrow(u, a, x, m, v) BY <2>2, BorrowIsAllowed
  <2>3. CASE repay(u, a, x, m, v) BY <1>1, <2>3, RepayNotGrown
  <2> QED BY <2>1, <2>2, <2>3
<1>4. CASE StableSwitch
  <2>1. wallet' = wallet
    BY <1>4 DEF StableSwitch, swapBorrowRateMode, rebalanceStableBorrowRate
  <2> QED BY <2>1, NobodyReceives
<1>5. CASE Liquidation
  <2>1. PICK l \in Users, u \in Users, c \in Assets, d \in Assets, x \in Amounts,
             receive \in BOOLEAN : liquidationCall(l, c, d, u, x, receive)
    BY <1>5 DEF Liquidation
  <2> QED BY <1>1, <2>1, LiquidationNotGrown
<1>6. CASE \/ CollateralSwitch \/ Delegation \/ Configuration \/ PriceChange
           \/ NextBlock \/ UNCHANGED vars
  <2>1. wallet' = wallet
    BY <1>6 DEF CollateralSwitch, setUserUseReserveAsCollateral, Delegation,
                approveDelegation, Configuration, setConfiguration, setPause,
                PriceChange, PriceMove, NextBlock, vars, poolVars
  <2> QED BY <2>1, NobodyReceives
<1> QED BY <1>2, <1>3, <1>4, <1>5, <1>6 DEF Next

\* Nobody is put into debt for tokens that another account receives, unless they
\* allowed it in that rate mode, and the allowance is spent with it.
THEOREM DelegatedDebtIsAllowedHolds == Spec => DelegatedDebtIsAllowed
<1>1. IInv /\ IInv' /\ [Next]_vars =>
        [now' = now =>
           \A a \in Assets, m \in RateModes, u, v \in Accounts :
             LET received == wallet'[a][v] - wallet[a][v]
             IN (u # v /\ received > 0 /\ DebtIn(m, reserves[a], u)' > DebtIn(m, reserves[a], u))
                => borrowAllowance'[a][m][u][v] = borrowAllowance[a][m][u][v] - received]_vars
  BY EveryDebtIsAllowed DEF DebtIsAllowed
<1> QED BY <1>1, IInvHolds, PTL DEF Spec, DelegatedDebtIsAllowed


(***************************************************************************)
(* Collateral bits.                                                        *)
(***************************************************************************)

\* What ClearedBitLeavesNothing asks of a step that writes a reserve.
NothingLeft ==
  \A u \in Accounts : \A a \in usingAsCollateral[u] \ usingAsCollateral'[u] :
    \/ reserves'[a].aToken.balances[u] = 0
    \/ /\ ~Healthy(u)
       /\ reserves'[a].aToken.balances[u] = reserves[a].aToken.balances[u]

\* Which bits of a step are cleared.
LEMMA ClearedBits ==
  ASSUME NEW bits \in Bits, NEW user \in Accounts, NEW a \in Assets
  PROVE  /\ \A u \in Accounts : bits[u] \subseteq WithBit(bits, user, a)[u]
         /\ \A u \in Accounts : \A b \in bits[u] \ WithoutBit(bits, user, a)[u] :
              u = user /\ b = a
         /\ \A u \in Accounts : WithoutBit(bits, user, a)[u] \subseteq bits[u]
BY DEF Bits, WithBit, WithoutBit

\* withdraw clears the bit of whoever takes the balance that was read first, and the
\* reserve accrues afterwards: of another than the treasury nothing is left.
LEMMA WithdrawLeavesNothing ==
  ASSUME IInv, NEW caller \in Users, NEW a \in Assets, NEW x \in Amounts,
         NEW to \in Users, withdraw(caller, a, x, to), Treasury \notin Users
  PROVE  NothingLeft
<1> DEFINE r           == reserves[a]
           index       == getNormalizedIncome(r, now)
           balance     == r.aToken.balances[caller]
           userBalance == ATokenBalanceOf(r, caller, now)
           withdrawn   == IF x = MAX_UINT256 THEN userBalance ELSE x
           accrued     == Accrued(a, r)
           repriced    == Repriced(a, accrued, -withdrawn)
           token       == BurnScaled(repriced.aToken, caller, withdrawn,
                                     repriced.liquidityIndex)
           R           == WithSupply(repriced, token, repriced.cash - withdrawn)
<1>1. caller \in Accounts \ {Treasury} BY MarketAssumption
<1>2. /\ CanAccrue(a, r)
      /\ CanReprice(a, accrued, -withdrawn)
  BY DEF withdraw
<1>3. /\ reserves' = [reserves EXCEPT ![a] = R]
      /\ usingAsCollateral' = IF withdrawn = userBalance
                              THEN WithoutBit(usingAsCollateral, caller, a)
                              ELSE usingAsCollateral
  BY DEF withdraw, WithSupply
<1>4. /\ TypeOK /\ now \in Nat /\ Sound(r, now) /\ usingAsCollateral \in Bits
      /\ reserves \in [Assets -> Reserve]
  BY IInvParts DEF TypeOK
<1>5. r.aToken \in ScaledLedger /\ balance \in Nat BY <1>1, <1>4, SoundFields, LedgerFields
<1>6. index \in Nat /\ RAY <= index BY <1>4, LiquidityIndexGrows
<1>7. userBalance = rayMul(balance, index) BY DEF ATokenBalanceOf, ScaledBalanceOf
<1> HIDE DEF withdrawn, userBalance, index
<1>8. /\ accrued.liquidityIndex = index
      /\ accrued.aToken.balances[caller] = balance
  BY <1>1, <1>2, <1>4, AccruedUpToDate DEF index
<1> HIDE DEF r, balance
<1>9. UpToDate(repriced) /\ SameIncome(accrued, repriced)
  BY <1>2, <1>4, AccrualNotGrown
<1> HIDE DEF accrued, repriced
<1>10. /\ repriced \in Reserve /\ repriced.aToken \in ScaledLedger
       /\ repriced.liquidityIndex = index /\ repriced.aToken.balances[caller] = balance
  BY <1>4, <1>8, <1>9, SoundFields DEF UpToDate, Sound, SameIncome
<1>11. token.balances[caller] = balance - AmountScaled(withdrawn, index)
  BY <1>1, <1>10, LedgerFields DEF BurnScaled
<1> HIDE DEF token
<1>12. R.aToken = token BY <1>10, SupplyUpToDate
<1> HIDE DEF R
<1>13. reserves'[a].aToken = token BY <1>3, <1>4, <1>12
<1>14. withdrawn = userBalance => reserves'[a].aToken.balances[caller] = 0
  BY <1>5, <1>6, <1>7, <1>11, <1>13, WholeBalance
<1> SUFFICES ASSUME NEW u \in Accounts, NEW b \in usingAsCollateral[u] \ usingAsCollateral'[u]
             PROVE  reserves'[b].aToken.balances[u] = 0
  BY DEF NothingLeft
<1>15. withdrawn = userBalance /\ u = caller /\ b = a
  BY <1>1, <1>3, <1>4, ClearedBits
<1> QED BY <1>14, <1>15

\* transfer clears the sender's bit when it sends all it can claim.
LEMMA TransferLeavesNothing ==
  ASSUME IInv, NEW from \in Users, NEW a \in Assets, NEW to \in Users,
         NEW x \in Amounts, transfer(from, a, to, x)
  PROVE  NothingLeft
<1> DEFINE r          == reserves[a]
           index      == getNormalizedIncome(r, now)
           balance    == r.aToken.balances[from]
           fromBefore == ATokenBalanceOf(r, from, now)
           toBefore   == ATokenBalanceOf(r, to, now)
           token      == MoveScaled(r.aToken, from, to, x, index)
           without    == IF fromBefore - x = 0
                         THEN WithoutBit(usingAsCollateral, from, a)
                         ELSE usingAsCollateral
           R          == [r EXCEPT !.aToken = token]
<1>1. from \in Accounts /\ to \in Accounts /\ x \in Nat BY MarketAssumption, AmountsAreNumbers
<1>2. /\ reserves' = [reserves EXCEPT ![a] = R]
      /\ usingAsCollateral' =
           IF from # to
           THEN IF toBefore = 0 /\ x # 0 THEN WithBit(without, to, a) ELSE without
           ELSE usingAsCollateral
  BY DEF transfer, BitsAfterTransfer
<1>3. /\ TypeOK /\ now \in Nat /\ Sound(r, now) /\ usingAsCollateral \in Bits
      /\ reserves \in [Assets -> Reserve] /\ r \in Reserve
  BY IInvParts DEF TypeOK
<1>4. /\ r.aToken \in ScaledLedger /\ balance \in Nat /\ fromBefore \in Nat
  BY <1>1, <1>3, SoundFields, LedgerFields, ATokenBalanceType
<1>5. index \in Nat /\ RAY <= index BY <1>3, LiquidityIndexGrows
<1>6. fromBefore = rayMul(balance, index) BY DEF ATokenBalanceOf, ScaledBalanceOf
<1> HIDE DEF index, fromBefore, toBefore
<1>7. from # to => token.balances[from] = balance - AmountScaled(x, index)
  BY <1>1, <1>4, <1>5, MovedBalances
<1> HIDE DEF token
<1>8. reserves'[a].aToken = token BY <1>2, <1>3 DEF Reserve
<1> HIDE DEF R, r, balance
<1>9. from # to /\ fromBefore - x = 0 => reserves'[a].aToken.balances[from] = 0
  <2> SUFFICES ASSUME from # to, fromBefore - x = 0
               PROVE  reserves'[a].aToken.balances[from] = 0
    OBVIOUS
  <2>1. x = fromBefore BY <1>1, <1>4, SMT
  <2>2. balance - AmountScaled(x, index) = 0 BY <1>4, <1>5, <1>6, <2>1, WholeBalance
  <2> QED BY <1>7, <1>8, <2>2
<1>10. without \in Bits BY <1>1, <1>3, BitTypes
<1> SUFFICES ASSUME NEW u \in Accounts, NEW b \in usingAsCollateral[u] \ usingAsCollateral'[u]
             PROVE  reserves'[b].aToken.balances[u] = 0
  BY DEF NothingLeft
<1>11. from # to /\ b \in usingAsCollateral[u] \ without[u]
  <2> HIDE DEF without
  <2> QED BY <1>1, <1>2, <1>10, ClearedBits
<1>12. fromBefore - x = 0 /\ u = from /\ b = a BY <1>1, <1>3, <1>11, ClearedBits
<1> QED BY <1>9, <1>11, <1>12

\* liquidationCall clears the user's bit when it seizes all that the user can claim.
LEMMA LiquidationLeavesNothing ==
  ASSUME IInv, NEW liquidator \in Users, NEW coll \in Assets, NEW debt \in Assets,
         NEW user \in Users, NEW x \in Amounts, NEW receiveAToken \in BOOLEAN,
         liquidationCall(liquidator, coll, debt, user, x, receiveAToken),
         Treasury \notin Users
  PROVE  NothingLeft
<1> DEFINE taken == Liquidated(coll, debt, user, x).collateral
           whole == ATokenBalanceOf(reserves[coll], user, now)
<1>1. liquidator \in Accounts /\ user \in Accounts BY MarketAssumption
<1>2. usingAsCollateral \in Bits BY IInvParts
<1>3. ~Healthy(user) BY DEF liquidationCall, validateLiquidationCall, Healthy
<1>4. \/ reserves'[coll].aToken.balances[user] = 0
      \/ reserves'[coll].aToken.balances[user] = reserves[coll].aToken.balances[user]
      \/ taken # whole
  BY LiquidationNotGrown
<1>5. \E seen : usingAsCollateral' =
        LET withLiquidator == IF receiveAToken /\ seen = 0
                              THEN WithBit(usingAsCollateral, liquidator, coll)
                              ELSE usingAsCollateral
        IN IF taken = whole THEN WithoutBit(withLiquidator, user, coll) ELSE withLiquidator
  BY DEF liquidationCall, BitsAfterSeizure
<1> HIDE DEF taken, whole
<1>6. PICK bits \in {usingAsCollateral, WithBit(usingAsCollateral, liquidator, coll)} :
        usingAsCollateral' = IF taken = whole THEN WithoutBit(bits, user, coll) ELSE bits
  BY <1>5
<1>7. bits \in Bits /\ \A u \in Accounts : usingAsCollateral[u] \subseteq bits[u]
  BY <1>1, <1>2, <1>6, BitTypes, ClearedBits
<1> SUFFICES ASSUME NEW u \in Accounts, NEW b \in usingAsCollateral[u] \ usingAsCollateral'[u]
             PROVE  taken = whole /\ u = user /\ b = coll
  BY <1>3, <1>4 DEF NothingLeft
<1>8. b \in bits[u] \ usingAsCollateral'[u] BY <1>7
<1> QED BY <1>1, <1>6, <1>7, <1>8, ClearedBits

\* Where no bit is cleared there is nothing to show.
LEMMA NoBitCleared ==
  ASSUME \A u \in Accounts : usingAsCollateral[u] \subseteq usingAsCollateral'[u]
  PROVE  NothingLeft
BY DEF NothingLeft

\* Every operation of the pool that writes a reserve.
LEMMA EveryClearedBit ==
  ASSUME IInv, [Next]_vars, Treasury \notin Users, reserves' # reserves
  PROVE  NothingLeft
<1>1. CASE Supply
  <2>1. PICK u \in Users, v \in Users, a \in Assets, x \in Amounts :
          deposit(u, a, x, v) \/ withdraw(u, a, x, v) \/ transfer(u, a, v, x)
    BY <1>1 DEF Supply
  <2>2. CASE deposit(u, a, x, v)
    <3>1. usingAsCollateral' \in {usingAsCollateral, WithBit(usingAsCollateral, v, a)}
      BY <2>2 DEF deposit
    <3>2. v \in Accounts /\ usingAsCollateral \in Bits BY MarketAssumption, IInvParts
    <3>3. \A w \in Accounts : usingAsCollateral[w] \subseteq usingAsCollateral'[w]
      BY <3>1, <3>2, ClearedBits
    <3> QED BY <3>3, NoBitCleared
  <2>3. CASE withdraw(u, a, x, v) BY <2>3, WithdrawLeavesNothing
  <2>4. CASE transfer(u, a, v, x) BY <2>4, TransferLeavesNothing
  <2> QED BY <2>1, <2>2, <2>3, <2>4
<1>2. CASE Liquidation
  <2>1. PICK l \in Users, u \in Users, c \in Assets, d \in Assets, x \in Amounts,
             receive \in BOOLEAN : liquidationCall(l, c, d, u, x, receive)
    BY <1>2 DEF Liquidation
  <2> QED BY <2>1, LiquidationLeavesNothing
<1>3. CASE Loan \/ StableSwitch
  <2>1. usingAsCollateral' = usingAsCollateral
    BY <1>3 DEF Loan, borrow, repay, StableSwitch, swapBorrowRateMode,
                rebalanceStableBorrowRate
  <2> QED BY <2>1, NoBitCleared
<1>4. CASE \/ CollateralSwitch \/ Delegation \/ Configuration \/ PriceChange
           \/ NextBlock \/ UNCHANGED vars
  <2>1. reserves' = reserves
    BY <1>4 DEF CollateralSwitch, setUserUseReserveAsCollateral, Delegation,
                approveDelegation, Configuration, setConfiguration, setPause,
                PriceChange, PriceMove, NextBlock, vars, poolVars
  <2> QED BY <2>1
<1> QED BY <1>1, <1>2, <1>3, <1>4 DEF Next

\* An operation that moves balances and clears a collateral bit leaves no aTokens
\* behind it, so that no collateral is silently orphaned, but for an account in
\* liquidation that "seizes" its own.  The treasury is the exception: withdraw
\* compares with a balance it read before updateState minted to it.
THEOREM ClearedBitsLeaveNothing ==
  ASSUME Treasury \notin Users
  PROVE  Spec => ClearedBitLeavesNothing
<1>1. IInv /\ [Next]_vars =>
        [reserves' # reserves =>
           \A u \in Accounts : \A a \in usingAsCollateral[u] \ usingAsCollateral'[u] :
             \/ reserves'[a].aToken.balances[u] = 0
             \/ /\ ~Healthy(u)
                /\ reserves'[a].aToken.balances[u] = reserves[a].aToken.balances[u]]_vars
  BY EveryClearedBit DEF NothingLeft
<1> QED BY <1>1, IInvHolds, PTL DEF Spec, ClearedBitLeavesNothing

(***************************************************************************)
(* The rates.  updateInterestRates is told what the caller is about to     *)
(* move; when the transaction is over, the rates of a reserve it updated   *)
(* are those of what it holds, and the others were not touched.            *)
(***************************************************************************)
Settled(a, r) == SameRates(r, Repriced(a, r, 0))

\* Everything the rates of a reserve depend on, and the rates.
RatesKept(r1, r2) ==
  /\ r2.cash = r1.cash
  /\ r2.variableBorrowIndex = r1.variableBorrowIndex
  /\ r2.lastUpdateTimestamp = r1.lastUpdateTimestamp
  /\ SameDebts(r1, r2)
  /\ SameRates(r1, r2)

RatesFollow(a, r1, r2) == RatesKept(r1, r2) \/ Settled(a, r2)

ReserveFields ==
  {"currentLiquidityRate", "currentStableBorrowRate", "currentVariableBorrowRate",
   "variableBorrowIndex", "variableDebt", "stableDebt", "aToken", "cash"}

\* A reserve on which a transaction works: its fields, and its cash so far.
InHand(r, cash) == ReserveFields \subseteq DOMAIN r /\ r.cash = cash

\* No call of the libraries moves the underlying.
LEMMA EveryCallKeepsCash ==
  ASSUME NEW a \in Assets, NEW cash
  PROVE  /\ \A r \in Reserve : InHand(Accrued(a, r), r.cash)
         /\ \A r : InHand(r, cash) => InHand(Accrued(a, r), cash)
         /\ \A r, delta : InHand(r, cash) => InHand(Repriced(a, r, delta), cash)
         /\ \A r, mode, user, amount :
              InHand(r, cash) => /\ InHand(MintDebt(r, mode, user, amount), cash)
                                 /\ InHand(BurnDebtOf(r, mode, user, amount), cash)
         /\ \A r, user, owed, amount :
              InHand(r, cash) => InHand(BurnDebt(r, user, owed, amount), cash)
<1>1. \A r : InHand(r, cash) => InHand(Accrued(a, r), cash)
  BY DEF InHand, ReserveFields, Accrued, updateState
<1>2. \A r \in Reserve : InHand(Accrued(a, r), r.cash)
  BY DEF InHand, ReserveFields, Accrued, updateState, Reserve
<1>3. \A r, delta : InHand(r, cash) => InHand(Repriced(a, r, delta), cash)
  BY DEF InHand, ReserveFields, Repriced, WithInterestRates
<1>4. \A r, mode, user, amount :
        InHand(r, cash) => InHand(MintDebt(r, mode, user, amount), cash)
  BY DEF InHand, ReserveFields, MintDebt
<1>5. \A r, mode, user, amount :
        InHand(r, cash) => InHand(BurnDebtOf(r, mode, user, amount), cash)
  BY DEF InHand, ReserveFields, BurnDebtOf
<1>6. \A r, user, owed, amount :
        InHand(r, cash) => InHand(BurnDebt(r, user, owed, amount), cash)
  BY DEF InHand, ReserveFields, BurnDebt
<1> QED BY <1>1, <1>2, <1>3, <1>4, <1>5, <1>6

\* Two reserves with the same debts, which hold the same once what is announced
\* has moved, get the same rates.
LEMMA RatesOfHoldings ==
  ASSUME NEW a, NEW r, NEW s, NEW d, NEW e,
         ReserveFields \subseteq DOMAIN r, ReserveFields \subseteq DOMAIN s,
         r.cash + d = s.cash + e, SameDebts(r, s),
         r.variableBorrowIndex = s.variableBorrowIndex
  PROVE  SameRates(Repriced(a, r, d), Repriced(a, s, e))
BY DEF SameRates, Repriced, WithInterestRates, SameDebts, ReserveFields

\* The rates are right once the announced amount has moved, whatever the
\* operation does to the aTokens meanwhile.
LEMMA AnnouncedIsMoved ==
  ASSUME NEW a \in Assets, NEW r, NEW cash \in Int, InHand(r, cash), NEW delta \in Int
  PROVE  /\ \A token : Settled(a, WithSupply(Repriced(a, r, delta), token, cash + delta))
         /\ Settled(a, WithCash(Repriced(a, r, delta), cash + delta))
<1> DEFINE s == Repriced(a, r, delta)
<1>1. /\ ReserveFields \subseteq DOMAIN s
      /\ s.variableBorrowIndex = r.variableBorrowIndex /\ SameDebts(r, s)
  BY DEF Repriced, WithInterestRates, SameDebts, InHand, ReserveFields
<1> HIDE DEF s
<1>2. ASSUME NEW R,
             R = WithCash(s, cash + delta) \/ \E token : R = WithSupply(s, token, cash + delta)
      PROVE  Settled(a, R)
  <2>1. /\ ReserveFields \subseteq DOMAIN R
        /\ R.cash = cash + delta
        /\ R.variableBorrowIndex = s.variableBorrowIndex
        /\ SameDebts(s, R) /\ SameRates(s, R)
    BY <1>1, <1>2 DEF WithSupply, WithCash, SameDebts, SameRates, ReserveFields
  <2>2. r.cash + delta = R.cash + 0
    <3>1. R.cash \in Int BY <2>1
    <3> QED BY <2>1, <3>1 DEF InHand
  <2>3. SameRates(s, Repriced(a, R, 0))
    <3>1. SameDebts(r, R) /\ r.variableBorrowIndex = R.variableBorrowIndex
      BY <1>1, <2>1 DEF SameDebts
    <3> QED BY <2>1, <2>2, <3>1, RatesOfHoldings DEF s, InHand
  <2> QED BY <2>1, <2>3 DEF Settled, SameRates
<1>3. \A token : Settled(a, WithSupply(s, token, cash + delta)) BY <1>2
<1>4. Settled(a, WithCash(s, cash + delta)) BY <1>2
<1> QED BY <1>3, <1>4 DEF s

\* An operation that moves nothing announces nothing.
LEMMA NothingAnnounced ==
  ASSUME NEW a \in Assets, NEW r, NEW cash \in Int, InHand(r, cash)
  PROVE  Settled(a, Repriced(a, r, 0))
<1> DEFINE s == Repriced(a, r, 0)
<1>1. /\ ReserveFields \subseteq DOMAIN s /\ s.cash = r.cash
      /\ s.variableBorrowIndex = r.variableBorrowIndex /\ SameDebts(r, s)
  BY DEF Repriced, WithInterestRates, SameDebts, InHand, ReserveFields
<1> HIDE DEF s
<1>2. SameRates(s, Repriced(a, s, 0))
  BY <1>1, RatesOfHoldings DEF s, InHand
<1> QED BY <1>2 DEF Settled, s

\* A transaction that writes one reserve.
LEMMA OneReserveFollows ==
  ASSUME IInv, NEW a \in Assets, NEW R, reserves' = [reserves EXCEPT ![a] = R],
         RatesFollow(a, reserves[a], R)
  PROVE  \A b \in Assets : RatesFollow(b, reserves[b], reserves'[b])
<1>1. reserves \in [Assets -> Reserve] BY DEF IInv, TypeOK
<1>2. reserves'[a] = R /\ \A b \in Assets \ {a} : reserves'[b] = reserves[b] BY <1>1
<1> QED BY <1>2 DEF RatesFollow, RatesKept, SameDebts, SameRates

\* Deposits, withdrawals and transfers.
LEMMA SupplyFollows ==
  ASSUME IInv, Supply
  PROVE  \A b \in Assets : RatesFollow(b, reserves[b], reserves'[b])
<1>1. PICK u \in Users, v \in Users, a \in Assets, x \in Amounts :
        deposit(u, a, x, v) \/ withdraw(u, a, x, v) \/ transfer(u, a, v, x)
  BY DEF Supply
<1> DEFINE accrued == Accrued(a, reserves[a])
           cash    == reserves[a].cash
<1>2. /\ reserves[a] \in Reserve /\ Sound(reserves[a], now) /\ now \in Nat
      /\ u \in Accounts /\ x \in Nat
  BY IInvParts, AmountsAreNumbers, MarketAssumption DEF Sound
<1>3. InHand(accrued, cash) /\ cash \in Nat BY <1>2, EveryCallKeepsCash, SoundFields
<1> HIDE DEF accrued, cash
<1>4. CASE deposit(u, a, x, v)
  <2> DEFINE repriced == Repriced(a, accrued, x)
             token == MintScaled(repriced.aToken, v, x, repriced.liquidityIndex)
             R == WithSupply(repriced, token, cash + x)
  <2>1. repriced.cash = cash BY <1>3, EveryCallKeepsCash DEF InHand
  <2>2. reserves' = [reserves EXCEPT ![a] = R] BY <1>4, <2>1 DEF deposit, WithSupply, accrued
  <2> HIDE DEF token
  <2>3. Settled(a, R) BY <1>2, <1>3, AnnouncedIsMoved
  <2> HIDE DEF R
  <2> QED BY <2>2, <2>3, OneReserveFollows DEF RatesFollow
<1>5. CASE withdraw(u, a, x, v)
  <2> DEFINE withdrawn == IF x = MAX_UINT256 THEN ATokenBalanceOf(reserves[a], u, now) ELSE x
             repriced == Repriced(a, accrued, -withdrawn)
             token == BurnScaled(repriced.aToken, u, withdrawn, repriced.liquidityIndex)
             R == WithSupply(repriced, token, cash + (-withdrawn))
  <2>1. withdrawn \in Nat BY <1>2, ATokenBalanceType
  <2>2. repriced.cash = cash BY <1>3, EveryCallKeepsCash DEF InHand
  <2>3. reserves' = [reserves EXCEPT ![a] = WithSupply(repriced, token, cash - withdrawn)]
    BY <1>5, <2>2 DEF withdraw, WithSupply, accrued
  <2> HIDE DEF withdrawn
  <2>4. -withdrawn \in Int /\ cash - withdrawn = cash + (-withdrawn) BY <1>3, <2>1
  <2> HIDE DEF token
  <2>5. Settled(a, R) BY <1>3, <2>4, AnnouncedIsMoved
  <2>6. reserves' = [reserves EXCEPT ![a] = R] BY <2>3, <2>4
  <2> HIDE DEF R
  <2> QED BY <2>5, <2>6, OneReserveFollows DEF RatesFollow
<1>6. CASE transfer(u, a, v, x)
  <2> DEFINE token == MoveScaled(reserves[a].aToken, u, v, x,
                                 getNormalizedIncome(reserves[a], now))
             R == [reserves[a] EXCEPT !.aToken = token]
  <2>1. reserves' = [reserves EXCEPT ![a] = R] BY <1>6 DEF transfer
  <2> HIDE DEF token
  <2>2. RatesKept(reserves[a], R) BY <1>2 DEF RatesKept, SameDebts, SameRates, Reserve
  <2> HIDE DEF R
  <2> QED BY <2>1, <2>2, OneReserveFollows DEF RatesFollow
<1> QED BY <1>1, <1>4, <1>5, <1>6

\* Loans.
LEMMA LoanFollows ==
  ASSUME IInv, Loan
  PROVE  \A b \in Assets : RatesFollow(b, reserves[b], reserves'[b])
<1>1. PICK u \in Users, v \in Users, a \in Assets, m \in RateModes, x \in Amounts :
        borrow(u, a, x, m, v) \/ repay(u, a, x, m, v)
  BY DEF Loan
<1> DEFINE accrued == Accrued(a, reserves[a])
           cash    == reserves[a].cash
<1>2. /\ reserves[a] \in Reserve /\ Sound(reserves[a], now) /\ now \in Nat
      /\ v \in Accounts /\ x \in Nat
  BY IInvParts, AmountsAreNumbers, MarketAssumption DEF Sound
<1>3. InHand(accrued, cash) /\ cash \in Nat BY <1>2, EveryCallKeepsCash, SoundFields
<1> HIDE DEF accrued, cash
<1>4. CASE borrow(u, a, x, m, v)
  <2> DEFINE minted   == MintDebt(accrued, m, v, x)
             repriced == Repriced(a, minted, -x)
             R        == WithCash(repriced, cash + (-x))
  <2>1. InHand(minted, cash) BY <1>3, EveryCallKeepsCash
  <2> HIDE DEF minted
  <2>2. repriced.cash = cash BY <2>1, EveryCallKeepsCash DEF InHand
  <2>3. reserves' = [reserves EXCEPT ![a] = WithCash(repriced, cash - x)]
    BY <1>4, <2>2 DEF borrow, WithCash, accrued, minted
  <2>4. -x \in Int /\ cash - x = cash + (-x) BY <1>2, <1>3
  <2>5. Settled(a, R) BY <1>3, <2>1, <2>4, AnnouncedIsMoved
  <2>6. reserves' = [reserves EXCEPT ![a] = R] BY <2>3, <2>4
  <2> HIDE DEF R
  <2> QED BY <2>5, <2>6, OneReserveFollows DEF RatesFollow
<1>5. CASE repay(u, a, x, m, v)
  <2> DEFINE debt     == IF m = "stable" THEN StableDebtOf(reserves[a], v, now)
                         ELSE VariableDebtOf(reserves[a], v, now)
             amount   == IF x < debt THEN x ELSE debt
             burned   == BurnDebtOf(accrued, m, v, amount)
             repriced == Repriced(a, burned, amount)
             R        == WithCash(repriced, cash + amount)
  <2>1. amount \in Nat
    <3>1. StableDebtOf(reserves[a], v, now) \in Nat /\ VariableDebtOf(reserves[a], v, now) \in Nat
      BY <1>2, DebtTypes
    <3> QED BY <1>2, <3>1
  <2>2. InHand(burned, cash) BY <1>3, EveryCallKeepsCash
  <2> HIDE DEF amount, burned
  <2>3. repriced.cash = cash BY <2>2, EveryCallKeepsCash DEF InHand
  <2>4. reserves' = [reserves EXCEPT ![a] = R]
    BY <1>5, <2>3 DEF repay, WithCash, accrued, burned, amount
  <2>5. Settled(a, R) BY <1>3, <2>1, <2>2, AnnouncedIsMoved
  <2> HIDE DEF R
  <2> QED BY <2>4, <2>5, OneReserveFollows DEF RatesFollow
<1> QED BY <1>1, <1>4, <1>5

\* Swaps of the rate mode and rebalancing.
LEMMA StableSwitchFollows ==
  ASSUME IInv, StableSwitch
  PROVE  \A b \in Assets : RatesFollow(b, reserves[b], reserves'[b])
<1>1. PICK u \in Users, a \in Assets :
        \/ \E m \in RateModes : swapBorrowRateMode(u, a, m)
        \/ rebalanceStableBorrowRate(a, u)
  BY DEF StableSwitch
<1>2. reserves[a] \in Reserve /\ reserves[a].cash \in Nat BY IInvParts, SoundFields DEF Sound
<1>3. InHand(Accrued(a, reserves[a]), reserves[a].cash) BY <1>2, EveryCallKeepsCash
<1>4. \A m1, m2, x, y :
        InHand(MintDebt(BurnDebtOf(Accrued(a, reserves[a]), m1, u, x), m2, u, y),
               reserves[a].cash)
  BY <1>3, EveryCallKeepsCash
<1>5. \E m1, m2, x, y :
        reserves' = [reserves EXCEPT ![a] =
          Repriced(a, MintDebt(BurnDebtOf(Accrued(a, reserves[a]), m1, u, x), m2, u, y), 0)]
  BY <1>1 DEF swapBorrowRateMode, rebalanceStableBorrowRate
<1>6. PICK r : /\ InHand(r, reserves[a].cash)
               /\ reserves' = [reserves EXCEPT ![a] = Repriced(a, r, 0)]
  BY <1>4, <1>5
<1>7. Settled(a, Repriced(a, r, 0)) BY <1>2, <1>6, NothingAnnounced
<1> QED BY <1>6, <1>7, OneReserveFollows DEF RatesFollow

\* A liquidation whose liquidator pays and receives the same underlying.
SeizesInOneAsset ==
  \E l, u \in Users, a \in Assets, x \in Amounts : liquidationCall(l, a, a, u, x, FALSE)

\* A liquidation updates the reserve of the debt, then seizes the collateral, and
\* the payment arrives last.  With collateral and debt in one asset the second
\* update does not know of the payment, unless it only moves aTokens.
LEMMA LiquidationFollows ==
  ASSUME IInv, Liquidation, ~SeizesInOneAsset
  PROVE  \A b \in Assets : RatesFollow(b, reserves[b], reserves'[b])
<1>1. PICK l \in Users, u \in Users, c \in Assets, d \in Assets, x \in Amounts,
           receive \in BOOLEAN : liquidationCall(l, c, d, u, x, receive)
  BY DEF Liquidation
<1>2. c # d \/ receive = TRUE BY <1>1 DEF SeizesInOneAsset
<1> DEFINE variableOwed == VariableDebtOf(reserves[d], u, now)
           amounts  == Liquidated(c, d, u, x)
           paid     == amounts.debt
           taken    == amounts.collateral
           burned   == BurnDebt(Accrued(d, reserves[d]), u, variableOwed, paid)
           repriced == Repriced(d, burned, paid)
           rs       == [reserves EXCEPT ![d] = repriced]
           seized   == Seized(rs, c, u, l, taken, receive)
<1>3. reserves' = [seized EXCEPT ![d] = WithCash(seized[d], seized[d].cash + paid)]
  BY <1>1 DEF liquidationCall, WithCash
<1>4. /\ reserves \in [Assets -> Reserve]
      /\ \A b \in Assets : reserves[b] \in Reserve /\ reserves[b].cash \in Nat
  BY IInvParts, SoundFields DEF IInv, TypeOK, Sound
<1>5. paid \in Nat /\ taken \in Nat
  <2>1. c \in CollateralAssets(u) BY <1>1 DEF liquidationCall, validateLiquidationCall
  <2>2. x \in Nat /\ u \in Accounts BY AmountsAreNumbers, MarketAssumption
  <2> QED BY <2>1, <2>2, LiquidatedType
<1> HIDE DEF amounts
<1>6. InHand(burned, reserves[d].cash)
  <2>1. InHand(Accrued(d, reserves[d]), reserves[d].cash) BY <1>4, EveryCallKeepsCash
  <2> QED BY <2>1, EveryCallKeepsCash
<1> HIDE DEF burned
<1>7. InHand(repriced, reserves[d].cash) BY <1>6, EveryCallKeepsCash
<1>8. /\ DOMAIN rs = Assets /\ rs[d] = repriced
      /\ \A b \in Assets \ {d} : rs[b] = reserves[b]
  BY <1>4
<1> HIDE DEF rs
<1>9. \A token : Settled(d, WithCash([repriced EXCEPT !.aToken = token],
                                     reserves[d].cash + paid))
  <2> TAKE token
  <2> DEFINE R == WithSupply(repriced, token, reserves[d].cash + paid)
  <2>1. WithCash([repriced EXCEPT !.aToken = token], reserves[d].cash + paid) = R
    BY <1>7 DEF WithCash, WithSupply
  <2>2. Settled(d, R) BY <1>4, <1>5, <1>6, AnnouncedIsMoved
  <2> QED BY <2>1, <2>2
<1>10. Settled(d, WithCash(repriced, reserves[d].cash + paid))
  BY <1>4, <1>5, <1>6, AnnouncedIsMoved
<1> HIDE DEF repriced
<1>11. CASE receive = TRUE
  <2> DEFINE token == MoveScaled(rs[c].aToken, u, l, taken, getNormalizedIncome(rs[c], now))
             R == [rs[c] EXCEPT !.aToken = token]
  <2>1. seized = [rs EXCEPT ![c] = R] BY <1>11 DEF Seized
  <2> HIDE DEF seized, token
  <2>2. seized[c] = R /\ DOMAIN seized = Assets /\ \A b \in Assets \ {c} : seized[b] = rs[b]
    BY <1>8, <2>1
  <2>3. /\ reserves'[d] = WithCash(seized[d], seized[d].cash + paid)
        /\ \A b \in Assets \ {d} : reserves'[b] = seized[b]
    BY <1>3, <2>2
  <2>4. Settled(d, reserves'[d])
    <3>1. CASE c = d
      <4>1. seized[d] = [repriced EXCEPT !.aToken = token] BY <1>8, <2>2, <3>1
      <4>2. seized[d].cash = reserves[d].cash BY <1>7, <4>1 DEF InHand, ReserveFields
      <4> QED BY <1>9, <2>3, <4>1, <4>2
    <3>2. CASE c # d
      <4>1. seized[d] = repriced BY <1>8, <2>2, <3>2
      <4>2. seized[d].cash = reserves[d].cash BY <1>7, <4>1 DEF InHand
      <4> QED BY <1>10, <2>3, <4>1, <4>2
    <3> QED BY <3>1, <3>2
  <2>5. ASSUME NEW b \in Assets \ {d} PROVE RatesKept(reserves[b], reserves'[b])
    <3>1. CASE b = c
      <4>1. reserves'[b] = [reserves[b] EXCEPT !.aToken = token] BY <1>8, <2>2, <2>3, <3>1
      <4>2. reserves[b] \in Reserve BY <1>4
      <4> HIDE DEF R
      <4> QED BY <4>1, <4>2 DEF RatesKept, SameDebts, SameRates, Reserve
    <3>2. CASE b # c
      <4>1. reserves'[b] = reserves[b] BY <1>8, <2>2, <2>3, <3>2
      <4> QED BY <4>1 DEF RatesKept, SameDebts, SameRates
    <3> QED BY <3>1, <3>2
  <2> QED BY <2>4, <2>5 DEF RatesFollow
<1>12. CASE receive = FALSE
  <2> DEFINE accrued == Accrued(c, rs[c])
             r == Repriced(c, accrued, -taken)
             token == BurnScaled(r.aToken, u, taken, r.liquidityIndex)
             R == WithSupply(r, token, reserves[c].cash + (-taken))
  <2>1. c # d BY <1>2, <1>12
  <2>2. rs[c] \in Reserve /\ rs[c].cash = reserves[c].cash BY <1>4, <1>8, <2>1
  <2>3. InHand(accrued, reserves[c].cash) BY <2>2, EveryCallKeepsCash
  <2>4. seized = [rs EXCEPT ![c] = WithSupply(r, token, r.cash - taken)]
    BY <1>12 DEF Seized, RepricedCollateral, WithSupply
  <2> HIDE DEF accrued, seized
  <2>5. r.cash = reserves[c].cash BY <2>3, EveryCallKeepsCash DEF InHand
  <2>6. -taken \in Int /\ reserves[c].cash - taken = reserves[c].cash + (-taken)
    BY <1>4, <1>5
  <2>7. seized = [rs EXCEPT ![c] = R] BY <2>4, <2>5, <2>6
  <2> HIDE DEF token
  <2>8. Settled(c, R) BY <1>4, <2>3, <2>6, AnnouncedIsMoved
  <2> HIDE DEF R
  <2>9. seized[c] = R /\ DOMAIN seized = Assets /\ \A b \in Assets \ {c} : seized[b] = rs[b]
    BY <1>8, <2>7
  <2>10. /\ reserves'[d] = WithCash(seized[d], seized[d].cash + paid)
         /\ \A b \in Assets \ {d} : reserves'[b] = seized[b]
    BY <1>3, <2>9
  <2>11. seized[d] = repriced /\ seized[d].cash = reserves[d].cash
    BY <1>7, <1>8, <2>1, <2>9 DEF InHand
  <2>12. Settled(d, reserves'[d]) BY <1>10, <2>10, <2>11
  <2>13. Settled(c, reserves'[c]) BY <2>1, <2>8, <2>9, <2>10
  <2>14. ASSUME NEW b \in Assets, b # c, b # d PROVE RatesKept(reserves[b], reserves'[b])
    <3>1. reserves'[b] = reserves[b] BY <1>8, <2>9, <2>10, <2>14
    <3> QED BY <3>1 DEF RatesKept, SameDebts, SameRates
  <2> QED BY <2>12, <2>13, <2>14 DEF RatesFollow
<1> QED BY <1>11, <1>12

\* Every operation but that liquidation.
LEMMA EveryStepFollows ==
  ASSUME IInv, [Next]_vars, ~SeizesInOneAsset
  PROVE  \A b \in Assets : RatesFollow(b, reserves[b], reserves'[b])
<1>1. CASE Supply BY <1>1, SupplyFollows
<1>2. CASE Loan BY <1>2, LoanFollows
<1>3. CASE StableSwitch BY <1>3, StableSwitchFollows
<1>4. CASE Liquidation BY <1>4, LiquidationFollows
<1>5. CASE CollateralSwitch \/ Delegation \/ Configuration \/ PriceChange \/ NextBlock
           \/ UNCHANGED vars
  <2>1. reserves' = reserves
    BY <1>5 DEF CollateralSwitch, setUserUseReserveAsCollateral, Delegation,
                approveDelegation, Configuration, setConfiguration, setPause,
                PriceChange, PriceMove, NextBlock, vars, poolVars
  <2> QED BY <2>1 DEF RatesFollow, RatesKept, SameDebts, SameRates
<1> QED BY <1>1, <1>2, <1>3, <1>4, <1>5 DEF Next

\* The configuration and the block in which the rates were computed are still
\* there when the operation is over.
LEMMA RatesMatchStep ==
  ASSUME IInv, [Next]_vars, ~SeizesInOneAsset, NEW a \in Assets,
         reserves'[a].cash # reserves[a].cash
  PROVE  SameRates(reserves'[a], Repriced(a, reserves[a], 0)')
<1>1. RatesFollow(a, reserves[a], reserves'[a]) BY EveryStepFollows
<1>2. Settled(a, reserves'[a]) BY <1>1 DEF RatesFollow, RatesKept
<1>3. UNCHANGED <<configuration, now>>
  <2>1. CASE Supply BY <2>1 DEF Supply, deposit, withdraw, transfer
  <2>2. CASE Loan BY <2>2 DEF Loan, borrow, repay
  <2>3. CASE StableSwitch
    BY <2>3 DEF StableSwitch, swapBorrowRateMode, rebalanceStableBorrowRate
  <2>4. CASE Liquidation BY <2>4 DEF Liquidation, liquidationCall
  <2>5. CASE CollateralSwitch \/ Delegation \/ Configuration \/ PriceChange \/ NextBlock
             \/ UNCHANGED vars
    <3>1. reserves' = reserves
      BY <2>5 DEF CollateralSwitch, setUserUseReserveAsCollateral, Delegation,
                  approveDelegation, Configuration, setConfiguration, setPause,
                  PriceChange, PriceMove, NextBlock, vars, poolVars
    <3> QED BY <3>1
  <2> QED BY <2>1, <2>2, <2>3, <2>4, <2>5 DEF Next
<1> QED BY <1>2, <1>3 DEF Settled, Repriced

\* Whatever moves underlying in or out of a reserve, in whatever order it updates
\* the reserve, the debts and the rates, leaves the rates of the liquidity that is
\* really there.  The exception is the one a run exhibits: liquidationCall with
\* collateral and debt in one asset and the underlying paid out.
THEOREM RatesMatchLiquidityHolds ==
  Spec /\ [][~SeizesInOneAsset]_vars => RatesMatchLiquidity
<1>1. IInv /\ [Next]_vars /\ [~SeizesInOneAsset]_vars =>
        [\A a \in Assets : reserves'[a].cash # reserves[a].cash
           => SameRates(reserves'[a], Repriced(a, reserves[a], 0)')]_vars
  BY RatesMatchStep
<1> QED BY <1>1, IInvHolds, PTL DEF Spec, RatesMatchLiquidity

=============================================================================
