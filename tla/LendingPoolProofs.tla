-------------------------- MODULE LendingPoolProofs -------------------------
(***************************************************************************)
(* Theorems about the lending pool, for every market: any accounts,        *)
(* assets, strategies, configurations, prices and amounts.                 *)
(***************************************************************************)
EXTENDS LendingPoolProperties, ReserveLogicProofs

(***************************************************************************)
(* The inductive invariant.  The types alone are not inductive: a debt is  *)
(* a number only if its timestamp is not in the future, and a quotient by  *)
(* an index only if the index is not 0.  BorrowBitCoversDebt needs the     *)
(* indexes to be at least one ray, or else a debt could read as 0.         *)
(***************************************************************************)
IInv ==
  /\ TypeOK
  /\ \A a \in Assets : Sound(reserves[a], now)
  /\ BorrowBitCoversDebt

\* What every step does: it keeps IInv, and no index shrinks.
IndexesGrow ==
  \A a \in Assets :
    /\ reserves'[a].liquidityIndex >= reserves[a].liquidityIndex
    /\ reserves'[a].variableBorrowIndex >= reserves[a].variableBorrowIndex

(***************************************************************************)
(* One reserve, part way through a transaction.                            *)
(***************************************************************************)
LEMMA ReserveFactorType ==
  ASSUME TypeOK, NEW a \in Assets
  PROVE  configuration[a].reserveFactor \in Nat
<1>1. configuration[a] \in ReserveConfiguration BY DEF TypeOK
<1>2. configuration[a] \in ConfigurationWord BY <1>1 DEF ReserveConfiguration
<1> QED BY <1>2 DEF ConfigurationWord

\* r2 is r1 with its indexes moved on; nothing else of the debts changes.
SameDebts(r1, r2) ==
  /\ r2.variableDebt = r1.variableDebt
  /\ r2.stableDebt = r1.stableDebt

IndexesAtLeast(r1, r2) ==
  /\ r1.liquidityIndex <= r2.liquidityIndex
  /\ r1.variableBorrowIndex <= r2.variableBorrowIndex

\* reserve.updateState() at the start of every operation.
LEMMA AccruedSound ==
  ASSUME TypeOK, NEW a \in Assets, NEW r, Sound(r, now), CanAccrue(a, r)
  PROVE  /\ Sound(Accrued(a, r), now)
         /\ SameDebts(r, Accrued(a, r))
         /\ IndexesAtLeast(r, Accrued(a, r))
         /\ Accrued(a, r).cash = r.cash
         /\ Accrued(a, r).variableBorrowIndex = UpdatedVariableBorrowIndex(r, now)
<1>1. now \in Nat BY DEF TypeOK
<1>2. configuration[a].reserveFactor \in Nat BY ReserveFactorType
<1>3. CanUpdateState(r, configuration[a].reserveFactor, now) BY DEF CanAccrue
<1> QED BY <1>1, <1>2, <1>3, TreasuryAssumption, UpdateStateSound
        DEF Accrued, SameDebts, IndexesAtLeast

\* reserve.updateInterestRates(): only rates, and only with the cash to pay.
LEMMA RepricedSound ==
  ASSUME TypeOK, NEW a \in Assets, NEW r, Sound(r, now), NEW delta, CanReprice(a, r, delta)
  PROVE  /\ Sound(Repriced(a, r, delta), now)
         /\ SameDebts(r, Repriced(a, r, delta))
         /\ Repriced(a, r, delta).liquidityIndex = r.liquidityIndex
         /\ Repriced(a, r, delta).variableBorrowIndex = r.variableBorrowIndex
         /\ Repriced(a, r, delta).aToken = r.aToken
         /\ Repriced(a, r, delta).cash = r.cash
         /\ r.cash + delta >= 0
<1>1. now \in Nat BY DEF TypeOK
<1>2. RatesFit(WithInterestRates(r, Strategy[a], configuration[a].reserveFactor, delta, now))
  BY DEF CanReprice, Repriced
<1>3. r.cash + delta >= 0 BY DEF CanReprice, CanUpdateInterestRates
<1> QED BY <1>1, <1>2, <1>3, InterestRatesSound DEF Repriced, SameDebts

\* Indexes that did not move are at least what they were.
LEMMA IndexesAtLeastItself ==
  ASSUME NEW t \in Nat, NEW r, Sound(r, t), NEW r2,
         r2.liquidityIndex = r.liquidityIndex,
         r2.variableBorrowIndex = r.variableBorrowIndex
  PROVE  IndexesAtLeast(r, r2)
<1>1. r.liquidityIndex \in Nat /\ r.variableBorrowIndex \in Nat BY SoundFields
<1> QED BY <1>1, SMT DEF IndexesAtLeast

\* Tokens and cash can be replaced.
WithSupply(r, token, cash) == [r EXCEPT !.aToken = token, !.cash = cash]

\* A reserve stays sound under any new aToken ledger and cash.
LEMMA SupplyReplaced ==
  ASSUME NEW t, NEW r, Sound(r, t), NEW token \in ScaledLedger, NEW cash \in Nat
  PROVE  /\ Sound(WithSupply(r, token, cash), t)
         /\ SameDebts(r, WithSupply(r, token, cash))
         /\ WithSupply(r, token, cash).liquidityIndex = r.liquidityIndex
         /\ WithSupply(r, token, cash).variableBorrowIndex = r.variableBorrowIndex
<1> DEFINE after == WithSupply(r, token, cash)
<1>1. r \in Reserve BY DEF Sound
<1>2. after \in Reserve BY <1>1 DEF Reserve, WithSupply
<1>3. /\ after.liquidityIndex = r.liquidityIndex
      /\ after.variableBorrowIndex = r.variableBorrowIndex
      /\ after.lastUpdateTimestamp = r.lastUpdateTimestamp
      /\ after.variableDebt = r.variableDebt
      /\ after.stableDebt = r.stableDebt
  BY <1>1 DEF Reserve, WithSupply
<1> HIDE DEF after
<1>4. Sound(after, t) BY <1>2, <1>3 DEF Sound
<1> QED BY <1>3, <1>4 DEF SameDebts, after

WithCash(r, cash) == [r EXCEPT !.cash = cash]

\* A reserve stays sound under any new cash.
LEMMA CashReplaced ==
  ASSUME NEW t, NEW r, Sound(r, t), NEW cash \in Nat
  PROVE  /\ Sound(WithCash(r, cash), t)
         /\ SameDebts(r, WithCash(r, cash))
         /\ WithCash(r, cash).liquidityIndex = r.liquidityIndex
         /\ WithCash(r, cash).variableBorrowIndex = r.variableBorrowIndex
<1> DEFINE after == WithCash(r, cash)
<1>1. r \in Reserve BY DEF Sound
<1>2. after \in Reserve BY <1>1 DEF Reserve, WithCash
<1>3. /\ after.liquidityIndex = r.liquidityIndex
      /\ after.variableBorrowIndex = r.variableBorrowIndex
      /\ after.lastUpdateTimestamp = r.lastUpdateTimestamp
      /\ after.variableDebt = r.variableDebt
      /\ after.stableDebt = r.stableDebt
  BY <1>1 DEF Reserve, WithCash
<1> HIDE DEF after
<1>4. Sound(after, t) BY <1>2, <1>3 DEF Sound
<1> QED BY <1>3, <1>4 DEF SameDebts, after

WithDebts(r, variable, stable) ==
  [r EXCEPT !.variableDebt = variable, !.stableDebt = stable]

\* A reserve stays sound under new ledgers of both debt tokens.
LEMMA DebtTokensReplaced ==
  ASSUME NEW t, NEW r, Sound(r, t), NEW variable \in ScaledLedger,
         NEW stable, StableSound(stable, t)
  PROVE  /\ Sound(WithDebts(r, variable, stable), t)
         /\ WithDebts(r, variable, stable).variableDebt = variable
         /\ WithDebts(r, variable, stable).stableDebt = stable
         /\ WithDebts(r, variable, stable).liquidityIndex = r.liquidityIndex
         /\ WithDebts(r, variable, stable).variableBorrowIndex = r.variableBorrowIndex
         /\ WithDebts(r, variable, stable).cash = r.cash
<1> DEFINE after == WithDebts(r, variable, stable)
<1>1. r \in Reserve /\ stable \in StableLedger BY DEF Sound, StableSound
<1>2. after \in Reserve BY <1>1 DEF Reserve, WithDebts
<1>3. /\ after.liquidityIndex = r.liquidityIndex
      /\ after.variableBorrowIndex = r.variableBorrowIndex
      /\ after.lastUpdateTimestamp = r.lastUpdateTimestamp
      /\ after.variableDebt = variable
      /\ after.stableDebt = stable
      /\ after.cash = r.cash
  BY <1>1 DEF Reserve, WithDebts
<1> HIDE DEF after
<1>4. Sound(after, t) BY <1>2, <1>3 DEF Sound
<1> QED BY <1>3, <1>4 DEF after

\* A reserve stays sound under a new variable debt ledger.
LEMMA VariableDebtReplaced ==
  ASSUME NEW t, NEW r, Sound(r, t), NEW token \in ScaledLedger
  PROVE  LET after == [r EXCEPT !.variableDebt = token]
         IN /\ Sound(after, t)
            /\ after.variableDebt = token /\ after.stableDebt = r.stableDebt
            /\ after.liquidityIndex = r.liquidityIndex
            /\ after.variableBorrowIndex = r.variableBorrowIndex
            /\ after.cash = r.cash
<1> DEFINE after == [r EXCEPT !.variableDebt = token]
<1>1. r \in Reserve BY DEF Sound
<1>2. after \in Reserve BY <1>1 DEF Reserve
<1>3. /\ after.liquidityIndex = r.liquidityIndex
      /\ after.variableBorrowIndex = r.variableBorrowIndex
      /\ after.lastUpdateTimestamp = r.lastUpdateTimestamp
      /\ after.variableDebt = token
      /\ after.stableDebt = r.stableDebt
      /\ after.cash = r.cash
  BY <1>1 DEF Reserve
<1> HIDE DEF after
<1>4. Sound(after, t) BY <1>2, <1>3 DEF Sound
<1> QED BY <1>3, <1>4 DEF after

\* A reserve stays sound under a new stable debt ledger.
LEMMA StableDebtReplaced ==
  ASSUME NEW t, NEW r, Sound(r, t), NEW token, StableSound(token, t)
  PROVE  LET after == [r EXCEPT !.stableDebt = token]
         IN /\ Sound(after, t)
            /\ after.variableDebt = r.variableDebt /\ after.stableDebt = token
            /\ after.liquidityIndex = r.liquidityIndex
            /\ after.variableBorrowIndex = r.variableBorrowIndex
            /\ after.cash = r.cash
<1> DEFINE after == [r EXCEPT !.stableDebt = token]
<1>1. r \in Reserve /\ token \in StableLedger BY DEF Sound, StableSound
<1>2. after \in Reserve BY <1>1 DEF Reserve
<1>3. /\ after.liquidityIndex = r.liquidityIndex
      /\ after.variableBorrowIndex = r.variableBorrowIndex
      /\ after.lastUpdateTimestamp = r.lastUpdateTimestamp
      /\ after.variableDebt = r.variableDebt
      /\ after.stableDebt = token
      /\ after.cash = r.cash
  BY <1>1 DEF Reserve
<1> HIDE DEF after
<1>4. Sound(after, t) BY <1>2, <1>3 DEF Sound
<1> QED BY <1>3, <1>4 DEF after

(***************************************************************************)
(* Debts: what a user is seen to owe is 0 only when nothing is left.       *)
(***************************************************************************)
LEMMA DebtTypes ==
  ASSUME NEW t \in Nat, NEW r, Sound(r, t), NEW u \in Accounts
  PROVE  /\ VariableDebtOf(r, u, t) \in Nat /\ StableDebtOf(r, u, t) \in Nat
         /\ r.variableDebt.balances[u] \in Nat /\ r.stableDebt.balances[u] \in Nat
         /\ VariableDebtOf(r, u, t) = 0 => r.variableDebt.balances[u] = 0
         /\ StableDebtOf(r, u, t) = 0 <=> r.stableDebt.balances[u] = 0
<1>1. r.variableDebt \in ScaledLedger /\ StableSound(r.stableDebt, t) BY SoundFields
<1>2. getNormalizedDebt(r, t) \in Nat /\ RAY <= getNormalizedDebt(r, t)
  BY VariableBorrowIndexGrows
<1>3. /\ VariableDebtOf(r, u, t) \in Nat /\ r.variableDebt.balances[u] \in Nat
      /\ VariableDebtOf(r, u, t) = 0 => r.variableDebt.balances[u] = 0
  BY <1>1, <1>2, ScaledBalanceType DEF VariableDebtOf
<1>4. /\ StableDebtOf(r, u, t) \in Nat /\ r.stableDebt.balances[u] \in Nat
      /\ StableDebtOf(r, u, t) = 0 <=> r.stableDebt.balances[u] = 0
  BY <1>1, StableBalanceType DEF StableDebtOf
<1> QED BY <1>3, <1>4

\* The aToken side of the same.
LEMMA ATokenBalanceType ==
  ASSUME NEW t \in Nat, NEW r, Sound(r, t), NEW u \in Accounts
  PROVE  ATokenBalanceOf(r, u, t) \in Nat
<1>1. r.aToken \in ScaledLedger BY SoundFields
<1>2. getNormalizedIncome(r, t) \in Nat /\ RAY <= getNormalizedIncome(r, t)
  BY LiquidityIndexGrows
<1> QED BY <1>1, <1>2, ScaledBalanceType DEF ATokenBalanceOf

\* Minting debt in either mode: the only account that may become a debtor is the
\* one it is minted to.
LEMMA MintDebtSound ==
  ASSUME TypeOK, NEW r, Sound(r, now), NEW mode \in RateModes, NEW user \in Accounts,
         NEW amount \in Nat, CanMintDebt(r, mode, user, amount)
  PROVE  LET after == MintDebt(r, mode, user, amount)
         IN /\ Sound(after, now)
            /\ \A u \in Accounts \ {user} : InDebt(after, u) => InDebt(r, u)
            /\ after.liquidityIndex = r.liquidityIndex
            /\ after.variableBorrowIndex = r.variableBorrowIndex
            /\ after.cash = r.cash
<1>1. now \in Nat BY DEF TypeOK
<1>2. CASE mode = "stable"
  <2> DEFINE token == MintStable(r.stableDebt, user, amount, r.currentStableBorrowRate, now)
  <2>1. CanMintStable(r.stableDebt, user, amount, r.currentStableBorrowRate, now)
    BY <1>2 DEF CanMintDebt
  <2>2. r.currentStableBorrowRate \in Nat /\ StableSound(r.stableDebt, now)
    BY <1>1, SoundFields
  <2>3. /\ StableSound(token, now)
        /\ \A u \in Accounts \ {user} : token.balances[u] = r.stableDebt.balances[u]
    BY <1>1, <2>1, <2>2, MintStableSound
  <2>4. MintDebt(r, mode, user, amount) = [r EXCEPT !.stableDebt = token]
    BY <1>2 DEF MintDebt
  <2> HIDE DEF token
  <2> QED BY <2>3, <2>4, StableDebtReplaced DEF InDebt
<1>3. CASE mode = "variable"
  <2> DEFINE token == MintScaled(r.variableDebt, user, amount, r.variableBorrowIndex)
  <2>1. /\ r.variableDebt \in ScaledLedger
        /\ r.variableBorrowIndex \in Nat /\ RAY <= r.variableBorrowIndex
    BY <1>1, SoundFields
  <2>2. token \in ScaledLedger BY <2>1, MintScaledType
  <2>3. \A u \in Accounts \ {user} : token.balances[u] = r.variableDebt.balances[u]
    BY <2>1 DEF MintScaled, ScaledLedger, Balances
  <2>4. MintDebt(r, mode, user, amount) = [r EXCEPT !.variableDebt = token]
    BY <1>3 DEF MintDebt
  <2> HIDE DEF token
  <2> QED BY <2>2, <2>3, <2>4, VariableDebtReplaced DEF InDebt
<1> QED BY <1>2, <1>3 DEF RateModes

\* Burning debt in either mode makes nobody a debtor, and takes what it says.
LEMMA BurnDebtOfSound ==
  ASSUME TypeOK, NEW r, Sound(r, now), NEW mode \in RateModes, NEW user \in Accounts,
         NEW amount \in Nat, CanBurnDebtOf(r, mode, user, amount)
  PROVE  LET after == BurnDebtOf(r, mode, user, amount)
         IN /\ Sound(after, now)
            /\ \A u \in Accounts : InDebt(after, u) => InDebt(r, u)
            /\ after.liquidityIndex = r.liquidityIndex
            /\ after.variableBorrowIndex = r.variableBorrowIndex
            /\ after.cash = r.cash
            /\ mode = "stable" =>
                 /\ after.variableDebt = r.variableDebt
                 /\ after.stableDebt.balances[user] = StableDebtOf(r, user, now) - amount
            /\ mode = "variable" =>
                 /\ after.stableDebt = r.stableDebt
                 /\ after.variableDebt.balances[user]
                      = r.variableDebt.balances[user]
                          - AmountScaled(amount, r.variableBorrowIndex)
<1>1. now \in Nat BY DEF TypeOK
<1>2. CASE mode = "stable"
  <2> DEFINE token == BurnStable(r.stableDebt, user, amount, now)
  <2>1. CanBurnStable(r.stableDebt, user, amount, now) BY <1>2 DEF CanBurnDebtOf
  <2>2. StableSound(r.stableDebt, now) BY <1>1, SoundFields
  <2>3. /\ StableSound(token, now)
        /\ \A u \in Accounts \ {user} : token.balances[u] = r.stableDebt.balances[u]
        /\ token.balances[user] = StableDebtOf(r, user, now) - amount
        /\ token.balances[user] # 0 => r.stableDebt.balances[user] # 0
    BY <1>1, <2>1, <2>2, BurnStableSound DEF StableDebtOf
  <2>4. BurnDebtOf(r, mode, user, amount) = [r EXCEPT !.stableDebt = token]
    BY <1>2 DEF BurnDebtOf
  <2>5. \A u \in Accounts : r.stableDebt.balances[u] \in Nat /\ token.balances[u] \in Nat
    BY <2>2, <2>3 DEF StableSound, StableLedger, Balances
  <2> HIDE DEF token
  <2>6. \A u \in Accounts : token.balances[u] > 0 => r.stableDebt.balances[u] > 0
    BY <2>3, <2>5, SMT
  <2> DEFINE after == BurnDebtOf(r, mode, user, amount)
  <2>7. /\ Sound(after, now)
        /\ after.variableDebt = r.variableDebt /\ after.stableDebt = token
        /\ after.liquidityIndex = r.liquidityIndex
        /\ after.variableBorrowIndex = r.variableBorrowIndex
        /\ after.cash = r.cash
    BY <2>3, <2>4, StableDebtReplaced
  <2> HIDE DEF after
  <2>8. \A u \in Accounts : InDebt(after, u) => InDebt(r, u) BY <2>6, <2>7 DEF InDebt
  <2>9. mode # "variable" BY <1>2
  <2> QED BY <2>3, <2>7, <2>8, <2>9 DEF after
<1>3. CASE mode = "variable"
  <2> DEFINE token == BurnScaled(r.variableDebt, user, amount, r.variableBorrowIndex)
  <2>1. r.variableDebt \in ScaledLedger BY <1>1, SoundFields
  <2>2. CanBurnScaled(r.variableDebt, user, amount, r.variableBorrowIndex)
    BY <1>3 DEF CanBurnDebtOf
  <2>3. /\ token \in ScaledLedger
        /\ \A u \in Accounts : token.balances[u] <= r.variableDebt.balances[u]
    BY <2>1, <2>2, BurnScaledType
  <2>4. token.balances[user]
          = r.variableDebt.balances[user] - AmountScaled(amount, r.variableBorrowIndex)
    BY <2>1 DEF BurnScaled, ScaledLedger, Balances
  <2>5. BurnDebtOf(r, mode, user, amount) = [r EXCEPT !.variableDebt = token]
    BY <1>3 DEF BurnDebtOf
  <2>6. \A u \in Accounts : r.variableDebt.balances[u] \in Nat /\ token.balances[u] \in Nat
    BY <2>1, <2>3 DEF ScaledLedger, Balances
  <2> HIDE DEF token
  <2>7. \A u \in Accounts : token.balances[u] > 0 => r.variableDebt.balances[u] > 0
    BY <2>3, <2>6, SMT
  <2> DEFINE after == BurnDebtOf(r, mode, user, amount)
  <2>8. /\ Sound(after, now)
        /\ after.variableDebt = token /\ after.stableDebt = r.stableDebt
        /\ after.liquidityIndex = r.liquidityIndex
        /\ after.variableBorrowIndex = r.variableBorrowIndex
        /\ after.cash = r.cash
    BY <2>3, <2>5, VariableDebtReplaced
  <2> HIDE DEF after
  <2>9. \A u \in Accounts : InDebt(after, u) => InDebt(r, u) BY <2>7, <2>8 DEF InDebt
  <2>10. mode # "stable" BY <1>3
  <2> QED BY <2>4, <2>8, <2>9, <2>10 DEF after
<1> QED BY <1>2, <1>3 DEF RateModes

(***************************************************************************)
(* Burning the whole debt that was read before the reserve was updated     *)
(* leaves nothing of it: the view never runs behind the stored index.      *)
(***************************************************************************)
LEMMA FullBurnSettles ==
  ASSUME TypeOK, NEW a \in Assets, NEW r, Sound(r, now), CanAccrue(a, r),
         NEW mode \in RateModes, NEW user \in Accounts, NEW amount,
         amount = IF mode = "stable" THEN StableDebtOf(r, user, now)
                                     ELSE VariableDebtOf(r, user, now),
         CanBurnDebtOf(Accrued(a, r), mode, user, amount)
  PROVE  LET after == BurnDebtOf(Accrued(a, r), mode, user, amount)
         IN /\ mode = "stable" =>
                 after.stableDebt.balances[user] = 0 /\ after.variableDebt = r.variableDebt
            /\ mode = "variable" =>
                 after.variableDebt.balances[user] = 0 /\ after.stableDebt = r.stableDebt
<1> DEFINE accrued == Accrued(a, r)
<1>1. now \in Nat BY DEF TypeOK
<1>2. /\ Sound(accrued, now) /\ SameDebts(r, accrued)
      /\ accrued.variableBorrowIndex = UpdatedVariableBorrowIndex(r, now)
  BY AccruedSound
<1>3. amount \in Nat /\ r.variableDebt.balances[user] \in Nat BY <1>1, DebtTypes
<1>4. CASE mode = "stable"
  <2>1. StableDebtOf(accrued, user, now) = amount
    BY <1>2, <1>4 DEF StableDebtOf, SameDebts
  <2>2. amount - amount = 0 BY <1>3, SMT
  <2> HIDE DEF accrued
  <2> QED BY <1>2, <1>3, <1>4, <2>1, <2>2, BurnDebtOfSound DEF SameDebts, accrued
<1>5. CASE mode = "variable"
  <2> DEFINE s == r.variableDebt.balances[user]
             v == getNormalizedDebt(r, now)
             w == UpdatedVariableBorrowIndex(r, now)
  <2>1. amount = rayMul(s, v) BY <1>5 DEF VariableDebtOf, ScaledBalanceOf
  <2>2. v \in Nat /\ w \in Nat /\ RAY <= w /\ w <= v BY <1>1, VariableBorrowIndexGrows
  <2> HIDE DEF s, v, w
  <2>3. s \in Nat BY <1>3 DEF s
  <2>4. s <= AmountScaled(amount, w) BY <2>1, <2>2, <2>3, RayDivCovers DEF AmountScaled
  <2>5. AmountScaled(amount, w) \in 1 .. s
    BY <1>2, <1>5 DEF CanBurnDebtOf, CanBurnScaled, SameDebts, s, w
  <2>6. s - AmountScaled(amount, w) = 0 BY <2>3, <2>4, <2>5, SMT
  <2>7. /\ BurnDebtOf(accrued, mode, user, amount).variableDebt.balances[user]
              = s - AmountScaled(amount, w)
        /\ BurnDebtOf(accrued, mode, user, amount).stableDebt = r.stableDebt
    BY <1>2, <1>3, <1>5, BurnDebtOfSound DEF SameDebts, s, w
  <2> QED BY <1>5, <2>6, <2>7
<1> QED BY <1>4, <1>5 DEF RateModes

(***************************************************************************)
(* Bits, wallets and allowances.                                           *)
(***************************************************************************)
Bits == [Accounts -> SUBSET Assets]
Wallets == [Assets -> Balances]

\* UserConfiguration.setBorrowing and setUsingAsCollateral stay in the list.
LEMMA BitTypes ==
  ASSUME NEW bits \in Bits, NEW u \in Accounts, NEW a \in Assets
  PROVE  WithBit(bits, u, a) \in Bits /\ WithoutBit(bits, u, a) \in Bits
BY DEF Bits, WithBit, WithoutBit

\* Underlying tokens reaching an account.
LEMMA ReceivedType ==
  ASSUME NEW w \in Wallets, NEW a \in Assets, NEW u \in Accounts, NEW amount \in Nat
  PROVE  Received(w, a, u, amount) \in Wallets
<1>1. w[a] \in Balances /\ w[a][u] \in Nat BY DEF Wallets, Balances
<1>2. w[a][u] + amount \in Nat BY <1>1, SMT
<1>3. [w[a] EXCEPT ![u] = w[a][u] + amount] \in Balances BY <1>1, <1>2 DEF Balances
<1>4. Received(w, a, u, amount) = [w EXCEPT ![a] = [w[a] EXCEPT ![u] = w[a][u] + amount]]
  BY DEF Received
<1> QED BY <1>3, <1>4 DEF Wallets

\* Underlying tokens leaving an account that has them.
LEMMA PaidType ==
  ASSUME NEW w \in Wallets, NEW a \in Assets, NEW u \in Accounts, NEW amount \in Nat,
         amount <= w[a][u]
  PROVE  Paid(w, a, u, amount) \in Wallets
<1>1. w[a] \in Balances /\ w[a][u] \in Nat BY DEF Wallets, Balances
<1>2. w[a][u] - amount \in Nat BY <1>1, SMT
<1>3. [w[a] EXCEPT ![u] = w[a][u] - amount] \in Balances BY <1>1, <1>2 DEF Balances
<1>4. Paid(w, a, u, amount) = [w EXCEPT ![a] = [w[a] EXCEPT ![u] = w[a][u] - amount]]
  BY DEF Paid
<1> QED BY <1>3, <1>4 DEF Wallets

Allowances == [Assets -> [RateModes -> [Accounts -> Balances]]]

\* Writing one borrow allowance.
LEMMA AllowanceType ==
  ASSUME NEW al \in Allowances, NEW a \in Assets, NEW m \in RateModes,
         NEW u \in Accounts, NEW v \in Accounts, NEW amount \in Nat
  PROVE  [al EXCEPT ![a][m][u][v] = amount] \in Allowances
<1>1. /\ al[a] \in [RateModes -> [Accounts -> Balances]]
      /\ al[a][m] \in [Accounts -> Balances]
      /\ al[a][m][u] \in Balances
  BY DEF Allowances
<1>2. [al[a][m][u] EXCEPT ![v] = amount] \in Balances BY <1>1 DEF Balances
<1>3. [al[a][m] EXCEPT ![u] = [al[a][m][u] EXCEPT ![v] = amount]] \in [Accounts -> Balances]
  BY <1>1, <1>2
<1>4. [al[a] EXCEPT ![m] = [al[a][m] EXCEPT ![u] = [al[a][m][u] EXCEPT ![v] = amount]]]
        \in [RateModes -> [Accounts -> Balances]]
  BY <1>1, <1>3
<1>5. [al EXCEPT ![a][m][u][v] = amount]
        = [al EXCEPT ![a] = [al[a] EXCEPT ![m] =
             [al[a][m] EXCEPT ![u] = [al[a][m][u] EXCEPT ![v] = amount]]]]
  OBVIOUS
<1> QED BY <1>4, <1>5 DEF Allowances

(***************************************************************************)
(* A transaction on one reserve.                                           *)
(***************************************************************************)
Step == IInv' /\ IndexesGrow

\* IInv by its parts.
LEMMA IInvParts ==
  ASSUME IInv
  PROVE  /\ TypeOK /\ now \in Nat
         /\ borrowing \in Bits /\ usingAsCollateral \in Bits
         /\ borrowAllowance \in Allowances /\ wallet \in Wallets
         /\ \A a \in Assets : Sound(reserves[a], now)
         /\ \A u \in Accounts, a \in Assets : InDebt(reserves[a], u) => a \in borrowing[u]
BY DEF IInv, TypeOK, Bits, Allowances, Wallets, BorrowBitCoversDebt

\* IndexesGrow from its parts, reserve by reserve.
LEMMA IndexesGrowWhere ==
  ASSUME IInv, \A a \in Assets : IndexesAtLeast(reserves[a], reserves'[a]),
         \A a \in Assets : reserves'[a] \in Reserve
  PROVE  IndexesGrow
<1> SUFFICES ASSUME NEW a \in Assets
             PROVE  /\ reserves'[a].liquidityIndex >= reserves[a].liquidityIndex
                    /\ reserves'[a].variableBorrowIndex >= reserves[a].variableBorrowIndex
  BY DEF IndexesGrow
<1>1. reserves[a].liquidityIndex \in Nat /\ reserves[a].variableBorrowIndex \in Nat
  BY IInvParts, SoundFields
<1>2. reserves'[a].liquidityIndex \in Nat /\ reserves'[a].variableBorrowIndex \in Nat
  BY DEF Reserve
<1> QED BY <1>1, <1>2, SMT DEF IndexesAtLeast

\* A transaction that writes one reserve keeps IInv when the reserve it writes is
\* sound and every debtor in it has the borrowing bit afterwards.
LEMMA ReserveStep ==
  ASSUME IInv, NEW a \in Assets, NEW R, Sound(R, now), IndexesAtLeast(reserves[a], R),
         reserves' = [reserves EXCEPT ![a] = R],
         UNCHANGED <<configuration, paused, price, now>>,
         borrowing' \in Bits, usingAsCollateral' \in Bits,
         borrowAllowance' \in Allowances, wallet' \in Wallets,
         \A u \in Accounts : borrowing[u] \ {a} \subseteq borrowing'[u],
         \A u \in Accounts : InDebt(R, u) => a \in borrowing'[u]
  PROVE  Step
<1>1. TypeOK /\ now \in Nat BY IInvParts
<1>2. reserves \in [Assets -> Reserve] /\ R \in Reserve BY <1>1 DEF TypeOK, Sound
<1>3. /\ reserves' \in [Assets -> Reserve]
      /\ reserves'[a] = R
      /\ \A b \in Assets \ {a} : reserves'[b] = reserves[b]
  BY <1>2
<1>4. TypeOK' BY <1>1, <1>3 DEF TypeOK, Bits, Allowances, Wallets
<1>5. \A b \in Assets : Sound(reserves'[b], now')
  BY <1>3, IInvParts
<1>6. BorrowBitCoversDebt'
  <2> SUFFICES ASSUME NEW u \in Accounts, NEW b \in Assets, InDebt(reserves'[b], u)
               PROVE  b \in borrowing'[u]
    BY DEF BorrowBitCoversDebt
  <2>1. CASE b = a BY <1>3, <2>1
  <2>2. CASE b # a
    <3>1. InDebt(reserves[b], u) BY <1>3, <2>2
    <3> QED BY <2>2, <3>1, IInvParts
  <2> QED BY <2>1, <2>2
<1>7. \A b \in Assets : IndexesAtLeast(reserves[b], reserves'[b])
  <2> SUFFICES ASSUME NEW b \in Assets PROVE IndexesAtLeast(reserves[b], reserves'[b])
    OBVIOUS
  <2>1. CASE b = a BY <1>3, <2>1
  <2>2. CASE b # a
    <3>1. reserves'[b] = reserves[b] BY <1>3, <2>2
    <3> QED BY <1>1, <3>1, IInvParts, IndexesAtLeastItself
  <2> QED BY <2>1, <2>2
<1>8. IndexesGrow BY <1>3, <1>7, IndexesGrowWhere
<1> QED BY <1>4, <1>5, <1>6, <1>8 DEF Step, IInv

\* A step that leaves the reserves and the borrowing bits alone.
LEMMA OtherStep ==
  ASSUME IInv, TypeOK', UNCHANGED <<reserves, borrowing>>, now <= now'
  PROVE  Step
<1>1. TypeOK /\ now \in Nat /\ now' \in Nat BY IInvParts DEF TypeOK
<1>2. \A b \in Assets : Sound(reserves'[b], now')
  <2> SUFFICES ASSUME NEW b \in Assets PROVE Sound(reserves[b], now') OBVIOUS
  <2>1. Sound(reserves[b], now) BY IInvParts
  <2>2. /\ reserves[b].lastUpdateTimestamp \in Nat
        /\ reserves[b].stableDebt \in StableLedger
    BY <1>1, <2>1, SoundFields DEF StableSound
  <2>3. /\ reserves[b].stableDebt.totalSupplyTimestamp \in Nat
        /\ \A u \in Accounts : reserves[b].stableDebt.timestamps[u] \in Nat
    BY <2>2 DEF StableLedger, Balances
  <2>4. /\ reserves[b].lastUpdateTimestamp <= now'
        /\ reserves[b].stableDebt.totalSupplyTimestamp <= now'
        /\ \A u \in Accounts : reserves[b].stableDebt.timestamps[u] <= now'
    BY <1>1, <2>1, <2>2, <2>3, SMT DEF Sound, StableSound
  <2> QED BY <2>1, <2>4 DEF Sound, StableSound
<1>3. BorrowBitCoversDebt' BY IInvParts DEF BorrowBitCoversDebt
<1>4. \A b \in Assets : reserves'[b] \in Reserve BY <1>2 DEF Sound
<1>5. \A b \in Assets : IndexesAtLeast(reserves[b], reserves'[b])
  BY <1>1, IInvParts, IndexesAtLeastItself
<1>6. IndexesGrow BY <1>4, <1>5, IndexesGrowWhere
<1> QED BY <1>2, <1>3, <1>6 DEF Step, IInv

(***************************************************************************)
(* Deposits, withdrawals and transfers leave every debt alone.             *)
(***************************************************************************)
LEMMA AmountsAreNumbers ==
  ASSUME NEW x \in Amounts
  PROVE  x \in Nat
BY LendingPoolAssumption, MarketAssumption, SMT

\* Whoever owes nothing in unchanged ledgers owes nothing.
LEMMA SameDebtors ==
  ASSUME NEW r1, NEW r2, SameDebts(r1, r2), NEW u
  PROVE  InDebt(r2, u) <=> InDebt(r1, u)
BY DEF SameDebts, InDebt

\* The reserve of an operation that only moves aTokens and cash.
LEMMA SupplyStep ==
  ASSUME IInv, NEW a \in Assets, NEW delta \in Int, CanAccrue(a, reserves[a]),
         CanReprice(a, Accrued(a, reserves[a]), delta),
         NEW token \in ScaledLedger, NEW cash \in Nat,
         reserves' = [reserves EXCEPT ![a] =
           [Repriced(a, Accrued(a, reserves[a]), delta) EXCEPT !.aToken = token, !.cash = cash]],
         UNCHANGED <<configuration, borrowing, paused, borrowAllowance, price, now>>,
         usingAsCollateral' \in Bits, wallet' \in Wallets
  PROVE  Step
<1> DEFINE accrued  == Accrued(a, reserves[a])
           repriced == Repriced(a, accrued, delta)
           R == WithSupply(repriced, token, cash)
<1>1. TypeOK /\ Sound(reserves[a], now) BY IInvParts
<1>2. /\ Sound(accrued, now) /\ SameDebts(reserves[a], accrued)
      /\ IndexesAtLeast(reserves[a], accrued)
  BY <1>1, AccruedSound
<1> HIDE DEF accrued
<1>3. /\ Sound(repriced, now) /\ SameDebts(accrued, repriced)
      /\ repriced.liquidityIndex = accrued.liquidityIndex
      /\ repriced.variableBorrowIndex = accrued.variableBorrowIndex
  BY <1>1, <1>2, RepricedSound DEF accrued
<1> HIDE DEF repriced
<1>4. /\ Sound(R, now) /\ SameDebts(repriced, R)
      /\ R.liquidityIndex = repriced.liquidityIndex
      /\ R.variableBorrowIndex = repriced.variableBorrowIndex
  BY <1>3, SupplyReplaced
<1>5. reserves' = [reserves EXCEPT ![a] = R] BY DEF repriced, accrued, WithSupply
<1> HIDE DEF R
<1>6. IndexesAtLeast(reserves[a], R) BY <1>2, <1>3, <1>4 DEF IndexesAtLeast
<1>7. \A u \in Accounts : InDebt(R, u) => a \in borrowing'[u]
  BY <1>2, <1>3, <1>4, IInvParts, SameDebtors
<1>8. borrowing' \in Bits /\ borrowAllowance' \in Allowances BY IInvParts
<1>9. \A u \in Accounts : borrowing[u] \ {a} \subseteq borrowing'[u] OBVIOUS
<1> QED BY <1>4, <1>5, <1>6, <1>7, <1>8, <1>9, ReserveStep

\* What the aToken and the cash of a reserve are while it is accrued and repriced.
LEMMA AccruedTokens ==
  ASSUME IInv, NEW a \in Assets, NEW delta, CanAccrue(a, reserves[a]),
         CanReprice(a, Accrued(a, reserves[a]), delta)
  PROVE  LET repriced == Repriced(a, Accrued(a, reserves[a]), delta)
         IN /\ repriced.aToken \in ScaledLedger
            /\ repriced.liquidityIndex \in Nat /\ RAY <= repriced.liquidityIndex
            /\ repriced.cash = reserves[a].cash
            /\ repriced.cash \in Nat
            /\ repriced.cash + delta >= 0
<1> DEFINE accrued  == Accrued(a, reserves[a])
           repriced == Repriced(a, accrued, delta)
<1>1. TypeOK /\ Sound(reserves[a], now) /\ now \in Nat BY IInvParts
<1>2. Sound(accrued, now) /\ accrued.cash = reserves[a].cash BY <1>1, AccruedSound
<1> HIDE DEF accrued
<1>3. /\ Sound(repriced, now) /\ repriced.cash = accrued.cash
      /\ accrued.cash + delta >= 0
  BY <1>1, <1>2, RepricedSound DEF accrued
<1> HIDE DEF repriced
<1> QED BY <1>1, <1>2, <1>3, SoundFields DEF repriced, accrued

\* LendingPool.deposit keeps IInv.
LEMMA DepositStep ==
  ASSUME IInv, NEW caller \in Users, NEW a \in Assets, NEW x \in Amounts,
         NEW onBehalfOf \in Users, deposit(caller, a, x, onBehalfOf)
  PROVE  Step
<1> DEFINE repriced == Repriced(a, Accrued(a, reserves[a]), x)
           token == MintScaled(repriced.aToken, onBehalfOf, x, repriced.liquidityIndex)
<1>1. x \in Nat /\ x \in Int BY AmountsAreNumbers, SMT
<1>2. caller \in Accounts /\ onBehalfOf \in Accounts BY MarketAssumption
<1>3. CanAccrue(a, reserves[a]) /\ CanReprice(a, Accrued(a, reserves[a]), x)
  BY DEF deposit
<1>4. /\ repriced.aToken \in ScaledLedger
      /\ repriced.liquidityIndex \in Nat /\ RAY <= repriced.liquidityIndex
      /\ repriced.cash \in Nat
  BY <1>3, AccruedTokens
<1>5. reserves' = [reserves EXCEPT ![a] =
        [repriced EXCEPT !.aToken = token, !.cash = repriced.cash + x]]
  BY DEF deposit
<1>6. UNCHANGED <<configuration, borrowing, paused, borrowAllowance, price, now>>
  BY DEF deposit
<1>7. usingAsCollateral' \in Bits
  <2>1. usingAsCollateral' \in {usingAsCollateral, WithBit(usingAsCollateral, onBehalfOf, a)}
    BY DEF deposit
  <2> QED BY <1>2, <2>1, IInvParts, BitTypes
<1>8. wallet' \in Wallets
  <2>1. wallet' = Paid(wallet, a, caller, x) /\ x <= wallet[a][caller] BY DEF deposit
  <2> QED BY <1>1, <1>2, <2>1, IInvParts, PaidType
<1>9. token \in ScaledLedger
  <2> HIDE DEF repriced
  <2> QED BY <1>1, <1>2, <1>4, MintScaledType
<1>10. repriced.cash + x \in Nat
  <2> HIDE DEF repriced
  <2> QED BY <1>1, <1>4, SMT
<1> HIDE DEF token
<1> QED BY <1>1, <1>3, <1>5, <1>6, <1>7, <1>8, <1>9, <1>10, SupplyStep

\* LendingPool.withdraw keeps IInv, also for type(uint256).max.
LEMMA WithdrawStep ==
  ASSUME IInv, NEW caller \in Users, NEW a \in Assets, NEW x \in Amounts,
         NEW to \in Users, withdraw(caller, a, x, to)
  PROVE  Step
<1> DEFINE userBalance == ATokenBalanceOf(reserves[a], caller, now)
           withdrawn == IF x = MAX_UINT256 THEN userBalance ELSE x
           repriced == Repriced(a, Accrued(a, reserves[a]), -withdrawn)
           token == BurnScaled(repriced.aToken, caller, withdrawn, repriced.liquidityIndex)
<1>1. caller \in Accounts /\ to \in Accounts BY MarketAssumption
<1>2. withdrawn \in Nat
  <2>1. userBalance \in Nat BY <1>1, IInvParts, ATokenBalanceType
  <2> QED BY <2>1, AmountsAreNumbers
<1>3. /\ CanAccrue(a, reserves[a])
      /\ CanReprice(a, Accrued(a, reserves[a]), -withdrawn)
      /\ CanBurnScaled(repriced.aToken, caller, withdrawn, repriced.liquidityIndex)
  BY DEF withdraw
<1>4. reserves' = [reserves EXCEPT ![a] =
        [repriced EXCEPT !.aToken = token, !.cash = repriced.cash - withdrawn]]
  BY DEF withdraw
<1>5. UNCHANGED <<configuration, borrowing, paused, borrowAllowance, price, now>>
  BY DEF withdraw
<1>6. usingAsCollateral' \in Bits
  <2>1. usingAsCollateral' \in {usingAsCollateral, WithoutBit(usingAsCollateral, caller, a)}
    BY DEF withdraw
  <2> QED BY <1>1, <2>1, IInvParts, BitTypes
<1>7. wallet' = Received(wallet, a, to, withdrawn) BY DEF withdraw
<1> HIDE DEF withdrawn
<1>8. wallet' \in Wallets BY <1>1, <1>2, <1>7, IInvParts, ReceivedType
<1>9. /\ repriced.aToken \in ScaledLedger
      /\ repriced.cash \in Nat /\ repriced.cash + (-withdrawn) >= 0
  BY <1>3, AccruedTokens
<1>10. -withdrawn \in Int BY <1>2, SMT
<1>11. token \in ScaledLedger BY <1>1, <1>3, <1>9, BurnScaledType
<1>12. repriced.cash - withdrawn \in Nat
  <2> HIDE DEF repriced
  <2> QED BY <1>2, <1>9, SMT
<1> HIDE DEF token
<1> QED BY <1>3, <1>4, <1>5, <1>6, <1>8, <1>10, <1>11, <1>12, SupplyStep

\* AToken.transfer with finalizeTransfer keeps IInv.
LEMMA TransferStep ==
  ASSUME IInv, NEW from \in Users, NEW a \in Assets, NEW to \in Users,
         NEW x \in Amounts, transfer(from, a, to, x)
  PROVE  Step
<1> DEFINE index == getNormalizedIncome(reserves[a], now)
           token == MoveScaled(reserves[a].aToken, from, to, x, index)
           R == WithSupply(reserves[a], token, reserves[a].cash)
<1>1. /\ TypeOK /\ now \in Nat /\ Sound(reserves[a], now)
      /\ from \in Accounts /\ to \in Accounts
  BY IInvParts, MarketAssumption
<1>2. index \in Nat /\ RAY <= index BY <1>1, LiquidityIndexGrows
<1>3. CanMoveScaled(reserves[a].aToken, from, x, index) BY DEF transfer
<1>4. reserves' = [reserves EXCEPT ![a] = [reserves[a] EXCEPT !.aToken = token]]
  BY DEF transfer
<1> HIDE DEF index
<1>5. token \in ScaledLedger
  BY <1>1, <1>2, <1>3, SoundFields, AmountsAreNumbers, MoveScaledType
<1> HIDE DEF token
<1>6. reserves[a] \in Reserve /\ reserves[a].cash \in Nat BY <1>1, SoundFields DEF Sound
<1>7. [reserves[a] EXCEPT !.aToken = token] = R BY <1>6 DEF Reserve, WithSupply
<1>8. /\ Sound(R, now) /\ SameDebts(reserves[a], R)
      /\ R.liquidityIndex = reserves[a].liquidityIndex
      /\ R.variableBorrowIndex = reserves[a].variableBorrowIndex
  BY <1>1, <1>5, <1>6, SupplyReplaced
<1>9. reserves' = [reserves EXCEPT ![a] = R] BY <1>4, <1>7
<1> HIDE DEF R
<1>10. IndexesAtLeast(reserves[a], R) BY <1>1, <1>8, IndexesAtLeastItself
<1>11. /\ UNCHANGED <<configuration, borrowing, paused, borrowAllowance, wallet, price, now>>
  BY DEF transfer
<1>12. usingAsCollateral' \in Bits
  <2>1. usingAsCollateral'
          \in {usingAsCollateral, WithoutBit(usingAsCollateral, from, a),
               WithBit(usingAsCollateral, to, a),
               WithBit(WithoutBit(usingAsCollateral, from, a), to, a)}
    BY DEF transfer, BitsAfterTransfer
  <2> QED BY <1>1, <2>1, IInvParts, BitTypes
<1>13. \A u \in Accounts : InDebt(R, u) => a \in borrowing'[u]
  BY <1>8, <1>11, IInvParts, SameDebtors
<1>14. /\ borrowing' \in Bits /\ borrowAllowance' \in Allowances /\ wallet' \in Wallets
       /\ \A u \in Accounts : borrowing[u] \ {a} \subseteq borrowing'[u]
  BY <1>11, IInvParts
<1> QED BY <1>8, <1>9, <1>10, <1>11, <1>12, <1>13, <1>14, ReserveStep

(***************************************************************************)
(* Operations that change debts.  r is the reserve when its tokens are     *)
(* done and only the rates and the cash are left to write.                 *)
(***************************************************************************)
LEMMA DebtStep ==
  ASSUME IInv, NEW a \in Assets, NEW r, Sound(r, now), IndexesAtLeast(reserves[a], r),
         NEW delta, CanReprice(a, r, delta), NEW cash \in Nat,
         reserves' = [reserves EXCEPT ![a] = WithCash(Repriced(a, r, delta), cash)],
         UNCHANGED <<configuration, usingAsCollateral, paused, price, now>>,
         borrowing' \in Bits, borrowAllowance' \in Allowances, wallet' \in Wallets,
         \A u \in Accounts : borrowing[u] \ {a} \subseteq borrowing'[u],
         \A u \in Accounts : InDebt(r, u) => a \in borrowing'[u]
  PROVE  Step
<1> DEFINE repriced == Repriced(a, r, delta)
           R == WithCash(repriced, cash)
<1>1. TypeOK BY IInvParts
<1>2. /\ Sound(repriced, now) /\ SameDebts(r, repriced)
      /\ repriced.liquidityIndex = r.liquidityIndex
      /\ repriced.variableBorrowIndex = r.variableBorrowIndex
  BY <1>1, RepricedSound
<1> HIDE DEF repriced
<1>3. /\ Sound(R, now) /\ SameDebts(repriced, R)
      /\ R.liquidityIndex = repriced.liquidityIndex
      /\ R.variableBorrowIndex = repriced.variableBorrowIndex
  BY <1>2, CashReplaced
<1>4. reserves' = [reserves EXCEPT ![a] = R] BY DEF repriced
<1> HIDE DEF R
<1>5. IndexesAtLeast(reserves[a], R) BY <1>2, <1>3 DEF IndexesAtLeast
<1>6. \A u \in Accounts : InDebt(R, u) => a \in borrowing'[u]
  BY <1>2, <1>3, SameDebtors
<1>7. usingAsCollateral' \in Bits BY IInvParts
<1> QED BY <1>3, <1>4, <1>5, <1>6, <1>7, ReserveStep

\* The reserve an operation on a debt starts from.
LEMMA AccruedDebts ==
  ASSUME IInv, NEW a \in Assets, CanAccrue(a, reserves[a])
  PROVE  LET accrued == Accrued(a, reserves[a])
         IN /\ TypeOK /\ now \in Nat /\ Sound(accrued, now)
            /\ IndexesAtLeast(reserves[a], accrued)
            /\ \A u \in Accounts : InDebt(accrued, u) => a \in borrowing[u]
<1>1. TypeOK /\ now \in Nat /\ Sound(reserves[a], now) BY IInvParts
<1>2. /\ Sound(Accrued(a, reserves[a]), now)
      /\ SameDebts(reserves[a], Accrued(a, reserves[a]))
      /\ IndexesAtLeast(reserves[a], Accrued(a, reserves[a]))
  BY <1>1, AccruedSound
<1> QED BY <1>1, <1>2, IInvParts, SameDebtors

\* Cash that the guards of updateInterestRates leave room for.
LEMMA CashAfter ==
  ASSUME TypeOK, NEW a \in Assets, NEW r, Sound(r, now), NEW delta \in Int,
         CanReprice(a, r, delta)
  PROVE  /\ Repriced(a, r, delta).cash = r.cash
         /\ r.cash + delta \in Nat
<1>1. now \in Nat BY DEF TypeOK
<1>2. r.cash \in Nat BY <1>1, SoundFields
<1>3. Repriced(a, r, delta).cash = r.cash /\ r.cash + delta >= 0 BY RepricedSound
<1> QED BY <1>2, <1>3, SMT

\* A borrow that does not set the bit is one by a debtor: the isFirstBorrowing
\* that the debt tokens return reads their own balance.
LEMMA FirstBorrowing ==
  ASSUME TypeOK, NEW r, Sound(r, now), NEW mode \in RateModes, NEW user \in Accounts,
         ~isFirstBorrowing(r, mode, user)
  PROVE  InDebt(r, user)
<1>1. now \in Nat BY DEF TypeOK
<1>2. /\ r.variableDebt.balances[user] \in Nat /\ r.stableDebt.balances[user] \in Nat
      /\ StableDebtOf(r, user, now) = 0 <=> r.stableDebt.balances[user] = 0
  BY <1>1, DebtTypes
<1>3. r.variableDebt.balances[user] # 0 \/ r.stableDebt.balances[user] # 0
  BY <1>2 DEF isFirstBorrowing, RateModes
<1> QED BY <1>2, <1>3, SMT DEF InDebt

\* LendingPool.borrow keeps IInv: the bit is set with the first debt of the mode.
LEMMA BorrowStep ==
  ASSUME IInv, NEW caller \in Users, NEW a \in Assets, NEW x \in Amounts,
         NEW mode \in RateModes, NEW onBehalfOf \in Users,
         borrow(caller, a, x, mode, onBehalfOf)
  PROVE  Step
<1> DEFINE accrued  == Accrued(a, reserves[a])
           minted   == MintDebt(accrued, mode, onBehalfOf, x)
           repriced == Repriced(a, minted, -x)
           first    == isFirstBorrowing(accrued, mode, onBehalfOf)
<1>1. /\ x \in Nat /\ -x \in Int
      /\ caller \in Accounts /\ onBehalfOf \in Accounts
  BY AmountsAreNumbers, MarketAssumption, SMT
<1>2. /\ CanAccrue(a, reserves[a])
      /\ CanMintDebt(accrued, mode, onBehalfOf, x)
      /\ CanReprice(a, minted, -x)
      /\ MaySpend(caller, a, mode, onBehalfOf, x)
  BY DEF borrow
<1>3. /\ reserves' = [reserves EXCEPT ![a] = WithCash(repriced, repriced.cash - x)]
      /\ borrowing' = IF first THEN WithBit(borrowing, onBehalfOf, a) ELSE borrowing
      /\ borrowAllowance' = AllowanceSpent(caller, a, mode, onBehalfOf, x)
      /\ wallet' = Received(wallet, a, caller, x)
      /\ UNCHANGED <<configuration, usingAsCollateral, paused, price, now>>
  BY DEF borrow, WithCash
<1>4. /\ TypeOK /\ now \in Nat /\ Sound(accrued, now)
      /\ IndexesAtLeast(reserves[a], accrued)
      /\ \A u \in Accounts : InDebt(accrued, u) => a \in borrowing[u]
  BY <1>2, AccruedDebts
<1> HIDE DEF accrued
<1>5. /\ Sound(minted, now)
      /\ \A u \in Accounts \ {onBehalfOf} : InDebt(minted, u) => InDebt(accrued, u)
      /\ minted.liquidityIndex = accrued.liquidityIndex
      /\ minted.variableBorrowIndex = accrued.variableBorrowIndex
  BY <1>1, <1>2, <1>4, MintDebtSound
<1> HIDE DEF minted
<1>6. repriced.cash = minted.cash /\ minted.cash + (-x) \in Nat
  BY <1>1, <1>2, <1>4, <1>5, CashAfter
<1>7. minted.cash \in Nat BY <1>4, <1>5, SoundFields
<1> HIDE DEF repriced
<1>8. repriced.cash - x \in Nat BY <1>1, <1>6, <1>7, SMT
<1>9. IndexesAtLeast(reserves[a], minted) BY <1>4, <1>5 DEF IndexesAtLeast
<1>10. borrowing \in Bits /\ wallet \in Wallets /\ borrowAllowance \in Allowances
  BY IInvParts
<1>11. borrowing' \in Bits BY <1>1, <1>3, <1>10, BitTypes
<1>12. wallet' \in Wallets BY <1>1, <1>3, <1>10, ReceivedType
<1>13. borrowAllowance' \in Allowances
  <2>1. CASE caller = onBehalfOf BY <1>3, <1>10, <2>1 DEF AllowanceSpent
  <2>2. CASE caller # onBehalfOf
    <3> DEFINE allowance == borrowAllowance[a][mode][onBehalfOf][caller]
    <3>1. allowance \in Nat BY <1>1, <1>10 DEF Allowances, Balances
    <3>2. x <= allowance BY <1>2, <2>2 DEF MaySpend
    <3>3. allowance - x \in Nat BY <1>1, <3>1, <3>2, SMT
    <3>4. borrowAllowance'
            = [borrowAllowance EXCEPT ![a][mode][onBehalfOf][caller] = allowance - x]
      BY <1>3, <2>2 DEF AllowanceSpent
    <3> QED BY <1>1, <1>10, <3>3, <3>4, AllowanceType
  <2> QED BY <2>1, <2>2
<1>14. \A u \in Accounts : borrowing[u] \subseteq borrowing'[u]
  BY <1>1, <1>3, <1>10 DEF Bits, WithBit
<1>15. \A u \in Accounts : InDebt(minted, u) => a \in borrowing'[u]
  <2>1. \A u \in Accounts \ {onBehalfOf} : InDebt(minted, u) => a \in borrowing'[u]
    BY <1>4, <1>5, <1>14
  <2>2. CASE first
    <3>1. a \in borrowing'[onBehalfOf] BY <1>1, <1>3, <1>10, <2>2 DEF Bits, WithBit
    <3> QED BY <2>1, <3>1
  <2>3. CASE ~first
    <3>1. InDebt(accrued, onBehalfOf) BY <1>1, <1>4, <2>3, FirstBorrowing
    <3>2. a \in borrowing'[onBehalfOf] BY <1>1, <1>4, <1>14, <3>1
    <3> QED BY <2>1, <3>2
  <2> QED BY <2>2, <2>3
<1>16. \A u \in Accounts : borrowing[u] \ {a} \subseteq borrowing'[u] BY <1>14
<1>17. reserves' = [reserves EXCEPT ![a] =
         WithCash(Repriced(a, minted, -x), repriced.cash - x)]
  BY <1>3 DEF repriced
<1> QED BY <1>2, <1>3, <1>5, <1>8, <1>9, <1>11, <1>12, <1>13, <1>15, <1>16, <1>17, DebtStep

\* Clearing the bit after a repayment of everything owed, in both modes.
LEMMA ClearedWhenSettled ==
  ASSUME TypeOK, NEW a \in Assets, NEW r, Sound(r, now), CanAccrue(a, r),
         NEW mode \in RateModes, NEW user \in Accounts, NEW amount \in Nat,
         amount <= IF mode = "stable" THEN StableDebtOf(r, user, now)
                                      ELSE VariableDebtOf(r, user, now),
         CanBurnDebtOf(Accrued(a, r), mode, user, amount),
         ClearsBorrowing(StableDebtOf(r, user, now), VariableDebtOf(r, user, now), amount)
  PROVE  ~InDebt(BurnDebtOf(Accrued(a, r), mode, user, amount), user)
<1> DEFINE stable   == StableDebtOf(r, user, now)
           variable == VariableDebtOf(r, user, now)
           burned   == BurnDebtOf(Accrued(a, r), mode, user, amount)
<1>1. now \in Nat BY DEF TypeOK
<1>2. /\ stable \in Nat /\ variable \in Nat
      /\ variable = 0 => r.variableDebt.balances[user] = 0
      /\ stable = 0 => r.stableDebt.balances[user] = 0
  BY <1>1, DebtTypes
<1>3. stable + variable - amount = 0 BY DEF ClearsBorrowing
<1>4. amount <= IF mode = "stable" THEN stable ELSE variable OBVIOUS
<1> HIDE DEF stable, variable
<1>5. CASE mode = "stable"
  <2>1. amount = stable /\ variable = 0 BY <1>2, <1>3, <1>4, <1>5, SMT
  <2>2. burned.stableDebt.balances[user] = 0 /\ burned.variableDebt = r.variableDebt
    BY <1>5, <2>1, FullBurnSettles DEF stable
  <2> QED BY <1>2, <2>1, <2>2, SMT DEF InDebt
<1>6. CASE mode = "variable"
  <2>1. amount = variable /\ stable = 0 BY <1>2, <1>3, <1>4, <1>6, SMT
  <2>2. burned.variableDebt.balances[user] = 0 /\ burned.stableDebt = r.stableDebt
    BY <1>6, <2>1, FullBurnSettles DEF variable
  <2> QED BY <1>2, <2>1, <2>2, SMT DEF InDebt
<1> QED BY <1>5, <1>6 DEF RateModes

\* LendingPool.repay keeps IInv: the bit goes only when both debts are gone.
LEMMA RepayStep ==
  ASSUME IInv, NEW caller \in Users, NEW a \in Assets, NEW x \in Amounts,
         NEW mode \in RateModes, NEW onBehalfOf \in Users,
         repay(caller, a, x, mode, onBehalfOf)
  PROVE  Step
<1> DEFINE stable   == StableDebtOf(reserves[a], onBehalfOf, now)
           variable == VariableDebtOf(reserves[a], onBehalfOf, now)
           debt     == IF mode = "stable" THEN stable ELSE variable
           amount   == IF x < debt THEN x ELSE debt
           accrued  == Accrued(a, reserves[a])
           burned   == BurnDebtOf(accrued, mode, onBehalfOf, amount)
           repriced == Repriced(a, burned, amount)
           clears   == ClearsBorrowing(stable, variable, amount)
<1>1. /\ x \in Nat /\ caller \in Accounts /\ onBehalfOf \in Accounts
  BY AmountsAreNumbers, MarketAssumption
<1>2. stable \in Nat /\ variable \in Nat BY <1>1, IInvParts, DebtTypes
<1>3. /\ CanAccrue(a, reserves[a])
      /\ CanBurnDebtOf(accrued, mode, onBehalfOf, amount)
      /\ CanReprice(a, burned, amount)
      /\ amount <= wallet[a][caller]
  BY DEF repay
<1>4. /\ reserves' = [reserves EXCEPT ![a] = WithCash(repriced, repriced.cash + amount)]
      /\ borrowing' = IF clears THEN WithoutBit(borrowing, onBehalfOf, a) ELSE borrowing
      /\ wallet' = Paid(wallet, a, caller, amount)
      /\ UNCHANGED <<configuration, usingAsCollateral, paused, borrowAllowance, price, now>>
  BY DEF repay, WithCash
<1>5. /\ TypeOK /\ now \in Nat /\ Sound(accrued, now)
      /\ IndexesAtLeast(reserves[a], accrued)
      /\ \A u \in Accounts : InDebt(accrued, u) => a \in borrowing[u]
      /\ Sound(reserves[a], now)
  BY <1>3, AccruedDebts, IInvParts
<1>6. amount \in Nat /\ amount <= debt
  <2> HIDE DEF stable, variable
  <2> QED BY <1>1, <1>2, SMT
<1>7. clears => ~InDebt(burned, onBehalfOf)
  <2>1. amount <= IF mode = "stable" THEN stable ELSE variable BY <1>6
  <2> HIDE DEF amount
  <2> QED BY <1>1, <1>3, <1>5, <1>6, <2>1, ClearedWhenSettled
<1> HIDE DEF clears, amount, accrued
<1>8. /\ Sound(burned, now)
      /\ \A u \in Accounts : InDebt(burned, u) => InDebt(accrued, u)
      /\ burned.liquidityIndex = accrued.liquidityIndex
      /\ burned.variableBorrowIndex = accrued.variableBorrowIndex
  BY <1>1, <1>3, <1>5, <1>6, BurnDebtOfSound
<1> HIDE DEF burned
<1>9. amount \in Int BY <1>6, SMT
<1>10. repriced.cash = burned.cash /\ burned.cash + amount \in Nat
  BY <1>3, <1>5, <1>8, <1>9, CashAfter
<1>11. IndexesAtLeast(reserves[a], burned) BY <1>5, <1>8 DEF IndexesAtLeast
<1>12. borrowing \in Bits /\ wallet \in Wallets /\ borrowAllowance \in Allowances
  BY IInvParts
<1>13. borrowing' \in Bits BY <1>1, <1>4, <1>12, BitTypes
<1>14. wallet' \in Wallets BY <1>1, <1>3, <1>4, <1>6, <1>12, PaidType
<1>15. \A u \in Accounts : borrowing[u] \ {a} \subseteq borrowing'[u]
  BY <1>4, <1>12 DEF Bits, WithoutBit
<1>16. \A u \in Accounts : InDebt(burned, u) => a \in borrowing'[u]
  BY <1>1, <1>4, <1>5, <1>7, <1>8, <1>12 DEF Bits, WithoutBit
<1>17. /\ repriced.cash + amount \in Nat
       /\ borrowAllowance' \in Allowances
  BY <1>4, <1>10, <1>12
<1> QED BY <1>3, <1>4, <1>8, <1>11, <1>13, <1>14, <1>15, <1>16, <1>17, DebtStep

(***************************************************************************)
(* Swapping and rebalancing burn a debt and mint it again.  The bit must   *)
(* already be set: the burn needs a debt in the mode that is left.         *)
(***************************************************************************)
LEMMA RemintStep ==
  ASSUME IInv, NEW a \in Assets, NEW user \in Accounts,
         NEW from \in RateModes, NEW to \in RateModes, NEW amount \in Nat,
         CanAccrue(a, reserves[a]),
         CanBurnDebtOf(Accrued(a, reserves[a]), from, user, amount),
         CanMintDebt(BurnDebtOf(Accrued(a, reserves[a]), from, user, amount), to, user, amount),
         CanReprice(a, MintDebt(BurnDebtOf(Accrued(a, reserves[a]), from, user, amount),
                                to, user, amount), 0),
         InDebt(reserves[a], user),
         reserves' = [reserves EXCEPT ![a] =
           Repriced(a, MintDebt(BurnDebtOf(Accrued(a, reserves[a]), from, user, amount),
                                to, user, amount), 0)],
         UNCHANGED <<configuration, borrowing, usingAsCollateral, paused,
                     borrowAllowance, wallet, price, now>>
  PROVE  Step
<1> DEFINE accrued  == Accrued(a, reserves[a])
           burned   == BurnDebtOf(accrued, from, user, amount)
           minted   == MintDebt(burned, to, user, amount)
           repriced == Repriced(a, minted, 0)
<1>1. /\ TypeOK /\ now \in Nat /\ Sound(accrued, now)
      /\ IndexesAtLeast(reserves[a], accrued)
      /\ \A u \in Accounts : InDebt(accrued, u) => a \in borrowing[u]
  BY AccruedDebts
<1>2. /\ CanBurnDebtOf(accrued, from, user, amount)
      /\ CanMintDebt(burned, to, user, amount)
      /\ CanReprice(a, minted, 0)
      /\ reserves' = [reserves EXCEPT ![a] = repriced]
  OBVIOUS
<1> HIDE DEF accrued
<1>3. /\ Sound(burned, now)
      /\ \A u \in Accounts : InDebt(burned, u) => InDebt(accrued, u)
      /\ burned.liquidityIndex = accrued.liquidityIndex
      /\ burned.variableBorrowIndex = accrued.variableBorrowIndex
  BY <1>1, <1>2, BurnDebtOfSound
<1> HIDE DEF burned
<1>4. /\ Sound(minted, now)
      /\ \A u \in Accounts \ {user} : InDebt(minted, u) => InDebt(burned, u)
      /\ minted.liquidityIndex = burned.liquidityIndex
      /\ minted.variableBorrowIndex = burned.variableBorrowIndex
  BY <1>1, <1>2, <1>3, MintDebtSound
<1> HIDE DEF minted
<1>5. Sound(repriced, now) BY <1>1, <1>2, <1>4, RepricedSound
<1>6. repriced \in Reserve /\ repriced.cash \in Nat BY <1>1, <1>5, SoundFields DEF Sound
<1>7. WithCash(repriced, repriced.cash) = repriced BY <1>6 DEF WithCash, Reserve
<1>8. reserves' = [reserves EXCEPT ![a] = WithCash(Repriced(a, minted, 0), repriced.cash)]
  BY <1>2, <1>7
<1>9. IndexesAtLeast(reserves[a], minted) BY <1>1, <1>3, <1>4 DEF IndexesAtLeast
<1>10. a \in borrowing[user] BY IInvParts
<1>11. \A u \in Accounts : InDebt(minted, u) => a \in borrowing'[u]
  BY <1>1, <1>3, <1>4, <1>10
<1>12. /\ borrowing' \in Bits /\ borrowAllowance' \in Allowances /\ wallet' \in Wallets
       /\ \A u \in Accounts : borrowing[u] \ {a} \subseteq borrowing'[u]
  BY IInvParts
<1> HIDE DEF repriced
<1> QED BY <1>2, <1>4, <1>6, <1>8, <1>9, <1>11, <1>12, DebtStep

\* LendingPool.swapBorrowRateMode keeps IInv.
LEMMA SwapStep ==
  ASSUME IInv, NEW caller \in Users, NEW a \in Assets, NEW mode \in RateModes,
         swapBorrowRateMode(caller, a, mode)
  PROVE  Step
<1> DEFINE stable   == StableDebtOf(reserves[a], caller, now)
           variable == VariableDebtOf(reserves[a], caller, now)
           amount   == IF mode = "stable" THEN stable ELSE variable
<1>1. caller \in Accounts /\ OtherMode(mode) \in RateModes
  BY MarketAssumption DEF OtherMode, RateModes
<1>2. TypeOK /\ now \in Nat /\ Sound(reserves[a], now) BY IInvParts
<1>3. /\ stable \in Nat /\ variable \in Nat
      /\ stable # 0 => reserves[a].stableDebt.balances[caller] \in Nat \ {0}
      /\ reserves[a].variableDebt.balances[caller] \in Nat
  BY <1>1, <1>2, DebtTypes
<1>4. /\ CanAccrue(a, reserves[a])
      /\ CanBurnDebtOf(Accrued(a, reserves[a]), mode, caller, amount)
  BY DEF swapBorrowRateMode
<1>5. InDebt(reserves[a], caller)
  <2>1. CASE mode = "stable"
    <3>1. stable > 0 BY <2>1 DEF swapBorrowRateMode, validateSwapRateMode
    <3> QED BY <1>3, <3>1, SMT DEF InDebt
  <2>2. CASE mode = "variable"
    <3> DEFINE accrued == Accrued(a, reserves[a])
               y == AmountScaled(amount, accrued.variableBorrowIndex)
    <3>1. y \in 1 .. accrued.variableDebt.balances[caller]
      BY <1>4, <2>2 DEF CanBurnDebtOf, CanBurnScaled
    <3>2. accrued.variableDebt = reserves[a].variableDebt
      BY <1>2, <1>4, AccruedSound DEF SameDebts
    <3>3. reserves[a].variableDebt.balances[caller] > 0
      <4> HIDE DEF y, accrued
      <4> QED BY <1>3, <3>1, <3>2, SMT
    <3> QED BY <3>3 DEF InDebt
  <2> QED BY <2>1, <2>2 DEF RateModes
<1>6. amount \in Nat BY <1>3
<1> QED BY <1>1, <1>5, <1>6, RemintStep DEF swapBorrowRateMode

\* LendingPool.rebalanceStableBorrowRate keeps IInv; of an account without stable
\* debt it reverts, in the division of StableDebtToken.mint.
LEMMA RebalanceStep ==
  ASSUME IInv, NEW a \in Assets, NEW user \in Users, rebalanceStableBorrowRate(a, user)
  PROVE  Step
<1> DEFINE stable  == StableDebtOf(reserves[a], user, now)
           accrued == Accrued(a, reserves[a])
           burned  == BurnDebtOf(accrued, "stable", user, stable)
<1>1. user \in Accounts /\ "stable" \in RateModes BY MarketAssumption DEF RateModes
<1>2. TypeOK /\ now \in Nat /\ Sound(reserves[a], now) BY IInvParts
<1>3. /\ stable \in Nat
      /\ reserves[a].stableDebt.balances[user] \in Nat
      /\ stable = 0 <=> reserves[a].stableDebt.balances[user] = 0
  BY <1>1, <1>2, DebtTypes
<1>4. /\ CanAccrue(a, reserves[a])
      /\ CanBurnDebtOf(accrued, "stable", user, stable)
      /\ CanMintDebt(burned, "stable", user, stable)
  BY DEF rebalanceStableBorrowRate
<1>5. stable # 0
  <2> SUFFICES ASSUME stable = 0 PROVE FALSE OBVIOUS
  <2>1. Sound(accrued, now) /\ SameDebts(reserves[a], accrued) BY <1>2, <1>4, AccruedSound
  <2>2. StableDebtOf(accrued, user, now) = stable BY <2>1 DEF StableDebtOf, SameDebts
  <2> HIDE DEF accrued, stable
  <2>3. /\ Sound(burned, now)
        /\ burned.stableDebt.balances[user] = stable - stable
    BY <1>1, <1>2, <1>3, <1>4, <2>1, <2>2, BurnDebtOfSound
  <2> HIDE DEF burned
  <2>4. burned.stableDebt.balances[user] = 0 BY <1>3, <2>3, SMT
  <2>5. StableDebtOf(burned, user, now) = 0 BY <1>1, <1>2, <2>3, <2>4, DebtTypes
  <2>6. StableDebtOf(burned, user, now) + stable # 0
    BY <1>4 DEF CanMintDebt, CanMintStable, StableDebtOf
  <2> QED BY <2>5, <2>6, SMT
<1>6. InDebt(reserves[a], user) BY <1>3, <1>5, SMT DEF InDebt
<1> QED BY <1>1, <1>3, <1>6, RemintStep DEF rebalanceStableBorrowRate

(***************************************************************************)
(* Liquidation: the debt side, the collateral side, then the payment.      *)
(***************************************************************************)
LEMMA BurnDebtSound ==
  ASSUME TypeOK, NEW r, Sound(r, now), NEW user \in Accounts, NEW owed \in Nat,
         NEW amount \in Nat, CanBurnDebt(r, user, owed, amount)
  PROVE  LET after == BurnDebt(r, user, owed, amount)
         IN /\ Sound(after, now)
            /\ \A u \in Accounts : InDebt(after, u) => InDebt(r, u)
            /\ after.liquidityIndex = r.liquidityIndex
            /\ after.variableBorrowIndex = r.variableBorrowIndex
            /\ after.cash = r.cash
<1> DEFINE fromVariable == FromVariable(owed, amount)
           variable == IF BurnsVariable(owed, amount)
                       THEN BurnScaled(r.variableDebt, user, fromVariable, r.variableBorrowIndex)
                       ELSE r.variableDebt
           stable == IF owed < amount
                     THEN BurnStable(r.stableDebt, user, amount - fromVariable, now)
                     ELSE r.stableDebt
           after == BurnDebt(r, user, owed, amount)
<1>1. /\ now \in Nat
      /\ r.variableDebt \in ScaledLedger /\ StableSound(r.stableDebt, now)
  BY SoundFields DEF TypeOK
<1>2. owed < amount => amount - fromVariable \in Nat BY SMT DEF FromVariable
<1>3. /\ BurnsVariable(owed, amount)
           => CanBurnScaled(r.variableDebt, user, fromVariable, r.variableBorrowIndex)
      /\ owed < amount => CanBurnStable(r.stableDebt, user, amount - fromVariable, now)
  BY DEF CanBurnDebt
<1>4. after = WithDebts(r, variable, stable) BY DEF BurnDebt, WithDebts
<1> HIDE DEF fromVariable
<1>5. /\ variable \in ScaledLedger
      /\ \A u \in Accounts : variable.balances[u] > 0 => r.variableDebt.balances[u] > 0
  <2>1. CASE BurnsVariable(owed, amount)
    <3>1. /\ variable \in ScaledLedger
          /\ \A u \in Accounts : variable.balances[u] <= r.variableDebt.balances[u]
      BY <1>1, <1>3, <2>1, BurnScaledType
    <3>2. \A u \in Accounts :
            variable.balances[u] \in Nat /\ r.variableDebt.balances[u] \in Nat
      BY <1>1, <3>1 DEF ScaledLedger, Balances
    <3> HIDE DEF variable
    <3> QED BY <3>1, <3>2, SMT
  <2>2. CASE ~BurnsVariable(owed, amount) BY <1>1, <2>2
  <2> QED BY <2>1, <2>2
<1>6. /\ StableSound(stable, now)
      /\ \A u \in Accounts : stable.balances[u] > 0 => r.stableDebt.balances[u] > 0
  <2>1. CASE owed < amount
    <3>1. /\ StableSound(stable, now)
          /\ \A u \in Accounts \ {user} : stable.balances[u] = r.stableDebt.balances[u]
          /\ stable.balances[user] # 0 => r.stableDebt.balances[user] # 0
      BY <1>1, <1>2, <1>3, <2>1, BurnStableSound
    <3>2. \A u \in Accounts :
            stable.balances[u] \in Nat /\ r.stableDebt.balances[u] \in Nat
      BY <1>1, <3>1 DEF StableSound, StableLedger, Balances
    <3> HIDE DEF stable
    <3> QED BY <3>1, <3>2, SMT
  <2>2. CASE ~(owed < amount) BY <1>1, <2>2
  <2> QED BY <2>1, <2>2
<1> HIDE DEF variable, stable
<1>7. /\ Sound(after, now)
      /\ after.variableDebt = variable /\ after.stableDebt = stable
      /\ after.liquidityIndex = r.liquidityIndex
      /\ after.variableBorrowIndex = r.variableBorrowIndex
      /\ after.cash = r.cash
  BY <1>4, <1>5, <1>6, DebtTokensReplaced
<1> HIDE DEF after
<1>8. \A u \in Accounts : InDebt(after, u) => InDebt(r, u)
  BY <1>5, <1>6, <1>7 DEF InDebt
<1> QED BY <1>7, <1>8 DEF after

\* What a call may make of a reserve while debts are left alone.
Supplied(r1, r2) ==
  Sound(r2, now) /\ SameDebts(r1, r2) /\ IndexesAtLeast(r1, r2)

\* New aTokens and cash leave debts and indexes alone.
LEMMA SupplyChangeIsSupplied ==
  ASSUME TypeOK, NEW r, Sound(r, now), NEW token \in ScaledLedger, NEW cash \in Nat
  PROVE  Supplied(r, WithSupply(r, token, cash))
<1>1. now \in Nat BY DEF TypeOK
<1> QED BY <1>1, SupplyReplaced, IndexesAtLeastItself DEF Supplied

\* transferOnLiquidation of aTokens to the liquidator.
LEMMA MovedSupply ==
  ASSUME TypeOK, NEW r, Sound(r, now), NEW from \in Accounts, NEW to \in Accounts,
         NEW amount \in Nat, CanMoveScaled(r.aToken, from, amount, getNormalizedIncome(r, now))
  PROVE  Supplied(r, [r EXCEPT !.aToken =
                        MoveScaled(r.aToken, from, to, amount, getNormalizedIncome(r, now))])
<1> DEFINE index == getNormalizedIncome(r, now)
           token == MoveScaled(r.aToken, from, to, amount, index)
<1>1. now \in Nat BY DEF TypeOK
<1>2. /\ index \in Nat /\ RAY <= index
      /\ r \in Reserve /\ r.aToken \in ScaledLedger /\ r.cash \in Nat
  BY <1>1, LiquidityIndexGrows, SoundFields DEF Sound
<1>3. CanMoveScaled(r.aToken, from, amount, index) OBVIOUS
<1> HIDE DEF index
<1>4. token \in ScaledLedger BY <1>2, <1>3, MoveScaledType
<1> HIDE DEF token
<1>5. [r EXCEPT !.aToken = token] = WithSupply(r, token, r.cash)
  BY <1>2 DEF Reserve, WithSupply
<1>6. Supplied(r, [r EXCEPT !.aToken = token])
  BY <1>2, <1>4, <1>5, SupplyChangeIsSupplied
<1> QED BY <1>6 DEF token, index

\* The burn of the collateral aTokens for their underlying.
LEMMA BurnedSupply ==
  ASSUME TypeOK, NEW a \in Assets, NEW r, Sound(r, now), NEW user \in Accounts,
         NEW amount \in Nat, CanAccrue(a, r), CanReprice(a, Accrued(a, r), -amount),
         CanBurnScaled(Repriced(a, Accrued(a, r), -amount).aToken, user, amount,
                       Repriced(a, Accrued(a, r), -amount).liquidityIndex)
  PROVE  LET s == Repriced(a, Accrued(a, r), -amount)
         IN Supplied(r, [s EXCEPT !.aToken = BurnScaled(s.aToken, user, amount, s.liquidityIndex),
                                  !.cash = s.cash - amount])
<1> DEFINE accrued == Accrued(a, r)
           s == Repriced(a, accrued, -amount)
           token == BurnScaled(s.aToken, user, amount, s.liquidityIndex)
           after == WithSupply(s, token, s.cash - amount)
<1>1. now \in Nat /\ -amount \in Int BY SMT DEF TypeOK
<1>2. /\ Sound(accrued, now) /\ SameDebts(r, accrued)
      /\ IndexesAtLeast(r, accrued)
  BY AccruedSound
<1>3. /\ CanReprice(a, accrued, -amount)
      /\ CanBurnScaled(s.aToken, user, amount, s.liquidityIndex)
  OBVIOUS
<1> HIDE DEF accrued
<1>4. /\ Sound(s, now) /\ SameDebts(accrued, s)
      /\ s.liquidityIndex = accrued.liquidityIndex
      /\ s.variableBorrowIndex = accrued.variableBorrowIndex
  BY <1>2, <1>3, RepricedSound
<1>5. s.cash = accrued.cash /\ accrued.cash + (-amount) \in Nat
  BY <1>1, <1>2, <1>3, CashAfter
<1> HIDE DEF s
<1>6. s.aToken \in ScaledLedger /\ s.cash \in Nat BY <1>1, <1>4, SoundFields
<1>7. s.cash - amount \in Nat BY <1>5, <1>6, SMT
<1>8. token \in ScaledLedger BY <1>3, <1>6, BurnScaledType
<1> HIDE DEF token
<1>9. /\ Sound(after, now) /\ SameDebts(s, after)
      /\ after.liquidityIndex = s.liquidityIndex
      /\ after.variableBorrowIndex = s.variableBorrowIndex
  BY <1>4, <1>7, <1>8, SupplyReplaced
<1> HIDE DEF after
<1>10. Supplied(r, after) BY <1>2, <1>4, <1>9 DEF Supplied, SameDebts, IndexesAtLeast
<1>11. after = [s EXCEPT !.aToken = token, !.cash = s.cash - amount] BY DEF after, WithSupply
<1>12. Supplied(r, [s EXCEPT !.aToken = token, !.cash = s.cash - amount]) BY <1>10, <1>11
<1> QED BY <1>12 DEF token, s, accrued

\* percentDiv by a positive percentage is a number.
LEMMA PercentDivType ==
  ASSUME NEW value \in Nat, NEW percentage \in Nat \ {0}
  PROVE  percentDiv(value, percentage) \in Nat
<1>1. value * PERCENTAGE_FACTOR \in Nat /\ percentage \div 2 \in Nat
  BY ScaleAssumption, SMT
<1>2. value * PERCENTAGE_FACTOR + percentage \div 2 \in Nat BY <1>1, SMT
<1> QED BY <1>2, DivBounds DEF percentDiv

\* A reserve that is anyone's collateral has a liquidation bonus above 100%.
LEMMA BonusIsPositive ==
  ASSUME TypeOK, NEW coll \in Assets, NEW user, coll \in CollateralAssets(user)
  PROVE  configuration[coll].liquidationBonus \in Nat \ {0}
<1> DEFINE c == configuration[coll]
<1>1. c \in ReserveConfiguration BY DEF TypeOK
<1>2. c.liquidationThreshold # 0 BY DEF CollateralAssets
<1> HIDE DEF c
<1>3. c.liquidationBonus \in Nat BY <1>1 DEF ReserveConfiguration, ConfigurationWord
<1>4. c.liquidationBonus > PERCENTAGE_FACTOR BY <1>1, <1>2 DEF ReserveConfiguration
<1>5. c.liquidationBonus # 0 BY <1>3, <1>4, ScaleAssumption, SMT
<1> QED BY <1>3, <1>5 DEF c

\* The amounts of _calculateAvailableCollateralToLiquidate are numbers.
LEMMA LiquidatedType ==
  ASSUME IInv, NEW coll \in Assets, NEW debt \in Assets, NEW user \in Accounts,
         NEW x \in Nat, coll \in CollateralAssets(user)
  PROVE  /\ Liquidated(coll, debt, user, x).debt \in Nat
         /\ Liquidated(coll, debt, user, x).collateral \in Nat
<1> DEFINE bonus   == configuration[coll].liquidationBonus
           balance == ATokenBalanceOf(reserves[coll], user, now)
           owed    == StableDebtOf(reserves[debt], user, now)
                        + VariableDebtOf(reserves[debt], user, now)
           limit   == maxLiquidatableDebt(debt, user)
           covered == IF x > limit THEN limit ELSE x
           seized  == CollateralFor(coll, debt, covered)
           payable == DebtPaidBy(coll, debt, balance)
<1>1. TypeOK /\ now \in Nat /\ Sound(reserves[coll], now) /\ Sound(reserves[debt], now)
  BY IInvParts
<1>2. bonus \in Nat \ {0} BY <1>1, BonusIsPositive
<1>3. balance \in Nat BY <1>1, ATokenBalanceType
<1>4. owed \in Nat BY <1>1, DebtTypes, SMT
<1>5. limit \in Nat
  <2> HIDE DEF owed
  <2> QED BY <1>4, CloseFactorAssumption, PercentMulType DEF maxLiquidatableDebt, owed
<1> HIDE DEF limit, balance, bonus
<1>6. covered \in Nat BY <1>5
<1> HIDE DEF covered
<1>7. /\ price[coll] \in Nat \ {0} /\ price[debt] \in Nat \ {0}
      /\ TokenUnit[coll] \in Nat \ {0} /\ TokenUnit[debt] \in Nat \ {0}
  BY <1>1, MarketAssumption DEF TypeOK
<1>8. seized \in Nat
  <2> DEFINE value == price[debt] * covered * TokenUnit[coll]
             unit  == price[coll] * TokenUnit[debt]
  <2>1. value \in Nat /\ unit \in Nat \ {0} BY <1>6, <1>7, SMT
  <2> HIDE DEF value, unit
  <2>2. percentMul(value, bonus) \in Nat BY <1>2, <2>1, PercentMulType
  <2>3. percentMul(value, bonus) \div unit \in Nat BY <2>1, <2>2, DivBounds
  <2> QED BY <2>3 DEF CollateralFor, value, unit, bonus
<1>9. payable \in Nat
  <2> DEFINE value == price[coll] * balance * TokenUnit[debt]
             unit  == price[debt] * TokenUnit[coll]
  <2>1. value \in Nat /\ unit \in Nat \ {0} BY <1>3, <1>7, SMT
  <2> HIDE DEF value, unit
  <2>2. value \div unit \in Nat BY <2>1, DivBounds
  <2>3. percentDiv(value \div unit, bonus) \in Nat BY <1>2, <2>2, PercentDivType
  <2> QED BY <2>3 DEF DebtPaidBy, value, unit, bonus
<1>10. Liquidated(coll, debt, user, x)
         = IF seized > balance
           THEN [debt |-> IF payable < covered THEN payable ELSE covered,
                 collateral |-> balance]
           ELSE [debt |-> covered, collateral |-> seized]
  BY DEF Liquidated, balance, limit, covered
<1> HIDE DEF seized, payable
<1> QED BY <1>3, <1>6, <1>8, <1>9, <1>10

\* The collateral side leaves every reserve's debts alone.
LEMMA SeizedSupply ==
  ASSUME TypeOK, NEW rs, rs \in [Assets -> Reserve], \A b \in Assets : Sound(rs[b], now),
         NEW coll \in Assets, NEW user \in Accounts, NEW liquidator \in Accounts,
         NEW amount \in Nat, NEW receiveAToken \in BOOLEAN,
         CanSeize(rs, coll, user, amount, receiveAToken)
  PROVE  LET after == Seized(rs, coll, user, liquidator, amount, receiveAToken)
         IN /\ after \in [Assets -> Reserve]
            /\ \A b \in Assets : Supplied(rs[b], after[b])
<1> DEFINE after == Seized(rs, coll, user, liquidator, amount, receiveAToken)
           s == Repriced(coll, Accrued(coll, rs[coll]), -amount)
           index == getNormalizedIncome(rs[coll], now)
           R == IF receiveAToken
                THEN [rs[coll] EXCEPT !.aToken =
                        MoveScaled(rs[coll].aToken, user, liquidator, amount, index)]
                ELSE [s EXCEPT !.aToken = BurnScaled(s.aToken, user, amount, s.liquidityIndex),
                               !.cash = s.cash - amount]
<1>1. now \in Nat BY DEF TypeOK
<1>2. Supplied(rs[coll], R)
  <2>1. CASE receiveAToken
    <3>1. CanMoveScaled(rs[coll].aToken, user, amount, index) BY <2>1 DEF CanSeize
    <3> QED BY <2>1, <3>1, MovedSupply
  <2>2. CASE ~receiveAToken
    <3>1. /\ CanAccrue(coll, rs[coll])
          /\ CanReprice(coll, Accrued(coll, rs[coll]), -amount)
          /\ CanBurnScaled(s.aToken, user, amount, s.liquidityIndex)
      BY <2>2 DEF CanSeize, RepricedCollateral
    <3> QED BY <2>2, <3>1, BurnedSupply
  <2> QED BY <2>1, <2>2
<1>3. after = [rs EXCEPT ![coll] = R]
  <2>1. CASE receiveAToken BY <2>1 DEF Seized
  <2>2. CASE ~receiveAToken BY <2>2 DEF Seized, RepricedCollateral
  <2> QED BY <2>1, <2>2
<1> HIDE DEF R, after
<1>4. R \in Reserve BY <1>2 DEF Supplied, Sound
<1>5. /\ after \in [Assets -> Reserve]
      /\ after[coll] = R
      /\ \A b \in Assets \ {coll} : after[b] = rs[b]
  BY <1>3, <1>4
<1>6. \A b \in Assets \ {coll} : Supplied(rs[b], rs[b])
  <2> SUFFICES ASSUME NEW b \in Assets PROVE Supplied(rs[b], rs[b]) OBVIOUS
  <2>1. Sound(rs[b], now) OBVIOUS
  <2>2. IndexesAtLeast(rs[b], rs[b]) BY <1>1, <2>1, IndexesAtLeastItself
  <2> QED BY <2>1, <2>2 DEF Supplied, SameDebts
<1>7. \A b \in Assets : Supplied(rs[b], after[b]) BY <1>2, <1>5, <1>6
<1> QED BY <1>5, <1>7 DEF after

\* A step that only lets debtors go from the reserves, and no bit.
LEMMA ManyReservesStep ==
  ASSUME IInv, NEW rs, rs \in [Assets -> Reserve], reserves' = rs,
         \A b \in Assets : Sound(rs[b], now) /\ IndexesAtLeast(reserves[b], rs[b]),
         \A b \in Assets, u \in Accounts : InDebt(rs[b], u) => InDebt(reserves[b], u),
         UNCHANGED <<configuration, borrowing, paused, borrowAllowance, price, now>>,
         usingAsCollateral' \in Bits, wallet' \in Wallets
  PROVE  Step
<1>1. TypeOK' BY IInvParts DEF TypeOK, Bits, Wallets
<1>2. \A b \in Assets : Sound(reserves'[b], now') OBVIOUS
<1>3. BorrowBitCoversDebt' BY IInvParts DEF BorrowBitCoversDebt
<1>4. IndexesGrow BY IndexesGrowWhere
<1> QED BY <1>1, <1>2, <1>3, <1>4 DEF Step, IInv

\* liquidationCall keeps IInv: it clears no borrowing bit, for equal and for
\* different collateral and debt assets.
LEMMA LiquidationStep ==
  ASSUME IInv, NEW liquidator \in Users, NEW coll \in Assets, NEW debt \in Assets,
         NEW user \in Users, NEW x \in Amounts, NEW receiveAToken \in BOOLEAN,
         liquidationCall(liquidator, coll, debt, user, x, receiveAToken)
  PROVE  Step
<1> DEFINE variableOwed == VariableDebtOf(reserves[debt], user, now)
           amounts  == Liquidated(coll, debt, user, x)
           paid     == amounts.debt
           taken    == amounts.collateral
           accrued  == Accrued(debt, reserves[debt])
           burned   == BurnDebt(accrued, user, variableOwed, paid)
           repriced == Repriced(debt, burned, paid)
           rs       == [reserves EXCEPT ![debt] = repriced]
           seized   == Seized(rs, coll, user, liquidator, taken, receiveAToken)
           walletThen == IF receiveAToken THEN wallet
                         ELSE Received(wallet, coll, liquidator, taken)
           final    == WithCash(seized[debt], seized[debt].cash + paid)
           after    == [seized EXCEPT ![debt] = final]
<1>1. /\ x \in Nat /\ liquidator \in Accounts /\ user \in Accounts
  BY AmountsAreNumbers, MarketAssumption
<1>2. /\ coll \in CollateralAssets(user)
      /\ CanAccrue(debt, reserves[debt])
      /\ CanBurnDebt(accrued, user, variableOwed, paid)
      /\ CanReprice(debt, burned, paid)
      /\ CanSeize(rs, coll, user, taken, receiveAToken)
      /\ paid <= walletThen[debt][liquidator]
  BY DEF liquidationCall, validateLiquidationCall
<1>3. /\ reserves' = after
      /\ wallet' = Paid(walletThen, debt, liquidator, paid)
      /\ usingAsCollateral' = BitsAfterSeizure(rs, coll, user, liquidator, taken, receiveAToken)
      /\ UNCHANGED <<configuration, borrowing, paused, borrowAllowance, price, now>>
  BY DEF liquidationCall, WithCash
<1>4. paid \in Nat /\ taken \in Nat BY <1>1, <1>2, LiquidatedType
<1>5. /\ TypeOK /\ now \in Nat /\ Sound(accrued, now)
      /\ IndexesAtLeast(reserves[debt], accrued)
      /\ SameDebts(reserves[debt], accrued)
      /\ \A b \in Assets : Sound(reserves[b], now)
      /\ reserves \in [Assets -> Reserve]
  BY <1>2, AccruedDebts, AccruedSound, IInvParts DEF TypeOK
<1>6. variableOwed \in Nat BY <1>1, <1>5, DebtTypes
<1> HIDE DEF variableOwed, amounts, accrued
<1>7. /\ Sound(burned, now)
      /\ \A u \in Accounts : InDebt(burned, u) => InDebt(accrued, u)
      /\ burned.liquidityIndex = accrued.liquidityIndex
      /\ burned.variableBorrowIndex = accrued.variableBorrowIndex
  BY <1>1, <1>2, <1>4, <1>5, <1>6, BurnDebtSound
<1> HIDE DEF burned
<1>8. /\ Sound(repriced, now) /\ SameDebts(burned, repriced)
      /\ repriced.liquidityIndex = burned.liquidityIndex
      /\ repriced.variableBorrowIndex = burned.variableBorrowIndex
  BY <1>2, <1>5, <1>7, RepricedSound
<1> HIDE DEF repriced
<1>9. /\ IndexesAtLeast(reserves[debt], repriced)
      /\ \A u \in Accounts : InDebt(repriced, u) => InDebt(reserves[debt], u)
  BY <1>5, <1>7, <1>8, SameDebtors DEF IndexesAtLeast
<1>10. repriced \in Reserve BY <1>8 DEF Sound
<1>11. /\ rs \in [Assets -> Reserve]
       /\ rs[debt] = repriced
       /\ \A b \in Assets \ {debt} : rs[b] = reserves[b]
  BY <1>5, <1>10
<1> HIDE DEF rs
<1>12. \A b \in Assets :
         /\ Sound(rs[b], now) /\ IndexesAtLeast(reserves[b], rs[b])
         /\ \A u \in Accounts : InDebt(rs[b], u) => InDebt(reserves[b], u)
  <2> SUFFICES ASSUME NEW b \in Assets
               PROVE  /\ Sound(rs[b], now) /\ IndexesAtLeast(reserves[b], rs[b])
                      /\ \A u \in Accounts : InDebt(rs[b], u) => InDebt(reserves[b], u)
    OBVIOUS
  <2>1. CASE b = debt BY <1>8, <1>9, <1>11, <2>1
  <2>2. CASE b # debt
    <3>1. rs[b] = reserves[b] BY <1>11, <2>2
    <3>2. IndexesAtLeast(reserves[b], rs[b]) BY <1>5, <3>1, IndexesAtLeastItself
    <3> QED BY <1>5, <3>1, <3>2
  <2> QED BY <2>1, <2>2
<1>13. /\ seized \in [Assets -> Reserve]
       /\ \A b \in Assets : Supplied(rs[b], seized[b])
  BY <1>1, <1>2, <1>4, <1>5, <1>11, <1>12, SeizedSupply
<1> HIDE DEF seized
<1>14. Sound(seized[debt], now) BY <1>13 DEF Supplied
<1>15. seized[debt].cash + paid \in Nat
  <2>1. seized[debt].cash \in Nat BY <1>5, <1>14, SoundFields
  <2> HIDE DEF paid
  <2> QED BY <1>4, <2>1, SMT
<1> HIDE DEF paid
<1>16. /\ Sound(final, now) /\ SameDebts(seized[debt], final)
       /\ final.liquidityIndex = seized[debt].liquidityIndex
       /\ final.variableBorrowIndex = seized[debt].variableBorrowIndex
  BY <1>14, <1>15, CashReplaced
<1> HIDE DEF final
<1>17. final \in Reserve BY <1>16 DEF Sound
<1>18. /\ after \in [Assets -> Reserve]
       /\ after[debt] = final
       /\ \A b \in Assets \ {debt} : after[b] = seized[b]
  BY <1>13, <1>17
<1> HIDE DEF after
<1>19. \A b \in Assets :
         /\ Sound(after[b], now) /\ SameDebts(rs[b], after[b])
         /\ after[b].liquidityIndex = seized[b].liquidityIndex
         /\ after[b].variableBorrowIndex = seized[b].variableBorrowIndex
  BY <1>13, <1>16, <1>18 DEF Supplied, SameDebts
<1>20. \A b \in Assets : IndexesAtLeast(reserves[b], after[b])
  <2> SUFFICES ASSUME NEW b \in Assets PROVE IndexesAtLeast(reserves[b], after[b])
    OBVIOUS
  <2>1. IndexesAtLeast(reserves[b], rs[b]) /\ IndexesAtLeast(rs[b], seized[b])
    BY <1>12, <1>13 DEF Supplied
  <2>2. /\ Sound(reserves[b], now) /\ Sound(rs[b], now) /\ Sound(seized[b], now)
    BY <1>5, <1>12, <1>13 DEF Supplied
  <2>3. /\ reserves[b].liquidityIndex \in Nat /\ reserves[b].variableBorrowIndex \in Nat
        /\ rs[b].liquidityIndex \in Nat /\ rs[b].variableBorrowIndex \in Nat
        /\ seized[b].liquidityIndex \in Nat /\ seized[b].variableBorrowIndex \in Nat
    BY <1>5, <2>2, SoundFields
  <2> QED BY <1>19, <2>1, <2>3, SMT DEF IndexesAtLeast
<1>21. \A b \in Assets, u \in Accounts : InDebt(after[b], u) => InDebt(reserves[b], u)
  BY <1>12, <1>19, SameDebtors
<1>22. usingAsCollateral' \in Bits
  <2>1. usingAsCollateral'
          \in {usingAsCollateral, WithoutBit(usingAsCollateral, user, coll),
               WithBit(usingAsCollateral, liquidator, coll),
               WithoutBit(WithBit(usingAsCollateral, liquidator, coll), user, coll)}
    BY <1>3 DEF BitsAfterSeizure
  <2> QED BY <1>1, <2>1, IInvParts, BitTypes
<1>23. wallet' \in Wallets
  <2>1. walletThen \in Wallets BY <1>1, <1>4, IInvParts, ReceivedType
  <2> HIDE DEF walletThen
  <2> QED BY <1>1, <1>2, <1>3, <1>4, <2>1, PaidType DEF paid
<1> QED BY <1>3, <1>18, <1>19, <1>20, <1>21, <1>22, <1>23, ManyReservesStep

(***************************************************************************)
(* The operations that touch neither reserves nor borrowing bits.          *)
(***************************************************************************)
LEMMA SetCollateralStep ==
  ASSUME IInv, NEW caller \in Users, NEW a \in Assets, NEW use \in BOOLEAN,
         setUserUseReserveAsCollateral(caller, a, use)
  PROVE  Step
<1>1. caller \in Accounts BY MarketAssumption
<1>2. usingAsCollateral' \in Bits
  <2>1. usingAsCollateral' \in {WithBit(usingAsCollateral, caller, a),
                                WithoutBit(usingAsCollateral, caller, a)}
    BY DEF setUserUseReserveAsCollateral
  <2> QED BY <1>1, <2>1, IInvParts, BitTypes
<1>3. UNCHANGED <<reserves, configuration, borrowing, paused,
                  borrowAllowance, wallet, price, now>>
  BY DEF setUserUseReserveAsCollateral
<1>4. TypeOK' BY <1>2, <1>3, IInvParts DEF TypeOK, Bits
<1>5. now <= now' BY <1>3, IInvParts, SMT
<1> QED BY <1>3, <1>4, <1>5, OtherStep

\* DebtTokenBase.approveDelegation keeps IInv.
LEMMA ApproveStep ==
  ASSUME IInv, NEW delegator \in Users, NEW a \in Assets, NEW mode \in RateModes,
         NEW delegatee \in Users, NEW x \in Amounts,
         approveDelegation(delegator, a, mode, delegatee, x)
  PROVE  Step
<1>1. x \in Nat /\ delegator \in Accounts /\ delegatee \in Accounts
  BY AmountsAreNumbers, MarketAssumption
<1>2. /\ borrowAllowance' = [borrowAllowance EXCEPT ![a][mode][delegator][delegatee] = x]
      /\ UNCHANGED <<reserves, configuration, borrowing, usingAsCollateral, paused,
                     wallet, price, now>>
  BY DEF approveDelegation, poolVars
<1>3. borrowAllowance' \in Allowances BY <1>1, <1>2, IInvParts, AllowanceType
<1>4. TypeOK' BY <1>2, <1>3, IInvParts DEF TypeOK, Allowances
<1>5. now <= now' BY <1>2, IInvParts, SMT
<1> QED BY <1>2, <1>4, <1>5, OtherStep

\* setConfiguration and setPause keep IInv.
LEMMA ConfigurationStep ==
  ASSUME IInv, Configuration
  PROVE  Step
<1>1. CASE \E a \in Assets : \E c \in Configurations[a] : setConfiguration(a, c)
  <2>0. PICK a \in Assets : \E c \in Configurations[a] : setConfiguration(a, c) BY <1>1
  <2>1. PICK c \in Configurations[a] : setConfiguration(a, c) BY <2>0
  <2>2. /\ configuration' = [configuration EXCEPT ![a] = c]
        /\ UNCHANGED <<reserves, borrowing, usingAsCollateral, paused,
                       borrowAllowance, wallet, price, now>>
    BY <2>1 DEF setConfiguration
  <2>3. c \in ReserveConfiguration BY ConfigurationAssumption
  <2>4. TypeOK' BY <2>2, <2>3, IInvParts DEF TypeOK
  <2>5. now <= now' BY <2>2, IInvParts, SMT
  <2> QED BY <2>2, <2>4, <2>5, OtherStep
<1>2. CASE \E val \in BOOLEAN : setPause(val)
  <2>1. PICK val \in BOOLEAN : setPause(val) BY <1>2
  <2>2. /\ paused' = val
        /\ UNCHANGED <<reserves, configuration, borrowing, usingAsCollateral,
                       borrowAllowance, wallet, price, now>>
    BY <2>1 DEF setPause
  <2>3. TypeOK' BY <2>2, IInvParts DEF TypeOK
  <2>4. now <= now' BY <2>2, IInvParts, SMT
  <2> QED BY <2>2, <2>3, <2>4, OtherStep
<1> QED BY <1>1, <1>2 DEF Configuration

\* A new price of the oracle keeps IInv.
LEMMA PriceStep ==
  ASSUME IInv, PriceChange
  PROVE  Step
<1>0. PICK a \in Assets : \E p \in Prices[a] : PriceMove(a, p) BY DEF PriceChange
<1>1. PICK p \in Prices[a] : PriceMove(a, p) BY <1>0
<1>2. /\ price' = [price EXCEPT ![a] = p]
      /\ UNCHANGED <<reserves, configuration, borrowing, usingAsCollateral, paused,
                     borrowAllowance, wallet, now>>
  BY <1>1 DEF PriceMove, poolVars
<1>3. p \in Nat \ {0} BY MarketAssumption
<1>4. TypeOK' BY <1>2, <1>3, IInvParts DEF TypeOK
<1>5. now <= now' BY <1>2, IInvParts, SMT
<1> QED BY <1>2, <1>4, <1>5, OtherStep

\* A new block keeps IInv: no timestamp gets into the future.
LEMMA NextBlockStep ==
  ASSUME IInv, NextBlock
  PROVE  Step
<1>1. /\ now' = now + 1
      /\ UNCHANGED <<reserves, configuration, borrowing, usingAsCollateral, paused,
                     borrowAllowance, wallet, price>>
  BY DEF NextBlock, poolVars
<1>2. now' \in Nat /\ now <= now' BY <1>1, IInvParts, SMT
<1>3. TypeOK' BY <1>1, <1>2, IInvParts DEF TypeOK
<1> QED BY <1>1, <1>2, <1>3, OtherStep

\* A step that changes nothing keeps IInv.
LEMMA StutterStep ==
  ASSUME IInv, UNCHANGED vars
  PROVE  Step
<1>1. UNCHANGED <<reserves, configuration, borrowing, usingAsCollateral, paused,
                  borrowAllowance, wallet, price, now>>
  BY DEF vars, poolVars
<1>2. TypeOK' BY <1>1, IInvParts DEF TypeOK
<1>3. now <= now' BY <1>1, IInvParts, SMT
<1> QED BY <1>1, <1>2, <1>3, OtherStep

(***************************************************************************)
(* Every operation of the pool keeps the invariant, and shrinks no index.  *)
(***************************************************************************)
LEMMA EveryStep ==
  ASSUME IInv, [Next]_vars
  PROVE  Step
<1>1. CASE Supply
  <2>1. PICK u \in Users, v \in Users, a \in Assets, x \in Amounts :
          deposit(u, a, x, v) \/ withdraw(u, a, x, v) \/ transfer(u, a, v, x)
    BY <1>1 DEF Supply
  <2> QED BY <2>1, DepositStep, WithdrawStep, TransferStep
<1>2. CASE Loan
  <2>1. PICK u \in Users, v \in Users, a \in Assets, m \in RateModes, x \in Amounts :
          borrow(u, a, x, m, v) \/ repay(u, a, x, m, v)
    BY <1>2 DEF Loan
  <2> QED BY <2>1, BorrowStep, RepayStep
<1>3. CASE StableSwitch
  <2>1. PICK u \in Users, a \in Assets :
          \/ \E m \in RateModes : swapBorrowRateMode(u, a, m)
          \/ rebalanceStableBorrowRate(a, u)
    BY <1>3 DEF StableSwitch
  <2> QED BY <2>1, SwapStep, RebalanceStep
<1>4. CASE CollateralSwitch
  <2>1. PICK u \in Users, a \in Assets, use \in BOOLEAN :
          setUserUseReserveAsCollateral(u, a, use)
    BY <1>4 DEF CollateralSwitch
  <2> QED BY <2>1, SetCollateralStep
<1>5. CASE Delegation
  <2>1. PICK u \in Users, v \in Users, a \in Assets, m \in RateModes, x \in Amounts :
          approveDelegation(u, a, m, v, x)
    BY <1>5 DEF Delegation
  <2> QED BY <2>1, ApproveStep
<1>6. CASE Liquidation
  <2>1. PICK l \in Users, u \in Users, c \in Assets, d \in Assets, x \in Amounts,
             receive \in BOOLEAN : liquidationCall(l, c, d, u, x, receive)
    BY <1>6 DEF Liquidation
  <2> QED BY <2>1, LiquidationStep
<1>7. CASE Configuration BY <1>7, ConfigurationStep
<1>8. CASE PriceChange BY <1>8, PriceStep
<1>9. CASE NextBlock BY <1>9, NextBlockStep
<1>10. CASE UNCHANGED vars BY <1>10, StutterStep
<1> QED BY <1>1, <1>2, <1>3, <1>4, <1>5, <1>6, <1>7, <1>8, <1>9, <1>10 DEF Next

\* A freshly initialized market satisfies IInv.
LEMMA InitKeepsIInv ==
  ASSUME Init
  PROVE  IInv
<1> DEFINE r == InitializedReserve
<1>1. RAY \in Nat BY RayPositive
<1>2. /\ NoBalances \in Balances
      /\ EmptyScaledLedger \in ScaledLedger
  BY DEF NoBalances, Balances, EmptyScaledLedger, ScaledLedger
<1>3. /\ EmptyStableLedger \in StableLedger
      /\ StableSound(EmptyStableLedger, 1)
  BY <1>2 DEF EmptyStableLedger, StableLedger, StableSound, NoBalances, Balances
<1>4. r \in Reserve BY <1>1, <1>2, <1>3 DEF InitializedReserve, Reserve
<1>5. Sound(r, 1) BY <1>1, <1>3, <1>4, SMT DEF Sound, InitializedReserve
<1>6. \A u \in Accounts : ~InDebt(r, u)
  BY DEF InDebt, InitializedReserve, EmptyScaledLedger, EmptyStableLedger, NoBalances
<1> HIDE DEF r
<1>7. /\ reserves = [a \in Assets |-> r] /\ now = 1
      /\ configuration = InitialConfiguration /\ price = InitialPrice
      /\ wallet = InitialWallet /\ paused = FALSE
      /\ borrowing = [u \in Accounts |-> {}] /\ usingAsCollateral = [u \in Accounts |-> {}]
      /\ borrowAllowance =
           [a \in Assets |-> [m \in RateModes |-> [u \in Accounts |-> NoBalances]]]
  BY DEF Init, r
<1>8. TypeOK BY <1>2, <1>4, <1>7, LendingPoolAssumption DEF TypeOK
<1>9. BorrowBitCoversDebt BY <1>6, <1>7 DEF BorrowBitCoversDebt
<1> QED BY <1>5, <1>7, <1>8, <1>9 DEF IInv

(***************************************************************************)
(* The results.                                                            *)
(***************************************************************************)

\* The invariant holds in every reachable state of every market.
THEOREM IInvHolds == Spec => []IInv
<1>1. Init => IInv BY InitKeepsIInv
<1>2. IInv /\ [Next]_vars => IInv' BY EveryStep DEF Step
<1> QED BY <1>1, <1>2, PTL DEF Spec

\* Every variable keeps its type: in particular no balance, supply, index or
\* wallet is ever negative, whatever the handlers subtract.
THEOREM TypesHold == Spec => []TypeOK
<1>1. IInv => TypeOK BY DEF IInv
<1> QED BY <1>1, IInvHolds, PTL

\* Whoever owes variable or stable debt in a reserve has its borrowing bit set, so
\* that calculateUserAccountData counts the debt: through borrow, repay, swap,
\* rebalance and liquidation, which write bits and debts in different contracts.
THEOREM BorrowBitsCoverDebts == Spec => []BorrowBitCoversDebt
<1>1. IInv => BorrowBitCoversDebt BY DEF IInv
<1> QED BY <1>1, IInvHolds, PTL

\* No operation, block or price change lowers the liquidity or the variable borrow
\* index of a reserve (ReserveLogic._updateIndexes, _mintToTreasury and all
\* their callers).
THEOREM IndexesNeverShrink == Spec => IndexesOnlyGrow
<1>1. IInv /\ [Next]_vars => [IndexesGrow]_vars BY EveryStep DEF Step
<1>2. [][IndexesGrow]_vars <=> IndexesOnlyGrow BY DEF IndexesOnlyGrow, IndexesGrow
<1> QED BY <1>1, <1>2, IInvHolds, PTL DEF Spec

=============================================================================
