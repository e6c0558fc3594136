---------------------- MODULE LendingPoolBalanceProofs ----------------------
(***************************************************************************)
(* The books of the pool balance, for every market: the scaled supply of a *)
(* token is the sum of its balances, and underlying tokens only move.  So  *)
(* a debt repaid in full is burned in full, and accrual cannot revert.     *)
(***************************************************************************)
EXTENDS LendingPoolProofs

(***************************************************************************)
(* Scaled tokens, one operation at a time.                                 *)
(***************************************************************************)
Balanced(token) == token.totalSupply = SumOver(token.balances, Accounts)

\* A ledger's fields are numbers.
LEMMA LedgerFields ==
  ASSUME NEW token \in ScaledLedger
  PROVE  /\ token.totalSupply \in Nat
         /\ DOMAIN token.balances = Accounts
         /\ \A u \in Accounts : token.balances[u] \in Nat /\ token.balances[u] \in Int
BY DEF ScaledLedger, Balances

\* The empty ledger of a new reserve is balanced.
LEMMA EmptyIsBalanced == Balanced(EmptyScaledLedger)
<1> DEFINE none == NoBalances
           P == {s \in SUBSET Accounts : SumOver(none, s) = 0}
<1>1. \A u \in Accounts : none[u] = 0 BY DEF NoBalances
<1> HIDE DEF none
<1>2. ASSUME NEW s \in SUBSET Accounts, \A u \in s : s \ {u} \in P PROVE s \in P
  <2>1. CASE s = {} BY <2>1, SumOfNone
  <2>2. CASE s # {}
    <3>1. IsFiniteSet(s) BY AccountsAssumption, FS_Subset
    <3>2. Any(s) \in s /\ SumOver(none, s) = none[Any(s)] + SumOver(none, s \ {Any(s)})
      BY <2>2, <3>1, SumWithAny
    <3>3. none[Any(s)] = 0 /\ SumOver(none, s \ {Any(s)}) = 0 BY <1>1, <1>2, <3>2
    <3> QED BY <3>2, <3>3
  <2> QED BY <2>1, <2>2
<1>3. SUBSET Accounts \subseteq P
  <2> HIDE DEF P
  <2> QED BY <1>2, AccountsAssumption, SubsetsByInduction
<1>4. SumOver(none, Accounts) = 0 BY <1>3
<1> QED BY <1>4 DEF Balanced, EmptyScaledLedger, none

\* One balance and the supply change by the same amount.
LEMMA OneBalanceChanges ==
  ASSUME NEW token \in ScaledLedger, Balanced(token), NEW after \in ScaledLedger,
         NEW user \in Accounts, NEW d \in Int,
         after.totalSupply = token.totalSupply + d,
         after.balances[user] = token.balances[user] + d,
         \A u \in Accounts \ {user} : after.balances[u] = token.balances[u]
  PROVE  Balanced(after)
<1> DEFINE f == token.balances
           g == after.balances
<1>1. \A u \in Accounts : f[u] \in Int /\ g[u] \in Int BY LedgerFields
<1>2. g[user] = f[user] + d /\ \A u \in Accounts \ {user} : g[u] = f[u] OBVIOUS
<1>3. token.totalSupply = SumOver(f, Accounts) BY DEF Balanced
<1> HIDE DEF f, g
<1>4. SumOver(g, Accounts) = SumOver(f, Accounts) + (g[user] - f[user])
  BY <1>1, <1>2, AccountsAssumption, SumChange
<1>5. SumOver(f, Accounts) \in Int BY <1>1, AccountsAssumption, SumType
<1>6. f[user] \in Int BY <1>1
<1>7. SumOver(g, Accounts) = token.totalSupply + d
  BY <1>2, <1>3, <1>4, <1>5, <1>6, SMT
<1> QED BY <1>7 DEF Balanced, g

\* mint of a scaled token.
LEMMA MintScaledBalanced ==
  ASSUME NEW token \in ScaledLedger, Balanced(token), NEW user \in Accounts,
         NEW amount \in Nat, NEW index \in Nat, RAY <= index
  PROVE  Balanced(MintScaled(token, user, amount, index))
<1> DEFINE x == AmountScaled(amount, index)
           after == MintScaled(token, user, amount, index)
<1>1. x \in Nat BY AmountScaledType
<1>2. after \in ScaledLedger BY MintScaledType
<1>3. /\ after.totalSupply = token.totalSupply + x
      /\ after.balances[user] = token.balances[user] + x
      /\ \A u \in Accounts \ {user} : after.balances[u] = token.balances[u]
  BY LedgerFields DEF MintScaled
<1> HIDE DEF x, after
<1>4. x \in Int BY <1>1, SMT
<1>5. Balanced(after) BY <1>2, <1>3, <1>4, OneBalanceChanges
<1> QED BY <1>5 DEF after

\* burn of a scaled token.
LEMMA BurnScaledBalanced ==
  ASSUME NEW token \in ScaledLedger, Balanced(token), NEW user \in Accounts,
         NEW amount, NEW index, CanBurnScaled(token, user, amount, index)
  PROVE  Balanced(BurnScaled(token, user, amount, index))
<1> DEFINE x == AmountScaled(amount, index)
           after == BurnScaled(token, user, amount, index)
<1>1. x \in Int
  <2>1. x \in 1 .. token.balances[user] /\ token.balances[user] \in Nat
    BY LedgerFields DEF CanBurnScaled
  <2> HIDE DEF x
  <2> QED BY <2>1, SMT
<1>2. after \in ScaledLedger BY BurnScaledType
<1>3. /\ after.totalSupply = token.totalSupply - x
      /\ after.balances[user] = token.balances[user] - x
      /\ \A u \in Accounts \ {user} : after.balances[u] = token.balances[u]
  BY LedgerFields DEF BurnScaled
<1> HIDE DEF x, after
<1>4. /\ -x \in Int
      /\ after.totalSupply = token.totalSupply + (-x)
      /\ after.balances[user] = token.balances[user] + (-x)
  BY <1>1, <1>3, LedgerFields, SMT
<1>5. Balanced(after) BY <1>2, <1>3, <1>4, OneBalanceChanges
<1> QED BY <1>5 DEF after

\* What a transfer makes of the balances.
LEMMA MovedBalances ==
  ASSUME NEW token \in ScaledLedger, NEW from \in Accounts, NEW to \in Accounts,
         NEW amount \in Nat, NEW index \in Nat, RAY <= index
  PROVE  LET x     == AmountScaled(amount, index)
             after == MoveScaled(token, from, to, amount, index)
         IN /\ x \in Nat
            /\ after.totalSupply = token.totalSupply
            /\ from = to => after.balances = token.balances
            /\ from # to => /\ after.balances[from] = token.balances[from] - x
                            /\ after.balances[to] = token.balances[to] + x
            /\ \A u \in Accounts \ {from, to} : after.balances[u] = token.balances[u]
<1> DEFINE x       == AmountScaled(amount, index)
           debited == [token.balances EXCEPT ![from] = @ - x]
           credited == [debited EXCEPT ![to] = @ + x]
<1>1. x \in Nat BY AmountScaledType
<1>2. token \in [balances : Balances, totalSupply : Nat] BY DEF ScaledLedger
<1>3. token.balances \in [Accounts -> Nat] BY <1>2 DEF Balances
<1>4. /\ MoveScaled(token, from, to, amount, index).balances = credited
      /\ MoveScaled(token, from, to, amount, index).totalSupply = token.totalSupply
  BY <1>2 DEF MoveScaled
<1> HIDE DEF x
<1>5. from = to => credited = token.balances
  <2> SUFFICES ASSUME from = to PROVE credited = token.balances OBVIOUS
  <2>1. debited[to] = token.balances[to] - x BY <1>3
  <2>2. debited[to] + x = token.balances[to] BY <1>1, <1>3, <2>1, SMT
  <2>3. credited = [token.balances EXCEPT ![to] = token.balances[to]] BY <1>3, <2>2
  <2> QED BY <1>3, <2>3
<1>6. from # to => /\ credited[from] = token.balances[from] - x
                   /\ credited[to] = token.balances[to] + x
  BY <1>3
<1>7. \A u \in Accounts \ {from, to} : credited[u] = token.balances[u] BY <1>3
<1> HIDE DEF credited
<1> QED BY <1>1, <1>4, <1>5, <1>6, <1>7 DEF x

\* _transfer of a scaled token, to oneself as well.
LEMMA MoveScaledBalanced ==
  ASSUME NEW token \in ScaledLedger, Balanced(token), NEW from \in Accounts,
         NEW to \in Accounts, NEW amount \in Nat, NEW index \in Nat, RAY <= index,
         CanMoveScaled(token, from, amount, index)
  PROVE  Balanced(MoveScaled(token, from, to, amount, index))
<1> DEFINE x     == AmountScaled(amount, index)
           after == MoveScaled(token, from, to, amount, index)
           f     == token.balances
           g     == after.balances
<1>1. after \in ScaledLedger BY MoveScaledType
<1>2. /\ x \in Nat
      /\ after.totalSupply = token.totalSupply
      /\ from = to => g = f
      /\ from # to => g[from] = f[from] - x /\ g[to] = f[to] + x
      /\ \A u \in Accounts \ {from, to} : g[u] = f[u]
  BY MovedBalances
<1>3. \A u \in Accounts : f[u] \in Int /\ g[u] \in Int BY <1>1, LedgerFields
<1>4. token.totalSupply = SumOver(f, Accounts) BY DEF Balanced
<1> HIDE DEF x, f, g
<1>5. SumOver(g, Accounts) = SumOver(f, Accounts)
  <2>1. CASE from = to BY <1>2, <2>1
  <2>2. CASE from # to
    <3>1. SumOver(g, Accounts)
            = SumOver(f, Accounts) + (g[from] - f[from]) + (g[to] - f[to])
      BY <1>2, <1>3, <2>2, AccountsAssumption, SumChangeTwo
    <3>2. SumOver(f, Accounts) \in Int BY <1>3, AccountsAssumption, SumType
    <3>3. f[from] \in Int /\ f[to] \in Int BY <1>3
    <3> QED BY <1>2, <2>2, <3>1, <3>2, <3>3, SMT
  <2> QED BY <2>1, <2>2
<1> QED BY <1>2, <1>4, <1>5 DEF Balanced, g

(***************************************************************************)
(* A reserve, part way through a transaction.                              *)
(***************************************************************************)
ReserveBalanced(r) == Balanced(r.aToken) /\ Balanced(r.variableDebt)

\* updateState: the treasury's aTokens are in the supply.
LEMMA AccruedBalanced ==
  ASSUME TypeOK, NEW a \in Assets, NEW r, Sound(r, now), CanAccrue(a, r),
         ReserveBalanced(r)
  PROVE  ReserveBalanced(Accrued(a, r))
<1> DEFINE li   == UpdatedLiquidityIndex(r, now)
           mint == AmountToMint(r, configuration[a].reserveFactor, now)
<1>1. now \in Nat /\ configuration[a].reserveFactor \in Nat
  BY ReserveFactorType DEF TypeOK
<1>2. r \in Reserve /\ r.aToken \in ScaledLedger BY <1>1, SoundFields DEF Sound
<1>3. mint \in Nat BY <1>1, AmountToMintType DEF CanAccrue
<1>4. li \in Nat /\ RAY <= li BY <1>1, LiquidityIndexGrows
<1>5. /\ Accrued(a, r).aToken = MintScaled(r.aToken, Treasury, mint, li)
      /\ Accrued(a, r).variableDebt = r.variableDebt
  BY <1>2 DEF Accrued, updateState, Reserve
<1> HIDE DEF li, mint
<1>6. Balanced(MintScaled(r.aToken, Treasury, mint, li))
  BY <1>2, <1>3, <1>4, TreasuryAssumption, MintScaledBalanced DEF ReserveBalanced
<1> QED BY <1>5, <1>6 DEF ReserveBalanced

\* updateInterestRates touches no token.
LEMMA RepricedBalanced ==
  ASSUME TypeOK, NEW a \in Assets, NEW r, Sound(r, now), NEW delta,
         CanReprice(a, r, delta), ReserveBalanced(r)
  PROVE  ReserveBalanced(Repriced(a, r, delta))
BY RepricedSound DEF ReserveBalanced, SameDebts

\* A debt minted in either mode.
LEMMA MintDebtBalanced ==
  ASSUME TypeOK, NEW r, Sound(r, now), NEW mode \in RateModes, NEW user \in Accounts,
         NEW amount \in Nat, ReserveBalanced(r)
  PROVE  ReserveBalanced(MintDebt(r, mode, user, amount))
<1> DEFINE token == MintScaled(r.variableDebt, user, amount, r.variableBorrowIndex)
<1>1. now \in Nat BY DEF TypeOK
<1>2. /\ r \in Reserve /\ r.variableDebt \in ScaledLedger
      /\ r.variableBorrowIndex \in Nat /\ RAY <= r.variableBorrowIndex
  BY <1>1, SoundFields DEF Sound
<1>3. Balanced(token) BY <1>2, MintScaledBalanced DEF ReserveBalanced
<1> HIDE DEF token
<1>4. /\ MintDebt(r, mode, user, amount).aToken = r.aToken
      /\ MintDebt(r, mode, user, amount).variableDebt \in {r.variableDebt, token}
  BY <1>2 DEF MintDebt, Reserve, token
<1> QED BY <1>3, <1>4 DEF ReserveBalanced

\* A debt burned in either mode.
LEMMA BurnDebtOfBalanced ==
  ASSUME TypeOK, NEW r, Sound(r, now), NEW mode \in RateModes, NEW user \in Accounts,
         NEW amount \in Nat, CanBurnDebtOf(r, mode, user, amount), ReserveBalanced(r)
  PROVE  ReserveBalanced(BurnDebtOf(r, mode, user, amount))
<1> DEFINE token == BurnScaled(r.variableDebt, user, amount, r.variableBorrowIndex)
<1>1. now \in Nat BY DEF TypeOK
<1>2. r \in Reserve /\ r.variableDebt \in ScaledLedger BY <1>1, SoundFields DEF Sound
<1>3. mode # "stable" => Balanced(token)
  BY <1>2, BurnScaledBalanced DEF ReserveBalanced, CanBurnDebtOf
<1> HIDE DEF token
<1>4. /\ BurnDebtOf(r, mode, user, amount).aToken = r.aToken
      /\ BurnDebtOf(r, mode, user, amount).variableDebt
           = IF mode = "stable" THEN r.variableDebt ELSE token
  BY <1>2 DEF BurnDebtOf, Reserve, token
<1> QED BY <1>3, <1>4 DEF ReserveBalanced

\* The debt side of a liquidation.
LEMMA BurnDebtBalanced ==
  ASSUME TypeOK, NEW r, Sound(r, now), NEW user \in Accounts, NEW owed \in Nat,
         NEW amount \in Nat, CanBurnDebt(r, user, owed, amount), ReserveBalanced(r)
  PROVE  ReserveBalanced(BurnDebt(r, user, owed, amount))
<1> DEFINE part  == FromVariable(owed, amount)
           token == BurnScaled(r.variableDebt, user, part, r.variableBorrowIndex)
<1>1. now \in Nat BY DEF TypeOK
<1>2. r \in Reserve /\ r.variableDebt \in ScaledLedger BY <1>1, SoundFields DEF Sound
<1>3. BurnsVariable(owed, amount) => Balanced(token)
  BY <1>2, BurnScaledBalanced DEF ReserveBalanced, CanBurnDebt
<1> HIDE DEF token
<1>4. /\ BurnDebt(r, user, owed, amount).aToken = r.aToken
      /\ BurnDebt(r, user, owed, amount).variableDebt
           = IF BurnsVariable(owed, amount) THEN token ELSE r.variableDebt
  BY <1>2 DEF BurnDebt, Reserve, token
<1> QED BY <1>3, <1>4 DEF ReserveBalanced

(***************************************************************************)
(* Wallets: what an account receives or pays, all of them together do.     *)
(***************************************************************************)
Held(w, a) == SumOver(w[a], Accounts)

\* What is held, by one account or by all, is a number.
LEMMA HeldType ==
  ASSUME NEW w \in Wallets, NEW a \in Assets
  PROVE  /\ Held(w, a) \in Int
         /\ \A u \in Accounts : w[a][u] \in Nat /\ w[a][u] \in Int
<1>1. \A u \in Accounts : w[a][u] \in Nat /\ w[a][u] \in Int BY DEF Wallets, Balances
<1>2. Held(w, a) \in Int BY <1>1, AccountsAssumption, SumType DEF Held
<1> QED BY <1>1, <1>2

\* Underlying tokens reaching an account.
LEMMA ReceivedHeld ==
  ASSUME NEW w \in Wallets, NEW a \in Assets, NEW u \in Accounts, NEW amount \in Nat
  PROVE  /\ Held(Received(w, a, u, amount), a) = Held(w, a) + amount
         /\ \A b \in Assets \ {a} : Held(Received(w, a, u, amount), b) = Held(w, b)
<1> DEFINE after == Received(w, a, u, amount)
           f == w[a]
           g == after[a]
<1>1. after \in Wallets BY ReceivedType
<1>2. g[u] = f[u] + amount /\ \A v \in Accounts \ {u} : g[v] = f[v]
  BY DEF Received, Wallets, Balances
<1>3. \A b \in Assets \ {a} : after[b] = w[b] BY DEF Received, Wallets
<1>4. \A v \in Accounts : f[v] \in Int /\ g[v] \in Int BY <1>1, HeldType
<1> HIDE DEF after, f, g
<1>5. SumOver(g, Accounts) = SumOver(f, Accounts) + (g[u] - f[u])
  BY <1>2, <1>4, AccountsAssumption, SumChange
<1>6. SumOver(f, Accounts) \in Int BY <1>4, AccountsAssumption, SumType
<1>7. SumOver(g, Accounts) = SumOver(f, Accounts) + amount
  BY <1>2, <1>4, <1>5, <1>6, SMT
<1> QED BY <1>3, <1>7 DEF Held, after, f, g

\* Underlying tokens leaving an account that has them.
LEMMA PaidHeld ==
  ASSUME NEW w \in Wallets, NEW a \in Assets, NEW u \in Accounts, NEW amount \in Nat,
         amount <= w[a][u]
  PROVE  /\ Held(Paid(w, a, u, amount), a) = Held(w, a) - amount
         /\ \A b \in Assets \ {a} : Held(Paid(w, a, u, amount), b) = Held(w, b)
<1> DEFINE after == Paid(w, a, u, amount)
           f == w[a]
           g == after[a]
<1>1. after \in Wallets BY PaidType
<1>2. g[u] = f[u] - amount /\ \A v \in Accounts \ {u} : g[v] = f[v]
  BY DEF Paid, Wallets, Balances
<1>3. \A b \in Assets \ {a} : after[b] = w[b] BY DEF Paid, Wallets
<1>4. \A v \in Accounts : f[v] \in Int /\ g[v] \in Int BY <1>1, HeldType
<1> HIDE DEF after, f, g
<1>5. SumOver(g, Accounts) = SumOver(f, Accounts) + (g[u] - f[u])
  BY <1>2, <1>4, AccountsAssumption, SumChange
<1>6. SumOver(f, Accounts) \in Int BY <1>4, AccountsAssumption, SumType
<1>7. SumOver(g, Accounts) = SumOver(f, Accounts) - amount
  BY <1>2, <1>4, <1>5, <1>6, SMT
<1> QED BY <1>3, <1>7 DEF Held, after, f, g

(***************************************************************************)
(* The books.  They are inductive together with IInv, which makes every    *)
(* amount that moves a number.                                             *)
(***************************************************************************)
Books ==
  \A a \in Assets :
    /\ ReserveBalanced(reserves[a])
    /\ reserves[a].cash + Held(wallet, a) = Held(InitialWallet, a)

\* A transaction on one reserve that keeps its ledgers balanced, and takes from
\* the wallets what it adds to the cash.
LEMMA BooksStep ==
  ASSUME IInv, Books, NEW a \in Assets, NEW R,
         reserves' = [reserves EXCEPT ![a] = R], ReserveBalanced(R),
         R.cash + Held(wallet', a) = reserves[a].cash + Held(wallet, a),
         \A b \in Assets \ {a} : Held(wallet', b) = Held(wallet, b)
  PROVE  Books'
<1>1. reserves \in [Assets -> Reserve] BY DEF IInv, TypeOK
<1>2. reserves'[a] = R /\ \A b \in Assets \ {a} : reserves'[b] = reserves[b]
  BY <1>1
<1> SUFFICES ASSUME NEW b \in Assets
             PROVE  /\ ReserveBalanced(reserves'[b])
                    /\ reserves'[b].cash + Held(wallet', b) = Held(InitialWallet, b)
  BY DEF Books, Held
<1>3. CASE b = a BY <1>2, <1>3 DEF Books
<1>4. CASE b # a BY <1>2, <1>4 DEF Books
<1> QED BY <1>3, <1>4

(***************************************************************************)
(* Deposits, withdrawals and transfers.                                    *)
(***************************************************************************)

\* What an operation on aTokens starts from, when it accrues and reprices.
LEMMA RepricedBooks ==
  ASSUME IInv, Books, NEW a \in Assets, NEW delta, CanAccrue(a, reserves[a]),
         CanReprice(a, Accrued(a, reserves[a]), delta)
  PROVE  LET repriced == Repriced(a, Accrued(a, reserves[a]), delta)
         IN repriced \in Reserve /\ ReserveBalanced(repriced)
<1> DEFINE accrued == Accrued(a, reserves[a])
<1>1. TypeOK /\ Sound(reserves[a], now) BY IInvParts
<1>2. Sound(accrued, now) /\ ReserveBalanced(accrued)
  BY <1>1, AccruedSound, AccruedBalanced DEF Books
<1>3. CanReprice(a, accrued, delta) OBVIOUS
<1> HIDE DEF accrued
<1>4. Sound(Repriced(a, accrued, delta), now) /\ ReserveBalanced(Repriced(a, accrued, delta))
  BY <1>1, <1>2, <1>3, RepricedSound, RepricedBalanced
<1> QED BY <1>4 DEF accrued, Sound

\* A new aToken ledger and cash in a reserve.
LEMMA SupplyFields ==
  ASSUME NEW r \in Reserve, NEW token, NEW cash
  PROVE  LET after == [r EXCEPT !.aToken = token, !.cash = cash]
         IN /\ after.aToken = token
            /\ after.cash = cash
            /\ after.variableDebt = r.variableDebt
BY DEF Reserve

\* deposit: the depositor pays what the reserve receives.
LEMMA DepositBooks ==
  ASSUME IInv, Books, NEW caller \in Users, NEW a \in Assets, NEW x \in Amounts,
         NEW onBehalfOf \in Users, deposit(caller, a, x, onBehalfOf)
  PROVE  Books'
<1> DEFINE repriced == Repriced(a, Accrued(a, reserves[a]), x)
           token == MintScaled(repriced.aToken, onBehalfOf, x, repriced.liquidityIndex)
           R == [repriced EXCEPT !.aToken = token, !.cash = repriced.cash + x]
<1>1. x \in Nat /\ caller \in Accounts /\ onBehalfOf \in Accounts
  BY AmountsAreNumbers, MarketAssumption
<1>2. CanAccrue(a, reserves[a]) /\ CanReprice(a, Accrued(a, reserves[a]), x)
  BY DEF deposit
<1>3. reserves' = [reserves EXCEPT ![a] = R] BY DEF deposit
<1>4. wallet' = Paid(wallet, a, caller, x) /\ x <= wallet[a][caller] BY DEF deposit
<1>5. /\ repriced.aToken \in ScaledLedger
      /\ repriced.liquidityIndex \in Nat /\ RAY <= repriced.liquidityIndex
      /\ repriced.cash = reserves[a].cash /\ repriced.cash \in Nat
  BY <1>2, AccruedTokens
<1>6. repriced \in Reserve /\ ReserveBalanced(repriced) BY <1>2, RepricedBooks
<1> HIDE DEF repriced
<1>7. Balanced(token) BY <1>1, <1>5, <1>6, MintScaledBalanced DEF ReserveBalanced
<1> HIDE DEF token
<1>8. ReserveBalanced(R) /\ R.cash = repriced.cash + x
  BY <1>6, <1>7, SupplyFields DEF ReserveBalanced
<1>9. /\ wallet \in Wallets /\ Held(wallet, a) \in Int
      /\ Held(wallet', a) = Held(wallet, a) - x
      /\ \A b \in Assets \ {a} : Held(wallet', b) = Held(wallet, b)
  BY <1>1, <1>4, IInvParts, HeldType, PaidHeld
<1> HIDE DEF R
<1>10. R.cash + Held(wallet', a) = reserves[a].cash + Held(wallet, a)
  BY <1>1, <1>5, <1>8, <1>9, SMT
<1> QED BY <1>3, <1>8, <1>9, <1>10, BooksStep

\* withdraw: the recipient receives what the reserve pays.
LEMMA WithdrawBooks ==
  ASSUME IInv, Books, NEW caller \in Users, NEW a \in Assets, NEW x \in Amounts,
         NEW to \in Users, withdraw(caller, a, x, to)
  PROVE  Books'
<1> DEFINE userBalance == ATokenBalanceOf(reserves[a], caller, now)
           withdrawn == IF x = MAX_UINT256 THEN userBalance ELSE x
           repriced == Repriced(a, Accrued(a, reserves[a]), -withdrawn)
           token == BurnScaled(repriced.aToken, caller, withdrawn, repriced.liquidityIndex)
           R == [repriced EXCEPT !.aToken = token, !.cash = repriced.cash - withdrawn]
<1>1. caller \in Accounts /\ to \in Accounts BY MarketAssumption
<1>2. withdrawn \in Nat
  <2>1. userBalance \in Nat BY <1>1, IInvParts, ATokenBalanceType
  <2> QED BY <2>1, AmountsAreNumbers
<1>3. /\ CanAccrue(a, reserves[a])
      /\ CanReprice(a, Accrued(a, reserves[a]), -withdrawn)
      /\ CanBurnScaled(repriced.aToken, caller, withdrawn, repriced.liquidityIndex)
  BY DEF withdraw
<1>4. reserves' = [reserves EXCEPT ![a] = R] BY DEF withdraw
<1>5. wallet' = Received(wallet, a, to, withdrawn) BY DEF withdraw
<1> HIDE DEF withdrawn
<1>6. /\ repriced.aToken \in ScaledLedger
      /\ repriced.cash = reserves[a].cash /\ repriced.cash \in Nat
  BY <1>3, AccruedTokens
<1>7. repriced \in Reserve /\ ReserveBalanced(repriced) BY <1>3, RepricedBooks
<1> HIDE DEF repriced
<1>8. Balanced(token) BY <1>1, <1>3, <1>6, <1>7, BurnScaledBalanced DEF ReserveBalanced
<1> HIDE DEF token
<1>9. ReserveBalanced(R) /\ R.cash = repriced.cash - withdrawn
  BY <1>7, <1>8, SupplyFields DEF ReserveBalanced
<1>10. /\ wallet \in Wallets /\ Held(wallet, a) \in Int
       /\ Held(wallet', a) = Held(wallet, a) + withdrawn
       /\ \A b \in Assets \ {a} : Held(wallet', b) = Held(wallet, b)
  BY <1>1, <1>2, <1>5, IInvParts, HeldType, ReceivedHeld
<1> HIDE DEF R
<1>11. R.cash + Held(wallet', a) = reserves[a].cash + Held(wallet, a)
  BY <1>2, <1>6, <1>9, <1>10, SMT
<1> QED BY <1>4, <1>9, <1>10, <1>11, BooksStep

\* transfer: only the balances move, and not the wallets.
LEMMA TransferBooks ==
  ASSUME IInv, Books, NEW from \in Users, NEW a \in Assets, NEW to \in Users,
         NEW x \in Amounts, transfer(from, a, to, x)
  PROVE  Books'
<1> DEFINE r     == reserves[a]
           index == getNormalizedIncome(r, now)
           token == MoveScaled(r.aToken, from, to, x, index)
           R     == [r EXCEPT !.aToken = token]
<1>1. /\ now \in Nat /\ Sound(r, now) /\ ReserveBalanced(r)
      /\ from \in Accounts /\ to \in Accounts /\ x \in Nat
  BY IInvParts, MarketAssumption, AmountsAreNumbers DEF Books
<1>2. index \in Nat /\ RAY <= index BY <1>1, LiquidityIndexGrows
<1>3. CanMoveScaled(r.aToken, from, x, index) BY DEF transfer
<1>4. reserves' = [reserves EXCEPT ![a] = R] /\ wallet' = wallet BY DEF transfer
<1>5. r \in Reserve /\ r.aToken \in ScaledLedger BY <1>1, SoundFields DEF Sound
<1> HIDE DEF r, index
<1>6. Balanced(token) BY <1>1, <1>2, <1>3, <1>5, MoveScaledBalanced DEF ReserveBalanced
<1> HIDE DEF token
<1>7. R.aToken = token /\ R.variableDebt = r.variableDebt /\ R.cash = r.cash
  BY <1>5 DEF Reserve
<1>8. ReserveBalanced(R) BY <1>1, <1>6, <1>7 DEF ReserveBalanced
<1> HIDE DEF R
<1>9. /\ R.cash + Held(wallet', a) = reserves[a].cash + Held(wallet, a)
      /\ \A b \in Assets \ {a} : Held(wallet', b) = Held(wallet, b)
  BY <1>4, <1>7 DEF r
<1> QED BY <1>4, <1>8, <1>9, BooksStep

(***************************************************************************)
(* Operations that change debts.                                           *)
(***************************************************************************)

\* The reserve an operation on a debt starts from.
LEMMA AccruedBooks ==
  ASSUME IInv, Books, NEW a \in Assets, CanAccrue(a, reserves[a])
  PROVE  LET accrued == Accrued(a, reserves[a])
         IN /\ TypeOK /\ Sound(accrued, now)
            /\ ReserveBalanced(accrued)
            /\ accrued.cash = reserves[a].cash
            /\ reserves[a].cash \in Nat
<1>1. TypeOK /\ now \in Nat /\ Sound(reserves[a], now) BY IInvParts
<1>2. Sound(Accrued(a, reserves[a]), now) /\ Accrued(a, reserves[a]).cash = reserves[a].cash
  BY <1>1, AccruedSound
<1>3. ReserveBalanced(Accrued(a, reserves[a])) BY <1>1, AccruedBalanced DEF Books
<1>4. reserves[a].cash \in Nat BY <1>1, SoundFields
<1> QED BY <1>1, <1>2, <1>3, <1>4

\* The reserve it leaves, with the cash it has then.
LEMMA RepricedCash ==
  ASSUME TypeOK, NEW a \in Assets, NEW r, Sound(r, now), ReserveBalanced(r), NEW delta,
         CanReprice(a, r, delta), NEW cash
  PROVE  LET after == WithCash(Repriced(a, r, delta), cash)
         IN /\ ReserveBalanced(after)
            /\ after.cash = cash
            /\ Repriced(a, r, delta).cash = r.cash
<1> DEFINE s == Repriced(a, r, delta)
<1>1. Sound(s, now) /\ ReserveBalanced(s) /\ s.cash = r.cash
  BY RepricedSound, RepricedBalanced
<1>2. s \in Reserve BY <1>1 DEF Sound
<1> HIDE DEF s
<1>3. /\ WithCash(s, cash).aToken = s.aToken
      /\ WithCash(s, cash).variableDebt = s.variableDebt
      /\ WithCash(s, cash).cash = cash
  BY <1>2 DEF WithCash, Reserve
<1>4. ReserveBalanced(WithCash(s, cash)) BY <1>1, <1>3 DEF ReserveBalanced
<1> QED BY <1>1, <1>3, <1>4 DEF s

\* borrow: the borrower receives what the reserve pays.
LEMMA BorrowBooks ==
  ASSUME IInv, Books, NEW caller \in Users, NEW a \in Assets, NEW x \in Amounts,
         NEW mode \in RateModes, NEW onBehalfOf \in Users,
         borrow(caller, a, x, mode, onBehalfOf)
  PROVE  Books'
<1> DEFINE accrued  == Accrued(a, reserves[a])
           minted   == MintDebt(accrued, mode, onBehalfOf, x)
           repriced == Repriced(a, minted, -x)
           R        == WithCash(repriced, repriced.cash - x)
<1>1. x \in Nat /\ caller \in Accounts /\ onBehalfOf \in Accounts
  BY AmountsAreNumbers, MarketAssumption
<1>2. /\ CanAccrue(a, reserves[a])
      /\ CanMintDebt(accrued, mode, onBehalfOf, x)
      /\ CanReprice(a, minted, -x)
  BY DEF borrow
<1>3. /\ reserves' = [reserves EXCEPT ![a] = R]
      /\ wallet' = Received(wallet, a, caller, x)
  BY DEF borrow, WithCash
<1>4. /\ TypeOK /\ Sound(accrued, now) /\ ReserveBalanced(accrued)
      /\ accrued.cash = reserves[a].cash /\ reserves[a].cash \in Nat
  BY <1>2, AccruedBooks
<1> HIDE DEF accrued
<1>5. Sound(minted, now) /\ ReserveBalanced(minted) /\ minted.cash = accrued.cash
  BY <1>1, <1>2, <1>4, MintDebtSound, MintDebtBalanced
<1> HIDE DEF minted
<1>6. ReserveBalanced(R) /\ R.cash = repriced.cash - x /\ repriced.cash = minted.cash
  BY <1>2, <1>4, <1>5, RepricedCash
<1>7. /\ wallet \in Wallets /\ Held(wallet, a) \in Int
      /\ Held(wallet', a) = Held(wallet, a) + x
      /\ \A b \in Assets \ {a} : Held(wallet', b) = Held(wallet, b)
  BY <1>1, <1>3, IInvParts, HeldType, ReceivedHeld
<1> HIDE DEF R, repriced
<1>8. R.cash + Held(wallet', a) = reserves[a].cash + Held(wallet, a)
  BY <1>1, <1>4, <1>5, <1>6, <1>7, SMT
<1> QED BY <1>3, <1>6, <1>7, <1>8, BooksStep

\* repay: the payer pays what the reserve receives, at most the debt.
LEMMA RepayBooks ==
  ASSUME IInv, Books, NEW caller \in Users, NEW a \in Assets, NEW x \in Amounts,
         NEW mode \in RateModes, NEW onBehalfOf \in Users,
         repay(caller, a, x, mode, onBehalfOf)
  PROVE  Books'
<1> DEFINE stable   == StableDebtOf(reserves[a], onBehalfOf, now)
           variable == VariableDebtOf(reserves[a], onBehalfOf, now)
           debt     == IF mode = "stable" THEN stable ELSE variable
           amount   == IF x < debt THEN x ELSE debt
           accrued  == Accrued(a, reserves[a])
           burned   == BurnDebtOf(accrued, mode, onBehalfOf, amount)
           repriced == Repriced(a, burned, amount)
           R        == WithCash(repriced, repriced.cash + amount)
<1>1. x \in Nat /\ caller \in Accounts /\ onBehalfOf \in Accounts
  BY AmountsAreNumbers, MarketAssumption
<1>2. stable \in Nat /\ variable \in Nat BY <1>1, IInvParts, DebtTypes
<1>3. /\ CanAccrue(a, reserves[a])
      /\ CanBurnDebtOf(accrued, mode, onBehalfOf, amount)
      /\ CanReprice(a, burned, amount)
      /\ amount <= wallet[a][caller]
  BY DEF repay
<1>4. /\ reserves' = [reserves EXCEPT ![a] = R]
      /\ wallet' = Paid(wallet, a, caller, amount)
  BY DEF repay, WithCash
<1>5. amount \in Nat
  <2> HIDE DEF stable, variable
  <2> QED BY <1>1, <1>2
<1> HIDE DEF amount
<1>6. /\ TypeOK /\ Sound(accrued, now) /\ ReserveBalanced(accrued)
      /\ accrued.cash = reserves[a].cash /\ reserves[a].cash \in Nat
  BY <1>3, AccruedBooks
<1> HIDE DEF accrued
<1>7. Sound(burned, now) /\ ReserveBalanced(burned) /\ burned.cash = accrued.cash
  BY <1>1, <1>3, <1>5, <1>6, BurnDebtOfSound, BurnDebtOfBalanced
<1> HIDE DEF burned
<1>8. ReserveBalanced(R) /\ R.cash = repriced.cash + amount /\ repriced.cash = burned.cash
  BY <1>3, <1>6, <1>7, RepricedCash
<1>9. /\ wallet \in Wallets /\ Held(wallet, a) \in Int
      /\ Held(wallet', a) = Held(wallet, a) - amount
      /\ \A b \in Assets \ {a} : Held(wallet', b) = Held(wallet, b)
  BY <1>1, <1>3, <1>4, <1>5, IInvParts, HeldType, PaidHeld
<1> HIDE DEF R, repriced
<1>10. R.cash + Held(wallet', a) = reserves[a].cash + Held(wallet, a)
  BY <1>5, <1>6, <1>7, <1>8, <1>9, SMT
<1> QED BY <1>4, <1>8, <1>9, <1>10, BooksStep

\* Swapping and rebalancing burn a debt and mint it again, and no token moves.
LEMMA RemintBooks ==
  ASSUME IInv, Books, NEW a \in Assets, NEW user \in Accounts,
         NEW from \in RateModes, NEW to \in RateModes, NEW amount \in Nat,
         CanAccrue(a, reserves[a]),
         CanBurnDebtOf(Accrued(a, reserves[a]), from, user, amount),
         CanMintDebt(BurnDebtOf(Accrued(a, reserves[a]), from, user, amount), to, user, amount),
         CanReprice(a, MintDebt(BurnDebtOf(Accrued(a, reserves[a]), from, user, amount),
                                to, user, amount), 0),
         reserves' = [reserves EXCEPT ![a] =
           Repriced(a, MintDebt(BurnDebtOf(Accrued(a, reserves[a]), from, user, amount),
                                to, user, amount), 0)],
         wallet' = wallet
  PROVE  Books'
<1> DEFINE accrued  == Accrued(a, reserves[a])
           burned   == BurnDebtOf(accrued, from, user, amount)
           minted   == MintDebt(burned, to, user, amount)
           R        == Repriced(a, minted, 0)
<1>1. /\ TypeOK /\ Sound(accrued, now) /\ ReserveBalanced(accrued)
      /\ accrued.cash = reserves[a].cash /\ reserves[a].cash \in Nat
  BY AccruedBooks
<1>2. /\ CanBurnDebtOf(accrued, from, user, amount)
      /\ CanMintDebt(burned, to, user, amount)
      /\ CanReprice(a, minted, 0)
      /\ reserves' = [reserves EXCEPT ![a] = R]
  OBVIOUS
<1> HIDE DEF accrued
<1>3. Sound(burned, now) /\ ReserveBalanced(burned) /\ burned.cash = accrued.cash
  BY <1>1, <1>2, BurnDebtOfSound, BurnDebtOfBalanced
<1> HIDE DEF burned
<1>4. Sound(minted, now) /\ ReserveBalanced(minted) /\ minted.cash = burned.cash
  BY <1>1, <1>2, <1>3, MintDebtSound, MintDebtBalanced
<1> HIDE DEF minted
<1>5. ReserveBalanced(R) /\ R.cash = minted.cash
  BY <1>1, <1>2, <1>4, RepricedSound, RepricedBalanced
<1> HIDE DEF R
<1>6. /\ R.cash + Held(wallet', a) = reserves[a].cash + Held(wallet, a)
      /\ \A b \in Assets \ {a} : Held(wallet', b) = Held(wallet, b)
  BY <1>1, <1>3, <1>4, <1>5
<1> QED BY <1>2, <1>5, <1>6, BooksStep

\* LendingPool.swapBorrowRateMode.
LEMMA SwapBooks ==
  ASSUME IInv, Books, NEW caller \in Users, NEW a \in Assets, NEW mode \in RateModes,
         swapBorrowRateMode(caller, a, mode)
  PROVE  Books'
<1> DEFINE amount == IF mode = "stable" THEN StableDebtOf(reserves[a], caller, now)
                     ELSE VariableDebtOf(reserves[a], caller, now)
<1>1. caller \in Accounts /\ OtherMode(mode) \in RateModes
  BY MarketAssumption DEF OtherMode, RateModes
<1>2. amount \in Nat BY <1>1, IInvParts, DebtTypes
<1>3. /\ CanAccrue(a, reserves[a])
      /\ CanBurnDebtOf(Accrued(a, reserves[a]), mode, caller, amount)
      /\ CanMintDebt(BurnDebtOf(Accrued(a, reserves[a]), mode, caller, amount),
                     OtherMode(mode), caller, amount)
      /\ CanReprice(a, MintDebt(BurnDebtOf(Accrued(a, reserves[a]), mode, caller, amount),
                                OtherMode(mode), caller, amount), 0)
      /\ reserves' = [reserves EXCEPT ![a] =
           Repriced(a, MintDebt(BurnDebtOf(Accrued(a, reserves[a]), mode, caller, amount),
                                OtherMode(mode), caller, amount), 0)]
      /\ wallet' = wallet
  BY DEF swapBorrowRateMode
<1> HIDE DEF amount
<1> QED BY <1>1, <1>2, <1>3, RemintBooks

\* LendingPool.rebalanceStableBorrowRate.
LEMMA RebalanceBooks ==
  ASSUME IInv, Books, NEW user \in Users, NEW a \in Assets,
         rebalanceStableBorrowRate(a, user)
  PROVE  Books'
<1> DEFINE amount == StableDebtOf(reserves[a], user, now)
<1>1. user \in Accounts /\ "stable" \in RateModes BY MarketAssumption DEF RateModes
<1>2. amount \in Nat BY <1>1, IInvParts, DebtTypes
<1>3. /\ CanAccrue(a, reserves[a])
      /\ CanBurnDebtOf(Accrued(a, reserves[a]), "stable", user, amount)
      /\ CanMintDebt(BurnDebtOf(Accrued(a, reserves[a]), "stable", user, amount),
                     "stable", user, amount)
      /\ CanReprice(a, MintDebt(BurnDebtOf(Accrued(a, reserves[a]), "stable", user, amount),
                                "stable", user, amount), 0)
      /\ reserves' = [reserves EXCEPT ![a] =
           Repriced(a, MintDebt(BurnDebtOf(Accrued(a, reserves[a]), "stable", user, amount),
                                "stable", user, amount), 0)]
      /\ wallet' = wallet
  BY DEF rebalanceStableBorrowRate
<1> HIDE DEF amount
<1> QED BY <1>1, <1>2, <1>3, RemintBooks

(***************************************************************************)
(* Liquidations write two reserves, or one twice.                          *)
(***************************************************************************)

\* The collateral side: aTokens moved, or burned for the cash they stand for.
LEMMA SeizedBooks ==
  ASSUME TypeOK, NEW rs \in [Assets -> Reserve],
         \A b \in Assets : Sound(rs[b], now) /\ ReserveBalanced(rs[b]),
         NEW coll \in Assets, NEW user \in Accounts, NEW liquidator \in Accounts,
         NEW amount \in Nat, NEW receiveAToken \in BOOLEAN,
         CanSeize(rs, coll, user, amount, receiveAToken)
  PROVE  LET after == Seized(rs, coll, user, liquidator, amount, receiveAToken)
         IN \A b \in Assets :
              /\ ReserveBalanced(after[b])
              /\ after[b].cash = IF b = coll /\ ~receiveAToken THEN rs[b].cash - amount
                                 ELSE rs[b].cash
<1> DEFINE r == rs[coll]
           index == getNormalizedIncome(r, now)
           moved == MoveScaled(r.aToken, user, liquidator, amount, index)
           accrued == Accrued(coll, r)
           s == Repriced(coll, accrued, -amount)
           burned == BurnScaled(s.aToken, user, amount, s.liquidityIndex)
           R == IF receiveAToken THEN [r EXCEPT !.aToken = moved]
                ELSE [s EXCEPT !.aToken = burned, !.cash = s.cash - amount]
<1>1. /\ now \in Nat /\ Sound(r, now) /\ ReserveBalanced(r)
      /\ r \in Reserve /\ r.aToken \in ScaledLedger
  BY SoundFields DEF TypeOK, Sound
<1>2. ReserveBalanced(R) /\ R.cash = IF receiveAToken THEN r.cash ELSE r.cash - amount
  <2>1. CASE receiveAToken
    <3>1. index \in Nat /\ RAY <= index BY <1>1, LiquidityIndexGrows
    <3>2. CanMoveScaled(r.aToken, user, amount, index) BY <2>1 DEF CanSeize
    <3> HIDE DEF r, index
    <3>3. Balanced(moved) BY <1>1, <3>1, <3>2, MoveScaledBalanced DEF ReserveBalanced
    <3> HIDE DEF moved
    <3>4. R.aToken = moved /\ R.variableDebt = r.variableDebt /\ R.cash = r.cash
      BY <1>1, <2>1 DEF Reserve
    <3> HIDE DEF R
    <3> QED BY <1>1, <2>1, <3>3, <3>4 DEF ReserveBalanced
  <2>2. CASE ~receiveAToken
    <3>1. /\ CanAccrue(coll, r)
          /\ CanReprice(coll, accrued, -amount)
          /\ CanBurnScaled(s.aToken, user, amount, s.liquidityIndex)
      BY <2>2 DEF CanSeize, RepricedCollateral
    <3> HIDE DEF r
    <3>2. Sound(accrued, now) /\ ReserveBalanced(accrued) /\ accrued.cash = r.cash
      BY <1>1, <3>1, AccruedSound, AccruedBalanced
    <3> HIDE DEF accrued
    <3>3. Sound(s, now) /\ ReserveBalanced(s) /\ s.cash = accrued.cash
      BY <3>1, <3>2, RepricedSound, RepricedBalanced
    <3> HIDE DEF s
    <3>4. s \in Reserve /\ s.aToken \in ScaledLedger BY <1>1, <3>3, SoundFields DEF Sound
    <3>5. Balanced(burned) BY <3>1, <3>3, <3>4, BurnScaledBalanced DEF ReserveBalanced
    <3> HIDE DEF burned
    <3>6. R.aToken = burned /\ R.variableDebt = s.variableDebt /\ R.cash = s.cash - amount
      BY <2>2, <3>4, SupplyFields
    <3> HIDE DEF R
    <3> QED BY <2>2, <3>2, <3>3, <3>5, <3>6 DEF ReserveBalanced
  <2> QED BY <2>1, <2>2
<1>3. Seized(rs, coll, user, liquidator, amount, receiveAToken) = [rs EXCEPT ![coll] = R]
  <2>1. CASE receiveAToken BY <2>1 DEF Seized
  <2>2. CASE ~receiveAToken BY <2>2 DEF Seized, RepricedCollateral
  <2> QED BY <2>1, <2>2
<1> HIDE DEF R
<1>4. /\ [rs EXCEPT ![coll] = R][coll] = R
      /\ \A b \in Assets \ {coll} : [rs EXCEPT ![coll] = R][b] = rs[b]
  OBVIOUS
<1> QED BY <1>2, <1>3, <1>4

\* The wallets of a liquidation: the liquidator gets the collateral, unless it is
\* aTokens, and pays the debt.
LEMMA LiquidationHeld ==
  ASSUME NEW w \in Wallets, NEW coll \in Assets, NEW debt \in Assets, NEW u \in Accounts,
         NEW taken \in Nat, NEW paid \in Nat, NEW receiveAToken \in BOOLEAN,
         NEW then, then = IF receiveAToken THEN w ELSE Received(w, coll, u, taken),
         paid <= then[debt][u]
  PROVE  \A b \in Assets :
           Held(Paid(then, debt, u, paid), b)
             = Held(w, b) + (IF b = coll /\ ~receiveAToken THEN taken ELSE 0)
                          - (IF b = debt THEN paid ELSE 0)
<1>1. /\ then \in Wallets
      /\ \A b \in Assets : Held(then, b) = IF b = coll /\ ~receiveAToken
                                           THEN Held(w, b) + taken ELSE Held(w, b)
  <2>1. CASE receiveAToken BY <2>1
  <2>2. CASE ~receiveAToken BY <2>2, ReceivedType, ReceivedHeld
  <2> QED BY <2>1, <2>2
<1>2. \A b \in Assets : Held(Paid(then, debt, u, paid), b)
                          = IF b = debt THEN Held(then, b) - paid ELSE Held(then, b)
  BY <1>1, PaidHeld
<1>3. \A b \in Assets : Held(w, b) \in Int BY HeldType
<1> TAKE b \in Assets
<1> DEFINE h == Held(w, b)
           k == Held(then, b)
           l == Held(Paid(then, debt, u, paid), b)
<1>4. /\ h \in Int
      /\ k = IF b = coll /\ ~receiveAToken THEN h + taken ELSE h
      /\ l = IF b = debt THEN k - paid ELSE k
  BY <1>1, <1>2, <1>3
<1> HIDE DEF h, k, l
<1>5. l = h + (IF b = coll /\ ~receiveAToken THEN taken ELSE 0)
            - (IF b = debt THEN paid ELSE 0)
  BY <1>4
<1> QED BY <1>5 DEF h, l

\* liquidationCall: for equal and different assets, in aTokens or not.
LEMMA LiquidationBooks ==
  ASSUME IInv, Books, NEW liquidator \in Users, NEW coll \in Assets, NEW debt \in Assets,
         NEW user \in Users, NEW x \in Amounts, NEW receiveAToken \in BOOLEAN,
         liquidationCall(liquidator, coll, debt, user, x, receiveAToken)
  PROVE  Books'
<1> DEFINE variableOwed == VariableDebtOf(reserves[debt], user, now)
           amounts  == Liquidated(coll, debt, user, x)
           paid     == amounts.debt
           taken    == amounts.collateral
           accrued  == Accrued(debt, reserves[debt])
           burned   == BurnDebt(accrued, user, variableOwed, paid)
           repriced == Repriced(debt, burned, paid)
           rs       == [reserves EXCEPT ![debt] = repriced]
           seized   == Seized(rs, coll, user, liquidator, taken, receiveAToken)
           then     == IF receiveAToken THEN wallet
                       ELSE Received(wallet, coll, liquidator, taken)
           final    == WithCash(seized[debt], seized[debt].cash + paid)
<1>1. x \in Nat /\ liquidator \in Accounts /\ user \in Accounts
  BY AmountsAreNumbers, MarketAssumption
<1>2. /\ coll \in CollateralAssets(user)
      /\ CanAccrue(debt, reserves[debt])
      /\ CanBurnDebt(accrued, user, variableOwed, paid)
      /\ CanReprice(debt, burned, paid)
      /\ CanSeize(rs, coll, user, taken, receiveAToken)
      /\ paid <= then[debt][liquidator]
  BY DEF liquidationCall, validateLiquidationCall
<1>3. /\ reserves' = [seized EXCEPT ![debt] = final]
      /\ wallet' = Paid(then, debt, liquidator, paid)
  BY DEF liquidationCall, WithCash
<1>4. paid \in Nat /\ taken \in Nat BY <1>1, <1>2, LiquidatedType
<1>5. variableOwed \in Nat BY <1>1, IInvParts, DebtTypes
<1>6. /\ reserves \in [Assets -> Reserve] /\ wallet \in Wallets
      /\ \A b \in Assets : /\ Sound(reserves[b], now) /\ ReserveBalanced(reserves[b])
                           /\ reserves[b].cash \in Int
  <2>1. \A b \in Assets : reserves[b].cash \in Nat BY IInvParts, SoundFields
  <2>2. \A b \in Assets : reserves[b].cash \in Int BY <2>1, SMT
  <2> QED BY <2>2, IInvParts DEF TypeOK, Books
<1>7. /\ TypeOK /\ Sound(accrued, now) /\ ReserveBalanced(accrued)
      /\ accrued.cash = reserves[debt].cash
  BY <1>2, AccruedBooks
<1> HIDE DEF variableOwed, amounts, accrued
<1>8. Sound(burned, now) /\ ReserveBalanced(burned) /\ burned.cash = accrued.cash
  BY <1>1, <1>2, <1>4, <1>5, <1>7, BurnDebtSound, BurnDebtBalanced
<1> HIDE DEF burned
<1>9. Sound(repriced, now) /\ ReserveBalanced(repriced) /\ repriced.cash = burned.cash
  BY <1>2, <1>7, <1>8, RepricedSound, RepricedBalanced
<1> HIDE DEF repriced
<1>10. repriced \in Reserve BY <1>9 DEF Sound
<1>11. /\ rs \in [Assets -> Reserve] /\ rs[debt] = repriced
       /\ \A b \in Assets \ {debt} : rs[b] = reserves[b]
  BY <1>6, <1>10
<1> HIDE DEF rs
<1>12. \A b \in Assets : /\ Sound(rs[b], now) /\ ReserveBalanced(rs[b])
                         /\ rs[b].cash = reserves[b].cash
  <2> TAKE b \in Assets
  <2>1. CASE b = debt BY <1>7, <1>8, <1>9, <1>11, <2>1
  <2>2. CASE b # debt BY <1>6, <1>11, <2>2
  <2> QED BY <2>1, <2>2
<1>13. /\ seized \in [Assets -> Reserve]
       /\ \A b \in Assets :
            /\ ReserveBalanced(seized[b])
            /\ seized[b].cash = IF b = coll /\ ~receiveAToken THEN reserves[b].cash - taken
                                ELSE reserves[b].cash
  <2> HIDE DEF taken
  <2>1. seized \in [Assets -> Reserve]
    BY <1>1, <1>2, <1>4, <1>7, <1>11, <1>12, SeizedSupply
  <2>2. \A b \in Assets :
          /\ ReserveBalanced(seized[b])
          /\ seized[b].cash = IF b = coll /\ ~receiveAToken THEN rs[b].cash - taken
                              ELSE rs[b].cash
    BY <1>1, <1>2, <1>4, <1>7, <1>11, <1>12, SeizedBooks
  <2> QED BY <1>12, <2>1, <2>2
<1> HIDE DEF seized
<1>14. /\ final.aToken = seized[debt].aToken
       /\ final.variableDebt = seized[debt].variableDebt
       /\ final.cash = seized[debt].cash + paid
  BY <1>13 DEF WithCash, Reserve
<1> HIDE DEF final
<1>15. /\ reserves'[debt] = final
       /\ \A b \in Assets \ {debt} : reserves'[b] = seized[b]
  BY <1>3, <1>13
<1>16. \A b \in Assets :
         Held(wallet', b) = Held(wallet, b) + (IF b = coll /\ ~receiveAToken THEN taken ELSE 0)
                                            - (IF b = debt THEN paid ELSE 0)
  <2> HIDE DEF taken, paid
  <2>1. then = IF receiveAToken THEN wallet ELSE Received(wallet, coll, liquidator, taken)
    OBVIOUS
  <2> HIDE DEF then
  <2> QED BY <1>1, <1>2, <1>3, <1>4, <1>6, <2>1, LiquidationHeld
<1> SUFFICES ASSUME NEW b \in Assets
             PROVE  /\ ReserveBalanced(reserves'[b])
                    /\ reserves'[b].cash + Held(wallet', b) = Held(InitialWallet, b)
  BY DEF Books, Held
<1>17. ReserveBalanced(reserves'[b])
  <2>1. CASE b = debt BY <1>13, <1>14, <1>15, <2>1 DEF ReserveBalanced
  <2>2. CASE b # debt BY <1>13, <1>15, <2>2
  <2> QED BY <2>1, <2>2
<1>18. reserves'[b].cash + Held(wallet', b) = reserves[b].cash + Held(wallet, b)
  <2> DEFINE k  == reserves[b].cash
             k2 == reserves'[b].cash
             h  == Held(wallet, b)
             h2 == Held(wallet', b)
             t  == IF b = coll /\ ~receiveAToken THEN taken ELSE 0
             p  == IF b = debt THEN paid ELSE 0
  <2>1. k \in Int /\ h \in Int /\ t \in Int /\ p \in Int BY <1>4, <1>6, HeldType
  <2>2. h2 = h + t - p BY <1>16
  <2>3. seized[b].cash = k - t BY <1>13, <2>1
  <2>4. k2 = k - t + p
    <3>1. CASE b = debt
      <4>1. k2 = seized[b].cash + paid BY <1>14, <1>15, <3>1
      <4> QED BY <2>3, <3>1, <4>1
    <3>2. CASE b # debt
      <4>1. k2 = seized[b].cash BY <1>15, <3>2
      <4>2. p = 0 BY <3>2
      <4> HIDE DEF p
      <4> QED BY <2>1, <2>3, <4>1, <4>2, SMT
    <3> QED BY <3>1, <3>2
  <2> HIDE DEF k, k2, h, h2, t, p
  <2>5. k2 + h2 = k + h BY <2>1, <2>2, <2>4, SMT
  <2> QED BY <2>5 DEF k, k2, h, h2
<1> QED BY <1>17, <1>18 DEF Books

(***************************************************************************)
(* The results.                                                            *)
(***************************************************************************)

\* Every operation keeps the books; those that move no token leave them alone.
LEMMA EveryStepKeepsBooks ==
  ASSUME IInv, Books, [Next]_vars
  PROVE  Books'
<1>1. CASE Supply
  <2>1. PICK u \in Users, v \in Users, a \in Assets, x \in Amounts :
          deposit(u, a, x, v) \/ withdraw(u, a, x, v) \/ transfer(u, a, v, x)
    BY <1>1 DEF Supply
  <2> QED BY <2>1, DepositBooks, WithdrawBooks, TransferBooks
<1>2. CASE Loan
  <2>1. PICK u \in Users, v \in Users, a \in Assets, m \in RateModes, x \in Amounts :
          borrow(u, a, x, m, v) \/ repay(u, a, x, m, v)
    BY <1>2 DEF Loan
  <2> QED BY <2>1, BorrowBooks, RepayBooks
<1>3. CASE StableSwitch
  <2>1. PICK u \in Users, a \in Assets :
          \/ \E m \in RateModes : swapBorrowRateMode(u, a, m)
          \/ rebalanceStableBorrowRate(a, u)
    BY <1>3 DEF StableSwitch
  <2> QED BY <2>1, SwapBooks, RebalanceBooks
<1>4. CASE Liquidation
  <2>1. PICK l \in Users, u \in Users, c \in Assets, d \in Assets, x \in Amounts,
             receive \in BOOLEAN : liquidationCall(l, c, d, u, x, receive)
    BY <1>4 DEF Liquidation
  <2> QED BY <2>1, LiquidationBooks
<1>5. CASE UNCHANGED <<reserves, wallet>> BY <1>5 DEF Books
<1>6. CASE CollateralSwitch \/ Delegation \/ Configuration \/ PriceChange \/ NextBlock
           \/ UNCHANGED vars
  <2>1. UNCHANGED <<reserves, wallet>>
    BY <1>6 DEF CollateralSwitch, setUserUseReserveAsCollateral, Delegation,
                approveDelegation, Configuration, setConfiguration, setPause,
                PriceChange, PriceMove, NextBlock, vars, poolVars
  <2> QED BY <1>5, <2>1
<1> QED BY <1>1, <1>2, <1>3, <1>4, <1>6 DEF Next

\* A freshly initialized market: empty tokens and empty reserves.
LEMMA InitKeepsBooks ==
  ASSUME Init
  PROVE  Books
<1> SUFFICES ASSUME NEW a \in Assets
             PROVE  /\ ReserveBalanced(reserves[a])
                    /\ reserves[a].cash + Held(wallet, a) = Held(InitialWallet, a)
  BY DEF Books
<1>1. reserves[a] = InitializedReserve /\ wallet = InitialWallet BY DEF Init
<1>2. /\ reserves[a].aToken = EmptyScaledLedger
      /\ reserves[a].variableDebt = EmptyScaledLedger
      /\ reserves[a].cash = 0
  BY <1>1 DEF InitializedReserve
<1>3. Held(InitialWallet, a) \in Int
  BY LendingPoolAssumption, HeldType DEF Wallets
<1>4. 0 + Held(InitialWallet, a) = Held(InitialWallet, a)
  <2> DEFINE h == Held(InitialWallet, a)
  <2>1. h \in Int BY <1>3
  <2> HIDE DEF h
  <2>2. 0 + h = h BY <2>1, SMT
  <2> QED BY <2>2 DEF h
<1> QED BY <1>1, <1>2, <1>4, EmptyIsBalanced DEF ReserveBalanced

\* The books balance in every reachable state of every market.
LEMMA BooksHold == Spec => []Books
<1>1. Init => Books BY InitKeepsBooks
<1>2. IInv /\ Books /\ [Next]_vars => Books' BY EveryStepKeepsBooks
<1> QED BY <1>1, <1>2, IInvHolds, PTL DEF Spec

\* The sums of the properties, over functions.
LEMMA BooksSay ==
  ASSUME IInv, Books
  PROVE  ScaledSuppliesAreSums /\ UnderlyingConserved
<1>1. ASSUME NEW token PROVE IsSumOfBalances(token) <=> Balanced(token)
  BY DEF IsSumOfBalances, Balanced, SumOver
<1>2. ScaledSuppliesAreSums BY <1>1 DEF ScaledSuppliesAreSums, Books, ReserveBalanced
<1>3. UnderlyingConserved BY DEF UnderlyingConserved, Books, Held, SumOver
<1> QED BY <1>2, <1>3

\* The scaled supply of every aToken and variable debt token, which interest and
\* the treasury's share are computed from, is the sum of its balances after any
\* sequence of mints, burns, transfers, seizures and mintToTreasury.
THEOREM ScaledSuppliesHold == Spec => []ScaledSuppliesAreSums
BY BooksHold, IInvHolds, BooksSay, PTL

\* No operation makes or loses underlying tokens: what leaves a reserve's cash
\* reaches a wallet, and what a wallet pays reaches the reserve, also when one
\* transaction of a liquidation does both in the same asset.
THEOREM UnderlyingIsConserved == Spec => []UnderlyingConserved
BY BooksHold, IInvHolds, BooksSay, PTL

(***************************************************************************)
(* Repaying "the whole debt".                                              *)
(***************************************************************************)
\* While depositors earn anything, the debt the views show is the debt that
\* _updateIndexes stores: its two shortcuts, no liquidity rate and no variable
\* debt, do not apply to a reserve with a variable debtor.
LEMMA DebtIndexIsUpdated ==
  ASSUME NEW t \in Nat, NEW r, Sound(r, t),
         r.currentLiquidityRate # 0, r.variableDebt.totalSupply # 0
  PROVE  UpdatedVariableBorrowIndex(r, t) = getNormalizedDebt(r, t)
<1> DEFINE factor == calculateCompoundedInterest(r.currentVariableBorrowRate,
                                                 r.lastUpdateTimestamp, t)
           index == r.variableBorrowIndex
<1>1. index \in Nat BY SoundFields
<1>2. UpdatedVariableBorrowIndex(r, t) = rayMul(factor, index)
  BY DEF UpdatedVariableBorrowIndex
<1>3. getNormalizedDebt(r, t)
        = IF r.lastUpdateTimestamp = t THEN index ELSE rayMul(factor, index)
  BY DEF getNormalizedDebt
<1>4. r.lastUpdateTimestamp = t => rayMul(factor, index) = index
  <2>1. t - t = 0 BY SMT
  <2>2. r.lastUpdateTimestamp = t => factor = RAY BY <2>1 DEF calculateCompoundedInterest
  <2> HIDE DEF factor, index
  <2> QED BY <1>1, <2>2, RayTimes
<1> QED BY <1>2, <1>3, <1>4

\* A variable debtor is among those the scaled supply adds up, so the supply is
\* not 0 and neither is the reserve's total debt.
LEMMA DebtorIsInSupply ==
  ASSUME NEW t \in Nat, NEW r, Sound(r, t), Balanced(r.variableDebt),
         NEW u \in Accounts, r.variableDebt.balances[u] # 0
  PROVE  r.variableDebt.totalSupply # 0 /\ TotalDebt(r, t) > 0
<1> DEFINE s == r.variableDebt.totalSupply
           f == r.variableDebt.balances
           i == getNormalizedDebt(r, t)
<1>1. r.variableDebt \in ScaledLedger BY SoundFields
<1>2. s \in Nat /\ \A v \in Accounts : f[v] \in Nat BY <1>1, LedgerFields
<1>3. s = SumOver(f, Accounts) BY DEF Balanced
<1>4. i \in Nat /\ RAY <= i BY VariableBorrowIndexGrows
<1>5. StableSupplyAt(r.stableDebt, t) \in Nat BY SoundFields, StableSupplyType
<1>6. TotalDebt(r, t) = StableSupplyAt(r.stableDebt, t) + rayMul(s, i)
  BY DEF TotalDebt, ScaledTotalSupply
<1> HIDE DEF s, f, i
<1>7. f[u] <= s /\ f[u] \in Nat BY <1>2, <1>3, AccountsAssumption, SumAtLeastEach
<1>8. f[u] # 0 BY DEF f
<1>9. s # 0 BY <1>2, <1>7, <1>8, SMT
<1>10. rayMul(s, i) \in Nat /\ s <= rayMul(s, i) BY <1>2, <1>4, RayMulBounds, RayMulGrows
<1>11. TotalDebt(r, t) > 0 BY <1>2, <1>5, <1>6, <1>9, <1>10, SMT
<1> QED BY <1>9, <1>11 DEF s

\* The debt of one user in one reserve, read before updateState and burned after.
LEMMA FullRepayBurnsAll ==
  ASSUME IInv, Books, NEW a \in Assets, ~LentForNothing(a), NEW u \in Accounts,
         VariableDebtOf(reserves[a], u, now) > 0
  PROVE  AmountScaled(VariableDebtOf(reserves[a], u, now),
                      Accrued(a, reserves[a]).variableBorrowIndex)
           = reserves[a].variableDebt.balances[u]
<1> DEFINE r == reserves[a]
           i == getNormalizedDebt(r, now)
           b == r.variableDebt.balances[u]
<1>1. now \in Nat /\ Sound(r, now) BY DEF IInv, TypeOK
<1>2. Balanced(r.variableDebt) BY DEF Books, ReserveBalanced
<1>3. b \in Nat BY <1>1, DebtTypes
<1>4. VariableDebtOf(r, u, now) = rayMul(b, i) BY DEF VariableDebtOf, ScaledBalanceOf
<1>5. i \in Nat /\ RAY <= i BY <1>1, VariableBorrowIndexGrows
<1>6. b # 0
  <2> SUFFICES ASSUME b = 0 PROVE FALSE OBVIOUS
  <2>1. rayMul(0, i) = 0 BY <1>5, ZeroTimes
  <2>2. VariableDebtOf(r, u, now) = 0 BY <1>4, <2>1
  <2> QED BY <2>2
<1>7. r.variableDebt.totalSupply # 0 /\ TotalDebt(r, now) > 0
  BY <1>1, <1>2, <1>6, DebtorIsInSupply
<1>8. r.currentLiquidityRate # 0 BY <1>7 DEF LentForNothing
<1>9. UpdatedVariableBorrowIndex(r, now) = i BY <1>1, <1>7, <1>8, DebtIndexIsUpdated
<1>10. Accrued(a, r).variableBorrowIndex = UpdatedVariableBorrowIndex(r, now)
  BY <1>1 DEF Accrued, updateState, Sound, Reserve
<1> HIDE DEF i, b
<1>11. rayDiv(rayMul(b, i), i) = b BY <1>3, <1>5, ScaledRoundTrip
<1> QED BY <1>4, <1>9, <1>10, <1>11 DEF AmountScaled, b, r

\* "Send the value type(uint256).max in order to repay the whole debt": the debt
\* repay reads before updateState is, after it, exactly the scaled balance to
\* burn, for every scale, index, rate and time.  The exception is the one a run
\* exhibits: a reserve lent out while its depositors earn a rate of 0.
THEOREM FullRepayEmptiesDebtHolds ==
  Spec => []((\A a \in Assets : ~LentForNothing(a)) => FullRepayEmptiesDebt)
<1>1. IInv /\ Books => ((\A a \in Assets : ~LentForNothing(a)) => FullRepayEmptiesDebt)
  BY FullRepayBurnsAll DEF FullRepayEmptiesDebt
<1> QED BY <1>1, BooksHold, IInvHolds, PTL

(***************************************************************************)
(* updateState cannot revert.  _mintToTreasury computes the debt of the    *)
(* last update by compounding from the stable supply's timestamp to the    *)
(* reserve's: the first must not be ahead.  It never is, because whatever  *)
(* touches a debt token has updated the reserve in the same transaction.   *)
(***************************************************************************)
SupplyStamped ==
  \A a \in Assets :
    reserves[a].stableDebt.totalSupplyTimestamp <= reserves[a].lastUpdateTimestamp

\* A reserve updated in this block, and one whose stable debt was not touched.
StampedNow(r) == "lastUpdateTimestamp" \in DOMAIN r /\ r.lastUpdateTimestamp = now

Untouched(r1, r2) ==
  r2.lastUpdateTimestamp = r1.lastUpdateTimestamp /\ r2.stableDebt = r1.stableDebt

StampKept(r1, r2) == StampedNow(r2) \/ Untouched(r1, r2)

\* updateState writes the timestamp, and nothing after it in a transaction
\* writes it again.
LEMMA EveryCallIsStamped ==
  ASSUME NEW a \in Assets
  PROVE  /\ \A r \in Reserve : StampedNow(Accrued(a, r))
         /\ \A r, delta : StampedNow(r) => StampedNow(Repriced(a, r, delta))
         /\ \A r, mode, user, amount :
              StampedNow(r) => /\ StampedNow(MintDebt(r, mode, user, amount))
                               /\ StampedNow(BurnDebtOf(r, mode, user, amount))
         /\ \A r, user, owed, amount :
              StampedNow(r) => StampedNow(BurnDebt(r, user, owed, amount))
         /\ \A r, token, cash :
              StampedNow(r) => /\ StampedNow(WithSupply(r, token, cash))
                               /\ StampedNow(WithCash(r, cash))
<1>1. \A r \in Reserve : StampedNow(Accrued(a, r))
  BY DEF StampedNow, Accrued, updateState, Reserve
<1>2. \A r, delta : StampedNow(r) => StampedNow(Repriced(a, r, delta))
  BY DEF StampedNow, Repriced, WithInterestRates
<1>3. \A r, mode, user, amount :
        StampedNow(r) => StampedNow(MintDebt(r, mode, user, amount))
  BY DEF StampedNow, MintDebt
<1>4. \A r, mode, user, amount :
        StampedNow(r) => StampedNow(BurnDebtOf(r, mode, user, amount))
  BY DEF StampedNow, BurnDebtOf
<1>5. \A r, user, owed, amount :
        StampedNow(r) => StampedNow(BurnDebt(r, user, owed, amount))
  BY DEF StampedNow, BurnDebt
<1>6. \A r, token, cash :
        StampedNow(r) => StampedNow(WithSupply(r, token, cash)) /\ StampedNow(WithCash(r, cash))
  BY DEF StampedNow, WithSupply, WithCash
<1> QED BY <1>1, <1>2, <1>3, <1>4, <1>5, <1>6

\* A transaction that writes one reserve.
LEMMA OneReserveStamped ==
  ASSUME IInv, NEW a \in Assets, NEW R, reserves' = [reserves EXCEPT ![a] = R],
         StampKept(reserves[a], R)
  PROVE  \A b \in Assets : StampKept(reserves[b], reserves'[b])
<1>1. reserves \in [Assets -> Reserve] BY DEF IInv, TypeOK
<1>2. reserves'[a] = R /\ \A b \in Assets \ {a} : reserves'[b] = reserves[b] BY <1>1
<1> QED BY <1>2 DEF StampKept, Untouched

\* Deposits, withdrawals and transfers.
LEMMA SupplyIsStamped ==
  ASSUME IInv, Supply
  PROVE  \A b \in Assets : StampKept(reserves[b], reserves'[b])
<1>1. PICK u \in Users, v \in Users, a \in Assets, x \in Amounts :
        deposit(u, a, x, v) \/ withdraw(u, a, x, v) \/ transfer(u, a, v, x)
  BY DEF Supply
<1>2. reserves[a] \in Reserve BY DEF IInv, TypeOK
<1>3. \A delta : StampedNow(Repriced(a, Accrued(a, reserves[a]), delta))
  BY <1>2, EveryCallIsStamped
<1>4. CASE deposit(u, a, x, v)
  <2> DEFINE repriced == Repriced(a, Accrued(a, reserves[a]), x)
             token == MintScaled(repriced.aToken, v, x, repriced.liquidityIndex)
             R == WithSupply(repriced, token, repriced.cash + x)
  <2>1. reserves' = [reserves EXCEPT ![a] = R] BY <1>4 DEF deposit, WithSupply
  <2>2. StampedNow(R) BY <1>3, EveryCallIsStamped
  <2> HIDE DEF R
  <2> QED BY <2>1, <2>2, OneReserveStamped DEF StampKept
<1>5. CASE withdraw(u, a, x, v)
  <2> DEFINE withdrawn == IF x = MAX_UINT256 THEN ATokenBalanceOf(reserves[a], u, now) ELSE x
             repriced == Repriced(a, Accrued(a, reserves[a]), -withdrawn)
             token == BurnScaled(repriced.aToken, u, withdrawn, repriced.liquidityIndex)
             R == WithSupply(repriced, token, repriced.cash - withdrawn)
  <2>1. reserves' = [reserves EXCEPT ![a] = R] BY <1>5 DEF withdraw, WithSupply
  <2>2. StampedNow(R) BY <1>3, EveryCallIsStamped
  <2> HIDE DEF R
  <2> QED BY <2>1, <2>2, OneReserveStamped DEF StampKept
<1>6. CASE transfer(u, a, v, x)
  <2> DEFINE token == MoveScaled(reserves[a].aToken, u, v, x,
                                 getNormalizedIncome(reserves[a], now))
             R == [reserves[a] EXCEPT !.aToken = token]
  <2>1. reserves' = [reserves EXCEPT ![a] = R] BY <1>6 DEF transfer
  <2> HIDE DEF token
  <2>2. Untouched(reserves[a], R) BY <1>2 DEF Untouched, Reserve
  <2> HIDE DEF R
  <2> QED BY <2>1, <2>2, OneReserveStamped DEF StampKept
<1> QED BY <1>1, <1>4, <1>5, <1>6

\* Loans.
LEMMA LoanIsStamped ==
  ASSUME IInv, Loan
  PROVE  \A b \in Assets : StampKept(reserves[b], reserves'[b])
<1>1. PICK u \in Users, v \in Users, a \in Assets, m \in RateModes, x \in Amounts :
        borrow(u, a, x, m, v) \/ repay(u, a, x, m, v)
  BY DEF Loan
<1>2. StampedNow(Accrued(a, reserves[a])) BY EveryCallIsStamped DEF IInv, TypeOK
<1>3. CASE borrow(u, a, x, m, v)
  <2> DEFINE repriced == Repriced(a, MintDebt(Accrued(a, reserves[a]), m, v, x), -x)
             R == WithCash(repriced, repriced.cash - x)
  <2>1. reserves' = [reserves EXCEPT ![a] = R] BY <1>3 DEF borrow, WithCash
  <2>2. StampedNow(repriced) BY <1>2, EveryCallIsStamped
  <2> HIDE DEF repriced
  <2>3. StampedNow(R) BY <2>2, EveryCallIsStamped
  <2> HIDE DEF R
  <2> QED BY <2>1, <2>3, OneReserveStamped DEF StampKept
<1>4. CASE repay(u, a, x, m, v)
  <2> DEFINE debt     == IF m = "stable" THEN StableDebtOf(reserves[a], v, now)
                         ELSE VariableDebtOf(reserves[a], v, now)
             amount   == IF x < debt THEN x ELSE debt
             repriced == Repriced(a, BurnDebtOf(Accrued(a, reserves[a]), m, v, amount), amount)
             R        == WithCash(repriced, repriced.cash + amount)
  <2>1. reserves' = [reserves EXCEPT ![a] = R] BY <1>4 DEF repay, WithCash
  <2> HIDE DEF amount
  <2>2. StampedNow(repriced) BY <1>2, EveryCallIsStamped
  <2> HIDE DEF repriced
  <2>3. StampedNow(R) BY <2>2, EveryCallIsStamped
  <2> HIDE DEF R
  <2> QED BY <2>1, <2>3, OneReserveStamped DEF StampKept
<1> QED BY <1>1, <1>3, <1>4

\* Swaps of the rate mode and rebalancing.
LEMMA StableSwitchIsStamped ==
  ASSUME IInv, StableSwitch
  PROVE  \A b \in Assets : StampKept(reserves[b], reserves'[b])
<1>1. PICK u \in Users, a \in Assets :
        \/ \E m \in RateModes : swapBorrowRateMode(u, a, m)
        \/ rebalanceStableBorrowRate(a, u)
  BY DEF StableSwitch
<1>2. StampedNow(Accrued(a, reserves[a])) BY EveryCallIsStamped DEF IInv, TypeOK
<1>3. \A m1, m2, x, y :
        StampedNow(Repriced(a, MintDebt(BurnDebtOf(Accrued(a, reserves[a]), m1, u, x),
                                        m2, u, y), 0))
  BY <1>2, EveryCallIsStamped
<1>4. \E m1, m2, x, y :
        reserves' = [reserves EXCEPT ![a] =
          Repriced(a, MintDebt(BurnDebtOf(Accrued(a, reserves[a]), m1, u, x), m2, u, y), 0)]
  BY <1>1 DEF swapBorrowRateMode, rebalanceStableBorrowRate
<1>5. PICK R : StampedNow(R) /\ reserves' = [reserves EXCEPT ![a] = R] BY <1>3, <1>4
<1> QED BY <1>5, OneReserveStamped DEF StampKept

\* A liquidation writes the reserve of the debt, and then that of the collateral:
\* the seizure of aTokens leaves its timestamp alone.
LEMMA LiquidationIsStamped ==
  ASSUME IInv, Liquidation
  PROVE  \A b \in Assets : StampKept(reserves[b], reserves'[b])
<1>1. PICK l \in Users, u \in Users, c \in Assets, d \in Assets, x \in Amounts,
           receive \in BOOLEAN : liquidationCall(l, c, d, u, x, receive)
  BY DEF Liquidation
<1> DEFINE variableOwed == VariableDebtOf(reserves[d], u, now)
           amounts  == Liquidated(c, d, u, x)
           burned   == BurnDebt(Accrued(d, reserves[d]), u, variableOwed, amounts.debt)
           repriced == Repriced(d, burned, amounts.debt)
           rs       == [reserves EXCEPT ![d] = repriced]
           seized   == Seized(rs, c, u, l, amounts.collateral, receive)
<1>2. reserves' = [seized EXCEPT ![d].cash = @ + amounts.debt]
  BY <1>1 DEF liquidationCall
<1>3. reserves \in [Assets -> Reserve] BY DEF IInv, TypeOK
<1>4. StampedNow(repriced)
  <2>1. StampedNow(Accrued(d, reserves[d])) BY <1>3, EveryCallIsStamped
  <2>2. StampedNow(burned) BY <2>1, EveryCallIsStamped
  <2> HIDE DEF burned
  <2> QED BY <2>2, EveryCallIsStamped
<1> HIDE DEF repriced, amounts
<1>5. /\ DOMAIN rs = Assets /\ rs[d] = repriced
      /\ \A b \in Assets \ {d} : rs[b] = reserves[b]
  BY <1>3
<1> HIDE DEF rs
<1>6. /\ DOMAIN seized = Assets
      /\ StampedNow(seized[d])
      /\ \A b \in Assets \ {d} : StampKept(reserves[b], seized[b])
  <2>1. CASE receive = TRUE
    <3> DEFINE token == MoveScaled(rs[c].aToken, u, l, amounts.collateral,
                                   getNormalizedIncome(rs[c], now))
               R == [rs[c] EXCEPT !.aToken = token]
    <3>1. seized = [rs EXCEPT ![c] = R] BY <2>1 DEF Seized
    <3> HIDE DEF seized, token
    <3>2. StampedNow(rs[c]) => StampedNow(R) BY DEF StampedNow
    <3>3. c # d => Untouched(reserves[c], R)
      <4> SUFFICES ASSUME c # d PROVE Untouched(reserves[c], R) OBVIOUS
      <4>1. rs[c] \in Reserve /\ rs[c] = reserves[c] BY <1>3, <1>5
      <4> QED BY <4>1 DEF Untouched, Reserve
    <3> HIDE DEF R
    <3>4. seized[c] = R /\ \A b \in Assets \ {c} : seized[b] = rs[b] BY <1>5, <3>1
    <3>5. DOMAIN seized = Assets BY <1>5, <3>1
    <3>6. StampedNow(seized[d]) BY <1>4, <1>5, <3>2, <3>4
    <3>7. ASSUME NEW b \in Assets \ {d} PROVE StampKept(reserves[b], seized[b])
      <4>1. CASE b = c BY <3>3, <3>4, <4>1 DEF StampKept
      <4>2. CASE b # c BY <1>5, <3>4, <4>2 DEF StampKept, Untouched
      <4> QED BY <4>1, <4>2
    <3> QED BY <3>5, <3>6, <3>7
  <2>2. CASE receive = FALSE
    <3> DEFINE r == RepricedCollateral(rs, c, amounts.collateral)
               R == WithSupply(r, BurnScaled(r.aToken, u, amounts.collateral, r.liquidityIndex),
                               r.cash - amounts.collateral)
    <3>1. seized = [rs EXCEPT ![c] = R] BY <2>2 DEF Seized, WithSupply
    <3> HIDE DEF seized
    <3>2. StampedNow(Accrued(c, rs[c]))
      <4>1. CASE c = d BY <1>4, <1>5, <4>1 DEF StampedNow, Accrued, updateState
      <4>2. CASE c # d BY <1>3, <1>5, <4>2, EveryCallIsStamped
      <4> QED BY <4>1, <4>2
    <3>3. StampedNow(r) BY <3>2, EveryCallIsStamped DEF RepricedCollateral
    <3> HIDE DEF r
    <3>4. StampedNow(R) BY <3>3, EveryCallIsStamped
    <3> HIDE DEF R
    <3>5. seized[c] = R /\ \A b \in Assets \ {c} : seized[b] = rs[b] BY <1>5, <3>1
    <3>6. DOMAIN seized = Assets BY <1>5, <3>1
    <3>7. StampedNow(seized[d]) BY <1>4, <1>5, <3>4, <3>5
    <3>8. ASSUME NEW b \in Assets \ {d} PROVE StampKept(reserves[b], seized[b])
      <4>1. CASE b = c BY <3>4, <3>5, <4>1 DEF StampKept
      <4>2. CASE b # c BY <1>5, <3>5, <4>2 DEF StampKept, Untouched
      <4> QED BY <4>1, <4>2
    <3> QED BY <3>6, <3>7, <3>8
  <2> QED BY <2>1, <2>2
<1> HIDE DEF seized
<1>7. /\ reserves'[d] = [seized[d] EXCEPT !.cash = @ + amounts.debt]
      /\ \A b \in Assets \ {d} : reserves'[b] = seized[b]
  BY <1>2, <1>6
<1>8. StampedNow(reserves'[d])
  <2> DEFINE R == [seized[d] EXCEPT !.cash = @ + amounts.debt]
  <2>1. StampedNow(R) BY <1>6 DEF StampedNow
  <2> HIDE DEF R
  <2>2. reserves'[d] = R BY <1>7 DEF R
  <2> QED BY <2>1, <2>2 DEF StampedNow
<1> QED BY <1>6, <1>7, <1>8 DEF StampKept

\* A reserve stamped now has a supply timestamp that is not in the future.
LEMMA StampsKeepOrder ==
  ASSUME IInv', SupplyStamped, now' = now,
         \A b \in Assets : StampKept(reserves[b], reserves'[b])
  PROVE  SupplyStamped'
<1> SUFFICES ASSUME NEW a \in Assets
             PROVE  reserves'[a].stableDebt.totalSupplyTimestamp
                      <= reserves'[a].lastUpdateTimestamp
  BY DEF SupplyStamped
<1>1. reserves'[a].stableDebt.totalSupplyTimestamp <= now'
  BY DEF IInv, Sound, StableSound
<1>2. CASE StampedNow(reserves'[a]) BY <1>1, <1>2 DEF StampedNow
<1>3. CASE Untouched(reserves[a], reserves'[a]) BY <1>3 DEF Untouched, SupplyStamped
<1> QED BY <1>2, <1>3 DEF StampKept

\* Every operation keeps the order of the two timestamps.
LEMMA EveryStepKeepsStamps ==
  ASSUME IInv, SupplyStamped, [Next]_vars
  PROVE  SupplyStamped'
<1>1. IInv' BY EveryStep DEF Step
<1>2. CASE Supply
  <2>1. now' = now BY <1>2 DEF Supply, deposit, withdraw, transfer
  <2> QED BY <1>1, <1>2, <2>1, SupplyIsStamped, StampsKeepOrder
<1>3. CASE Loan
  <2>1. now' = now BY <1>3 DEF Loan, borrow, repay
  <2> QED BY <1>1, <1>3, <2>1, LoanIsStamped, StampsKeepOrder
<1>4. CASE StableSwitch
  <2>1. now' = now BY <1>4 DEF StableSwitch, swapBorrowRateMode, rebalanceStableBorrowRate
  <2> QED BY <1>1, <1>4, <2>1, StableSwitchIsStamped, StampsKeepOrder
<1>5. CASE Liquidation
  <2>1. now' = now BY <1>5 DEF Liquidation, liquidationCall
  <2> QED BY <1>1, <1>5, <2>1, LiquidationIsStamped, StampsKeepOrder
<1>6. CASE CollateralSwitch \/ Delegation \/ Configuration \/ PriceChange \/ NextBlock
           \/ UNCHANGED vars
  <2>1. reserves' = reserves
    BY <1>6 DEF CollateralSwitch, setUserUseReserveAsCollateral, Delegation,
                approveDelegation, Configuration, setConfiguration, setPause,
                PriceChange, PriceMove, NextBlock, vars, poolVars
  <2> QED BY <2>1 DEF SupplyStamped
<1> QED BY <1>2, <1>3, <1>4, <1>5, <1>6 DEF Next

\* Since the last update of a reserve its debts have not shrunk: the second and
\* third subtraction of _mintToTreasury do not underflow either.
LEMMA DebtAccruedIsPositive ==
  ASSUME NEW t \in Nat, NEW r, Sound(r, t),
         r.stableDebt.totalSupplyTimestamp <= r.lastUpdateTimestamp
  PROVE  TotalDebtAccrued(r, t) >= 0
<1> DEFINE sd     == r.stableDebt
           before == calculateCompoundedInterest(sd.avgStableRate, sd.totalSupplyTimestamp,
                                                 r.lastUpdateTimestamp)
           after  == calculateCompoundedInterest(sd.avgStableRate, sd.totalSupplyTimestamp, t)
           d1 == ScaledTotalSupply(r.variableDebt, UpdatedVariableBorrowIndex(r, t))
           d2 == StableSupplyAt(sd, t)
           d3 == ScaledTotalSupply(r.variableDebt, r.variableBorrowIndex)
           d4 == rayMul(sd.totalSupply, before)
<1>1. /\ sd.avgStableRate \in Nat /\ sd.totalSupplyTimestamp \in Nat
      /\ sd.totalSupply \in Nat
      /\ r.lastUpdateTimestamp \in Nat /\ r.lastUpdateTimestamp <= t
      /\ sd.totalSupplyTimestamp <= t
  BY SoundFields DEF StableSound, StableLedger
<1>2. before \in Nat /\ after \in Nat /\ before <= after
  BY <1>1, CompoundedAtLeastRay, CompoundedGrows
<1>3. r.variableDebt.totalSupply \in Nat BY SoundFields DEF ScaledLedger
<1>4. d1 \in Nat /\ d3 \in Nat /\ d3 <= d1
  <2>1. /\ r.variableBorrowIndex \in Nat /\ UpdatedVariableBorrowIndex(r, t) \in Nat
        /\ r.variableBorrowIndex <= UpdatedVariableBorrowIndex(r, t)
    BY SoundFields, VariableBorrowIndexGrows
  <2>2. r.variableDebt.totalSupply <= r.variableDebt.totalSupply BY <1>3, SMT
  <2> QED BY <1>3, <2>1, <2>2, RayMulBounds, RayMulMonotone DEF ScaledTotalSupply
<1>5. d2 = IF sd.totalSupply = 0 THEN 0 ELSE rayMul(sd.totalSupply, after)
  BY DEF StableSupplyAt
<1>6. TotalDebtAccrued(r, t) = d1 + d2 - d3 - d4 BY DEF TotalDebtAccrued
<1> HIDE DEF before, after
<1>7. d2 \in Nat /\ d4 \in Nat /\ d4 <= d2
  <2>1. CASE sd.totalSupply = 0
    <3>1. d2 = 0 BY <1>5, <2>1
    <3>2. d4 = 0 BY <1>2, <2>1, ZeroTimes
    <3> QED BY <3>1, <3>2
  <2>2. CASE sd.totalSupply # 0
    <3> DEFINE n == sd.totalSupply
    <3>1. n \in Nat BY <1>1
    <3>2. d2 = rayMul(n, after) /\ d4 = rayMul(n, before) BY <1>5, <2>2
    <3> HIDE DEF n, d2, d4
    <3>3. n <= n BY <3>1, SMT
    <3>4. rayMul(n, before) <= rayMul(n, after) BY <1>2, <3>1, <3>3, RayMulMonotone
    <3>5. rayMul(n, before) \in Nat /\ rayMul(n, after) \in Nat
      BY <1>2, <3>1, RayMulBounds
    <3> QED BY <3>2, <3>4, <3>5
  <2> QED BY <2>1, <2>2
<1> HIDE DEF d1, d2, d3, d4
<1> QED BY <1>4, <1>6, <1>7, SMT

\* The new indexes of a reserve fit the uint128 they are stored in.
IndexesFit(a) ==
  /\ UpdatedLiquidityIndex(reserves[a], now) <= MAX_UINT128
  /\ UpdatedVariableBorrowIndex(reserves[a], now) <= MAX_UINT128

\* Nothing else stands in the way of updateState.
LEMMA OnlyIndexesStopAccrual ==
  ASSUME IInv, SupplyStamped, NEW a \in Assets, IndexesFit(a)
  PROVE  CanAccrue(a, reserves[a])
<1> DEFINE r == reserves[a]
<1>1. now \in Nat /\ Sound(r, now) BY DEF IInv, TypeOK
<1>2. r.stableDebt.totalSupplyTimestamp <= r.lastUpdateTimestamp BY DEF SupplyStamped
<1>3. TotalDebtAccrued(r, now) >= 0 BY <1>1, <1>2, DebtAccruedIsPositive
<1>4. /\ r.lastUpdateTimestamp \in Nat /\ r.stableDebt.totalSupplyTimestamp \in Nat
  BY <1>1, SoundFields DEF StableSound, StableLedger
<1>5. r.lastUpdateTimestamp >= r.stableDebt.totalSupplyTimestamp BY <1>2, <1>4, SMT
<1> QED BY <1>3, <1>5 DEF CanAccrue, CanUpdateState, IndexesFit

\* A new market has no timestamps.
LEMMA InitIsStamped ==
  ASSUME Init
  PROVE  SupplyStamped
<1> SUFFICES ASSUME NEW a \in Assets
             PROVE  reserves[a].stableDebt.totalSupplyTimestamp
                      <= reserves[a].lastUpdateTimestamp
  BY DEF SupplyStamped
<1>1. reserves[a] = InitializedReserve BY DEF Init
<1> QED BY <1>1, SMT DEF InitializedReserve, EmptyStableLedger

\* The stable supply of a reserve is never stamped after the reserve itself.
LEMMA SupplyStampsHold == Spec => []SupplyStamped
<1>1. Init => SupplyStamped BY InitIsStamped
<1>2. IInv /\ SupplyStamped /\ [Next]_vars => SupplyStamped' BY EveryStepKeepsStamps
<1> QED BY <1>1, <1>2, IInvHolds, PTL DEF Spec

\* updateState, with which every operation on a reserve begins, reverts in no
\* reachable state unless an index outgrows its 128 bits: the subtractions of
\* _mintToTreasury and of the timestamps never underflow, so deposits and debts
\* cannot be locked in a reserve by them.
THEOREM AccrualDoesNotRevert ==
  Spec => []((\A a \in Assets : IndexesFit(a)) => AccrualNeverReverts)
<1>1. IInv /\ SupplyStamped
        => ((\A a \in Assets : IndexesFit(a)) => AccrualNeverReverts)
  BY OnlyIndexesStopAccrual DEF AccrualNeverReverts
<1> QED BY <1>1, SupplyStampsHold, IInvHolds, PTL

=============================================================================
