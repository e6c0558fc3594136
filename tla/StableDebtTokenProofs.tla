----------------------- MODULE StableDebtTokenProofs ------------------------
(***************************************************************************)
(* StableDebtToken.sol on its own: its invariant, and what one call may    *)
(* do to what is owed, for every amount, rate and length of history.       *)
(***************************************************************************)
EXTENDS StableDebtToken, ReserveLogicProofs

(***************************************************************************)
(* The inductive invariant: no timestamp is in the future, or a balance    *)
(* would accrue over a negative time, and block time is never 0, or the    *)
(* timestamp of a fresh loan would look like a settled one's.              *)
(***************************************************************************)
DebtInv ==
  /\ now \in Nat /\ 1 <= now
  /\ StableSound(token, now)
  /\ SettledUsersAreBlank

\* SettledUsersAreBlank, of one user of a ledger.
Settled(t, u) ==
  IF t.balances[u] = 0
  THEN t.userRate[u] = 0 /\ t.timestamps[u] = 0
  ELSE t.timestamps[u] \in 1 .. now

\* What one call may do: DebtInv stays, and one debt moves the supply.
OneDebtMoves ==
  \E u \in Accounts :
    /\ \A v \in Accounts \ {u} : Debt(v)' = Debt(v)
    /\ Supply' \in {0, Supply + (Debt(u)' - Debt(u))}

\* A new ledger has no debt, no rate and no timestamp.
LEMMA InitDebtInv == Init => DebtInv
<1> SUFFICES ASSUME Init PROVE DebtInv OBVIOUS
<1>1. token = EmptyStableLedger /\ now = 1 BY DEF Init
<1> DEFINE zero == NoBalances
<1>2. zero \in Balances /\ \A u \in Accounts : zero[u] = 0 BY DEF NoBalances, Balances
<1> HIDE DEF zero
<1>3. token = [balances |-> zero, userRate |-> zero, timestamps |-> zero,
               totalSupply |-> 0, avgStableRate |-> 0, totalSupplyTimestamp |-> 0]
  BY <1>1 DEF EmptyStableLedger, zero
<1>4. token \in StableLedger BY <1>2, <1>3 DEF StableLedger
<1>5. StableSound(token, now)
  <2>1. token.totalSupplyTimestamp = 0 /\ token.timestamps = zero BY <1>3
  <2>2. 0 <= now BY <1>1, SMT
  <2> QED BY <1>2, <1>4, <2>1, <2>2 DEF StableSound
<1>6. SettledUsersAreBlank
  <2>1. token.balances = zero /\ token.userRate = zero /\ token.timestamps = zero BY <1>3
  <2> QED BY <1>2, <2>1 DEF SettledUsersAreBlank
<1>7. now \in Nat /\ 1 <= now BY <1>1, SMT
<1> QED BY <1>5, <1>6, <1>7 DEF DebtInv

\* mint keeps the invariant: whoever gets a principal gets this block's timestamp.
LEMMA MintKeepsDebtInv ==
  ASSUME DebtInv, NEW u \in Accounts, NEW x \in Amounts, NEW rate \in Rates, mint(u, x, rate)
  PROVE  DebtInv' /\ OneDebtMoves
<1>1. x \in Nat /\ x > 0 /\ rate \in Nat BY StableDebtTokenAssumption, SMT
<1>2. /\ now \in Nat /\ 1 <= now /\ StableSound(token, now)
      /\ \A v \in Accounts : Settled(token, v)
  BY DEF DebtInv, SettledUsersAreBlank, Settled
<1>3. /\ CanMintStable(token, u, x, rate, now)
      /\ token' = MintStable(token, u, x, rate, now) /\ now' = now
  BY DEF mint
<1> DEFINE balance == StableBalanceOf(token, u, now)
<1>4. StableSound(token', now') BY <1>1, <1>2, <1>3, MintStableSound
<1>5. /\ \A v \in Accounts \ {u} : StableBalanceOf(token', v, now) = StableBalanceOf(token, v, now)
      /\ StableBalanceOf(token', u, now) = balance + x
      /\ StableSupplyAt(token', now) = StableSupplyAt(token, now) + x
  BY <1>1, <1>2, <1>3, MintStableDebts
<1>6. balance \in Nat /\ StableSupplyAt(token, now) \in Nat
  BY <1>2, StableBalanceType, StableSupplyType
<1>7. /\ token.balances \in Balances /\ token.userRate \in Balances
      /\ token.timestamps \in Balances
  BY <1>2 DEF StableSound, StableLedger
<1>8. /\ token'.balances = [token.balances EXCEPT ![u] = balance + x]
      /\ token'.timestamps = [token.timestamps EXCEPT ![u] = now]
      /\ token'.userRate = [token.userRate EXCEPT ![u] = MintedUserRate(token, u, x, rate, now)]
  BY <1>3 DEF MintStable
<1> HIDE DEF balance
<1>9. balance + x # 0 /\ now \in 1 .. now BY <1>1, <1>2, <1>6, SMT
<1>10. Settled(token', u) BY <1>7, <1>8, <1>9 DEF Settled, Balances
<1>11. ASSUME NEW v \in Accounts \ {u} PROVE Settled(token', v)
  <2>1. /\ token'.balances[v] = token.balances[v] /\ token'.userRate[v] = token.userRate[v]
        /\ token'.timestamps[v] = token.timestamps[v]
    BY <1>7, <1>8 DEF Balances
  <2> QED BY <1>2, <2>1 DEF Settled
<1>12. DebtInv' BY <1>2, <1>3, <1>4, <1>10, <1>11 DEF DebtInv, SettledUsersAreBlank, Settled
<1>13. x = (balance + x) - balance BY <1>1, <1>6, SMT
<1>14. OneDebtMoves
  BY <1>3, <1>5, <1>13 DEF OneDebtMoves, Debt, Supply, balance
<1> QED BY <1>12, <1>14

\* burn keeps the invariant: a debt repaid in full leaves neither rate nor
\* timestamp, and one repaid in part gets this block's.
LEMMA BurnKeepsDebtInv ==
  ASSUME DebtInv, NEW u \in Accounts, NEW x \in Nat, burn(u, x)
  PROVE  DebtInv' /\ OneDebtMoves
<1>1. /\ now \in Nat /\ 1 <= now /\ StableSound(token, now)
      /\ \A v \in Accounts : Settled(token, v)
  BY DEF DebtInv, SettledUsersAreBlank, Settled
<1>2. /\ CanBurnStable(token, u, x, now)
      /\ token' = BurnStable(token, u, x, now) /\ now' = now
  BY DEF burn
<1> DEFINE balance == StableBalanceOf(token, u, now)
<1>3. StableSound(token', now') BY <1>1, <1>2, BurnStableSound
<1>4. /\ \A v \in Accounts \ {u} : StableBalanceOf(token', v, now) = StableBalanceOf(token, v, now)
      /\ StableBalanceOf(token', u, now) = balance - x
      /\ StableSupplyAt(token', now) \in {0, StableSupplyAt(token, now) - x}
  BY <1>1, <1>2, BurnStableDebts
<1>5. balance \in Nat /\ StableSupplyAt(token, now) \in Nat
  BY <1>1, StableBalanceType, StableSupplyType
<1>6. /\ token.balances \in Balances /\ token.userRate \in Balances
      /\ token.timestamps \in Balances
  BY <1>1 DEF StableSound, StableLedger
<1>7. /\ token'.balances = [token.balances EXCEPT ![u] = balance - x]
      /\ token'.timestamps = [token.timestamps EXCEPT ![u] = IF x = balance THEN 0 ELSE now]
      /\ token'.userRate = [token.userRate EXCEPT ![u] = IF x = balance THEN 0 ELSE @]
  BY <1>2 DEF BurnStable
<1> HIDE DEF balance
<1>8. balance - x = 0 <=> x = balance BY <1>5, SMT
<1>9. now \in 1 .. now BY <1>1, SMT
<1>10. Settled(token', u) BY <1>6, <1>7, <1>8, <1>9 DEF Settled, Balances
<1>11. ASSUME NEW v \in Accounts \ {u} PROVE Settled(token', v)
  <2>1. /\ token'.balances[v] = token.balances[v] /\ token'.userRate[v] = token.userRate[v]
        /\ token'.timestamps[v] = token.timestamps[v]
    BY <1>6, <1>7 DEF Balances
  <2> QED BY <1>1, <2>1 DEF Settled
<1>12. DebtInv' BY <1>1, <1>2, <1>3, <1>10, <1>11 DEF DebtInv, SettledUsersAreBlank, Settled
<1>13. StableSupplyAt(token, now) - x
         = StableSupplyAt(token, now) + ((balance - x) - balance)
  BY <1>5, SMT
<1>14. OneDebtMoves
  BY <1>2, <1>4, <1>13 DEF OneDebtMoves, Debt, Supply, balance
<1> QED BY <1>12, <1>14

\* A new block keeps the invariant: timestamps stay in the past.
LEMMA BlockKeepsDebtInv ==
  ASSUME DebtInv, NextBlock
  PROVE  DebtInv' /\ now' # now
<1>1. /\ now \in Nat /\ 1 <= now /\ token \in StableLedger
      /\ token.totalSupplyTimestamp <= now
      /\ \A u \in Accounts : token.timestamps[u] <= now /\ Settled(token, u)
  BY DEF DebtInv, StableSound, SettledUsersAreBlank, Settled
<1>2. now' = now + 1 /\ token' = token BY DEF NextBlock
<1>3. /\ token.totalSupplyTimestamp \in Nat
      /\ \A u \in Accounts : token.timestamps[u] \in Nat
  BY <1>1 DEF StableLedger, Balances
<1>4. /\ now' \in Nat /\ 1 <= now' /\ now' # now /\ token.totalSupplyTimestamp <= now'
      /\ \A u \in Accounts : token.timestamps[u] <= now'
  BY <1>1, <1>2, <1>3, SMT
<1>5. 1 .. now \subseteq 1 .. now' BY <1>1, <1>2, SMT
<1> QED BY <1>1, <1>2, <1>4, <1>5 DEF DebtInv, StableSound, SettledUsersAreBlank, Settled

\* Every step of the token, whatever the pool asks of it.
LEMMA StepKeepsDebtInv ==
  ASSUME DebtInv, [Next]_tokenVars
  PROVE  DebtInv' /\ (Next /\ now' = now => OneDebtMoves)
<1>1. CASE UNCHANGED tokenVars /\ ~Next
  BY <1>1 DEF tokenVars, DebtInv, StableSound, SettledUsersAreBlank
<1>2. ASSUME NEW u \in Accounts, NEW x \in Amounts, NEW rate \in Rates, mint(u, x, rate)
      PROVE  DebtInv' /\ OneDebtMoves
  BY <1>2, MintKeepsDebtInv
<1>3. ASSUME NEW u \in Accounts, NEW x \in Amounts \union {Debt(u)}, burn(u, x)
      PROVE  DebtInv' /\ OneDebtMoves
  <2>1. Debt(u) \in Nat BY StableBalanceType DEF DebtInv, Debt
  <2>2. x \in Nat BY <2>1, StableDebtTokenAssumption, SMT
  <2> QED BY <1>3, <2>2, BurnKeepsDebtInv
<1>4. CASE NextBlock BY <1>4, BlockKeepsDebtInv
<1>5. CASE Next BY <1>2, <1>3, <1>4, <1>5 DEF Next
<1> QED BY <1>1, <1>5

\* The invariant holds throughout.
LEMMA DebtInvHolds == Spec => []DebtInv
<1>1. Init => DebtInv BY InitDebtInv
<1>2. DebtInv /\ [Next]_tokenVars => DebtInv' BY StepKeepsDebtInv
<1> QED BY <1>1, <1>2, PTL DEF Spec

\* What the stable debt token stores is a ledger of numbers: a burn never takes
\* more than is owed (StableDebtToken.burn's subtractions).
THEOREM StableTokenTypeOK == Spec => []TypeOK
<1>1. DebtInv => TypeOK BY DEF DebtInv, StableSound, TypeOK
<1> QED BY <1>1, DebtInvHolds, PTL

\* A borrower has a rate and a timestamp exactly while they have a principal, so
\* a new loan is never averaged with the rate of one that was repaid.
THEOREM SettledUsersStayBlank == Spec => []SettledUsersAreBlank
<1>1. DebtInv => SettledUsersAreBlank BY DEF DebtInv
<1> QED BY <1>1, DebtInvHolds, PTL

\* A mint or a burn changes what one user owes, and moves the accrued supply by
\* exactly as much or gives the supply up.
THEOREM OneDebtMovesTheSupplyHolds == Spec => OneDebtMovesTheSupply
<1>1. DebtInv /\ [Next]_tokenVars
        => [now' = now =>
              \E u \in Accounts :
                /\ \A v \in Accounts \ {u} : Debt(v)' = Debt(v)
                /\ Supply' \in {0, Supply + (Debt(u)' - Debt(u))}]_tokenVars
  BY StepKeepsDebtInv DEF OneDebtMoves
<1> QED BY <1>1, DebtInvHolds, PTL DEF Spec, OneDebtMovesTheSupply

=============================================================================
