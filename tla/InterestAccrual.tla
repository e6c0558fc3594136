-------------------------- MODULE InterestAccrual ---------------------------
(***************************************************************************)
(* Two reserves with one and the same constant rate: one whose indexes are *)
(* updated by every transaction that happens to come, and one nobody       *)
(* touches.  Anybody may trigger an update at any time, so what an account *)
(* owes or owns should hardly depend on when others did.                   *)
(***************************************************************************)
EXTENDS WadRayMath

CONSTANTS
  Rates,          \* rates tried, in ray per year
  MaxTime,        \* bound on the block time
  UpdateRounding  \* ray units one update may round by, interest included

ASSUME InterestAccrualAssumption == Rates \subseteq Nat /\ MaxTime \in Nat

VARIABLES
  rate,                  \* the liquidity rate and the variable borrow rate
  liquidityIndex,
  variableBorrowIndex,
  lastUpdateTimestamp,
  updates,               \* how many updates there were
  now

accrualVars ==
  <<rate, liquidityIndex, variableBorrowIndex, lastUpdateTimestamp, updates, now>>

Income == rayMul(calculateLinearInterest(rate, lastUpdateTimestamp, now), liquidityIndex)
Debt == rayMul(calculateCompoundedInterest(rate, lastUpdateTimestamp, now), variableBorrowIndex)

Init ==
  /\ rate \in Rates
  /\ liquidityIndex = RAY
  /\ variableBorrowIndex = RAY
  /\ lastUpdateTimestamp = 0
  /\ updates = 0
  /\ now = 0

\* Mutation: the borrow index stays behind while the timestamp moves on.
UpdateLiquidityIndexOnly ==
  /\ lastUpdateTimestamp # now
  /\ liquidityIndex' = Income
  /\ lastUpdateTimestamp' = now
  /\ updates' = updates + 1
  /\ UNCHANGED <<rate, variableBorrowIndex, now>>

\* _updateIndexes while there is variable debt and a rate.
UpdateIndexes ==
  /\ lastUpdateTimestamp # now
  /\ liquidityIndex' = Income
  /\ variableBorrowIndex' = Debt
  /\ lastUpdateTimestamp' = now
  /\ updates' = updates + 1
  /\ UNCHANGED <<rate, now>>

NextBlock ==
  /\ now < MaxTime
  /\ now' = now + 1
  /\ UNCHANGED <<rate, liquidityIndex, variableBorrowIndex, lastUpdateTimestamp, updates>>

Next == UpdateIndexes \/ NextBlock

Spec == Init /\ [][Next]_accrualVars

Slack == (updates + 1) * UpdateRounding

(***************************************************************************)
(* Updates never let borrowers off: whoever waits owes no more than one    *)
(* who was updated.                                                        *)
(***************************************************************************)
UpdatesNeverLowerDebt ==
  Debt >= calculateCompoundedInterest(rate, 0, now) - Slack

(***************************************************************************)
(* "The approximation slightly underpays liquidity providers and           *)
(* undercharges borrowers" (MathUtils.sol): with any updates, the debt     *)
(* stays below compound interest, RAY * (1 + rate) ^ now.                  *)
(***************************************************************************)
CompoundInterest ==
  LET grown[t \in Nat] == IF t = 0 THEN 1 ELSE grown[t - 1] * (RAY + rate \div SECONDS_PER_YEAR)
  IN grown[now]

RaysToThe(n) == LET power[t \in Nat] == IF t = 0 THEN 1 ELSE power[t - 1] * RAY IN power[n]

DebtIsUndercharged ==
  now > 0 => (Debt - Slack) * RaysToThe(now - 1) <= CompoundInterest

(***************************************************************************)
(* At one rate, the linear interest of the depositors, compounded by the   *)
(* updates, never exceeds what the borrowers pay.                          *)
(***************************************************************************)
IncomeNeverOutgrowsDebt == Income <= Debt + Slack

=============================================================================
