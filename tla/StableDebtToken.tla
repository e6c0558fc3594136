-------------------------- MODULE StableDebtToken ---------------------------
(***************************************************************************)
(* StableDebtToken.sol on its own, driven by any lending pool: the state   *)
(* machine the rules of specs/StableDebtToken.spec talk about.             *)
(***************************************************************************)
EXTENDS StableDebtLedger, FiniteSetsExt

CONSTANTS
  Amounts,    \* amounts the pool mints and burns
  Rates,      \* rates it mints at
  MaxTime,    \* bound on the block time, for model checking
  MaxSupply,  \* bound on the debt, for model checking
  Dust        \* units that rounding may make of difference

ASSUME StableDebtTokenAssumption ==
  /\ Amounts \subseteq Nat \ {0}
  /\ Rates \subseteq Nat

VARIABLES
  token,
  now    \* block.timestamp

tokenVars == <<token, now>>

Debt(user) == StableBalanceOf(token, user, now)
Supply == StableSupplyAt(token, now)

Init ==
  /\ token = EmptyStableLedger
  /\ now = 1

mint(onBehalfOf, amount, rate) ==
  /\ Supply + amount <= MaxSupply
  /\ CanMintStable(token, onBehalfOf, amount, rate, now)
  /\ token' = MintStable(token, onBehalfOf, amount, rate, now)
  /\ UNCHANGED now

\* The pool burns part of a debt, or all of it.
burn(user, amount) ==
  /\ amount > 0
  /\ CanBurnStable(token, user, amount, now)
  /\ token' = BurnStable(token, user, amount, now)
  /\ UNCHANGED now

NextBlock ==
  /\ now < MaxTime
  /\ now' = now + 1
  /\ UNCHANGED token

Next ==
  \/ \E u \in Accounts, x \in Amounts, rate \in Rates : mint(u, x, rate)
  \/ \E u \in Accounts : \E x \in Amounts \union {Debt(u)} : burn(u, x)
  \/ NextBlock

Spec == Init /\ [][Next]_tokenVars

TypeOK ==
  /\ token \in StableLedger
  /\ now \in Nat

(***************************************************************************)
(* An operation changes the accrued debt of one user at most, and moves    *)
(* the accrued supply by the same amount, unless it gives the supply up    *)
(* (rules balanceOfChange and integirtyBalanceOfTotalSupply).              *)
(***************************************************************************)
OneDebtMovesTheSupply ==
  [][now' = now =>
       \E u \in Accounts :
         /\ \A v \in Accounts \ {u} : Debt(v)' = Debt(v)
         /\ Supply' \in {0, Supply + (Debt(u)' - Debt(u))}]_tokenVars

(***************************************************************************)
(* The pool's interest rates and the treasury's share come from the        *)
(* supply.  It accrues at the average rate, apart from the debts it stands *)
(* for; it must not promise depositors more than the borrowers owe.        *)
(***************************************************************************)
SupplyNeverExceedsDebts ==
  Supply <= MapThenSumSet(Debt, Accounts) + Dust

(***************************************************************************)
(* A user has a rate and a timestamp exactly while they have a principal;  *)
(* a stale rate would be averaged into their next loan.                    *)
(***************************************************************************)
SettledUsersAreBlank ==
  \A u \in Accounts :
    IF token.balances[u] = 0
    THEN token.userRate[u] = 0 /\ token.timestamps[u] = 0
    ELSE token.timestamps[u] \in 1 .. now

(***************************************************************************)
(* The comments in burn say the supply is set to 0 when the last borrower  *)
(* repays: a burn that does it leaves nobody else in debt.                 *)
(***************************************************************************)
OnlyLastBorrowerResetsSupply ==
  [][token.totalSupply # 0 /\ token'.totalSupply = 0
       => \A u \in Accounts : token'.balances[u] = 0]_tokenVars

=============================================================================
