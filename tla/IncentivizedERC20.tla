------------------------- MODULE IncentivizedERC20 --------------------------
(***************************************************************************)
(* What every token of the protocol keeps per address                      *)
(* (tokenization/IncentivizedERC20.sol).  The incentives controller it     *)
(* notifies changes nothing in the token and is left out.                  *)
(***************************************************************************)
EXTENDS WadRayMath, FiniteSets

CONSTANT Accounts   \* every address that can hold a balance

\* Addresses are 160 bits wide.
ASSUME AccountsAssumption == IsFiniteSet(Accounts)

Balances == [Accounts -> Nat]

NoBalances == [u \in Accounts |-> 0]

=============================================================================
