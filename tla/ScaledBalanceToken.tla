------------------------- MODULE ScaledBalanceToken -------------------------
(***************************************************************************)
(* The ledger behind AToken and VariableDebtToken (IncentivizedERC20):     *)
(* balances are kept divided by the reserve's index, and multiplied by it  *)
(* again whenever they are read.                                           *)
(*                                                                         *)
(* An operation is an operator from a ledger to the ledger after it; the   *)
(* predicate named Can<operation> says when the call does not revert.      *)
(***************************************************************************)
EXTENDS IncentivizedERC20

ScaledLedger == [balances : Balances, totalSupply : Nat]

EmptyScaledLedger == [balances |-> NoBalances, totalSupply |-> 0]

(***************************************************************************)
(* balanceOf(user) and totalSupply() at an index.                          *)
(***************************************************************************)
ScaledBalanceOf(token, user, index) == rayMul(token.balances[user], index)

ScaledTotalSupply(token, index) == rayMul(token.totalSupply, index)

(***************************************************************************)
(* The scaled amount a mint or a burn moves.  Both tokens refuse an amount *)
(* that rounds to 0, except in mintToTreasury.                             *)
(***************************************************************************)
AmountScaled(amount, index) == rayDiv(amount, index)

CanMintScaled(amount, index) == AmountScaled(amount, index) # 0

\* Mutation: the amount is credited as if the index were one ray.
MintScaledUnscaled(token, user, amount, index) ==
  [balances    |-> [token.balances EXCEPT ![user] = @ + amount],
   totalSupply |-> token.totalSupply + amount]

MintScaled(token, user, amount, index) ==
  [balances    |-> [token.balances EXCEPT ![user] = @ + AmountScaled(amount, index)],
   totalSupply |-> token.totalSupply + AmountScaled(amount, index)]

CanBurnScaled(token, user, amount, index) ==
  /\ AmountScaled(amount, index) \in 1 .. token.balances[user]
  /\ AmountScaled(amount, index) <= token.totalSupply

\* Mutation: the burned amount is not taken from the total supply.
BurnScaledKeepingSupply(token, user, amount, index) ==
  [token EXCEPT !.balances[user] = @ - AmountScaled(amount, index)]

\* Mutation: the amount is taken as if the index were one ray.
BurnScaledUnscaled(token, user, amount, index) ==
  [balances    |-> [token.balances EXCEPT ![user] = @ - amount],
   totalSupply |-> token.totalSupply - amount]

BurnScaled(token, user, amount, index) ==
  [balances    |-> [token.balances EXCEPT ![user] = @ - AmountScaled(amount, index)],
   totalSupply |-> token.totalSupply - AmountScaled(amount, index)]

(***************************************************************************)
(* IncentivizedERC20._transfer: the sender is debited before the           *)
(* recipient's balance is read, so a transfer to oneself changes nothing.  *)
(***************************************************************************)
CanMoveScaled(token, from, amount, index) ==
  AmountScaled(amount, index) <= token.balances[from]

MoveScaled(token, from, to, amount, index) ==
  LET debited == [token.balances EXCEPT ![from] = @ - AmountScaled(amount, index)]
  IN [token EXCEPT !.balances = [debited EXCEPT ![to] = @ + AmountScaled(amount, index)]]

=============================================================================
