------------------------- MODULE MCStableDebtToken --------------------------
(***************************************************************************)
(* The stable debt token for TLC: two borrowers, behaviours of bounded     *)
(* length.                                                                 *)
(***************************************************************************)
EXTENDS StableDebtToken, TLC

CONSTANT MaxSteps   \* bound on the length of a behaviour

VARIABLE steps

Borrowers == Permutations(Accounts)

MCInit == Init /\ steps = 0
Step == steps < MaxSteps /\ steps' = steps + 1

MCNext ==
  \/ \E u \in Accounts, x \in Amounts, rate \in Rates : Step /\ mint(u, x, rate)
  \/ \E u \in Accounts : \E x \in Amounts \union {Debt(u)} : Step /\ burn(u, x)
  \/ Step /\ NextBlock
MCSpec == MCInit /\ [][MCNext]_<<tokenVars, steps>>

=============================================================================
