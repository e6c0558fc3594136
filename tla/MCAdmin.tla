------------------------------ MODULE MCAdmin -------------------------------
(***************************************************************************)
(* A reserve under the hands of its administrators, with flash loans out   *)
(* of it: u1 lends a1, u2 borrows it against a2.                           *)
(***************************************************************************)
EXTENDS MCLendingPool, FlashLoan, LendingPoolConfigurator

AdminInit == FlashInit /\ steps = 0

AdminWallet ==
  [a \in Assets |-> [u \in Accounts |->
     CASE u = u1 /\ a = a1 -> 120 [] u = u2 /\ a = a1 -> 20
       [] u = u2 /\ a = a2 -> 120 [] OTHER -> 0]]

\* As collateral or not at all; factors of 20% and 100%.
AdminParameters ==
  {[ltv |-> 60, liquidationThreshold |-> 75, liquidationBonus |-> 110],
   [ltv |-> 0, liquidationThreshold |-> 0, liquidationBonus |-> 0]}
AdminFactors == {20, PERCENTAGE_FACTOR}

\* The whole of the lender's deposit, returned or kept; two amounts in one call.
Lent(a, x, m) == [asset |-> a, amount |-> x, mode |-> m]
AdminLoans ==
  {<<Lent(a1, 60, "none")>>, <<Lent(a1, 60, "variable")>>,
   <<Lent(a1, 30, "none"), Lent(a1, 30, "stable")>>,
   <<Lent(a1, 30, "variable"), Lent(a2, 60, "none")>>}

\* Also by the receiver, while a loan is out.
UserCall ==
  /\ Idle \/ InCallback
  /\ Lender \/ Borrower \/ Switch \/ CollateralOwner \/ Liquidator
  /\ UNCHANGED flashes

FlashLoanCall ==
  Step /\ \E u, v \in Users, legs \in AdminLoans : flashLoan(u, v, legs, u)

Accounting == Process /\ UNCHANGED steps

Administrator == Step /\ Idle /\ AdministrationOf(a1) /\ UNCHANGED flashes
Mined == Idle /\ Block /\ UNCHANGED flashes

AdminNext == UserCall \/ FlashLoanCall \/ Accounting \/ Administrator \/ Mined
AdminSpec == AdminInit /\ [][AdminNext]_<<flashVars, steps>>

=============================================================================
