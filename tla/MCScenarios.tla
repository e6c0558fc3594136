---------------------------- MODULE MCScenarios -----------------------------
(***************************************************************************)
(* Scenario tests over a small market: u1 lends a1 and u2 holds a2, both   *)
(* borrow a1 in both modes, for themselves or for each other.              *)
(***************************************************************************)
EXTENDS MCLendingPool, Scenarios

ScenarioWallet ==
  [a \in Assets |-> [u \in Accounts |->
     CASE u = u1 /\ a = a1 -> 80 [] u = u2 /\ a = a1 -> 40
       [] u = u2 /\ a = a2 -> 160 [] OTHER -> 0]]

ScenarioInit == MCInit /\ check = NoCheck

\* Deposits are of two loans, withdrawals and repayments of one or of everything.
LoanSize == 40
Parts == {LoanSize, MAX_UINT256}

DepositStory ==
  \/ Step /\ scenarioDeposit(u1, a1, 2 * LoanSize, u1)
  \/ \E v \in Users : Step /\ scenarioDeposit(u2, a2, 2 * LoanSize, v)

WithdrawStory == \E x \in Parts : Step /\ scenarioWithdraw(u1, a1, x)

CollateralStory ==
  \E use \in BOOLEAN : Step /\ scenarioSetUseAsCollateral(u1, a1, use)

LoanStory ==
  \E u, v \in Users, m \in RateModes :
    \/ u = u2 /\ v = u1 /\ Step /\ scenarioDelegateBorrowAllowance(u, a1, m, v, LoanSize)
    \/ Step /\ scenarioBorrow(u, a1, LoanSize, m, v)
    \/ \E x \in Parts : Step /\ scenarioRepay(u, a1, x, m, v)

SwitchStory ==
  \E u \in Users :
    \/ \E m \in RateModes : Step /\ scenarioSwapBorrowRateMode(u, a1, m)
    \/ Step /\ scenarioRebalanceStableBorrowRate(a1, u)

TimeTravel == Step /\ advanceTimeAndBlock

ScenarioNext ==
  DepositStory \/ WithdrawStory \/ CollateralStory \/ LoanStory \/ SwitchStory \/ TimeTravel

ScenarioSpec == ScenarioInit /\ [][ScenarioNext]_<<vars, steps, check>>

=============================================================================
