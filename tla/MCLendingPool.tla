--------------------------- MODULE MCLendingPool ----------------------------
(***************************************************************************)
(* Small markets for TLC, and the properties they are checked against.     *)
(***************************************************************************)
EXTENDS LendingPoolProperties

CONSTANTS
  u1, u2, a1, a2,
  MaxSteps   \* bound on the length of a behaviour, where one is needed

VARIABLE steps   \* transactions and blocks so far

MCInit == Init /\ steps = 0
Step == steps < MaxSteps /\ steps' = steps + 1

Switch == Step /\ StableSwitch
CollateralOwner == Step /\ CollateralSwitch
Liquidator == Step /\ Liquidation
Market == Step /\ PriceChange
Block == Step /\ NextBlock

MCStrategy ==
  [a \in Assets |->
     [optimalUtilizationRate |-> 800, baseVariableBorrowRate |-> 50,
      variableRateSlope1 |-> 100, variableRateSlope2 |-> 600,
      stableRateSlope1 |-> 100, stableRateSlope2 |-> 600, marketBorrowRate |-> 120]]

MCUnit == [a \in Assets |-> 1]

Standard ==
  [active |-> TRUE, frozen |-> FALSE, borrowingEnabled |-> TRUE,
   stableRateEnabled |-> TRUE, ltv |-> 60, liquidationThreshold |-> 75,
   liquidationBonus |-> 110, reserveFactor |-> 20]

MCConfigurations == [a \in Assets |-> {Standard}]
MCInitialConfiguration == [a \in Assets |-> Standard]
MCPrices == [a \in Assets |-> {1}]
MCInitialPrice == [a \in Assets |-> 1]
MCInitialWallet == [a \in Assets |-> [u \in Accounts |-> IF u = Treasury THEN 0 ELSE 200]]

(***************************************************************************)
(* Every user for themselves.                                              *)
(***************************************************************************)
OwnSupply ==
  Step /\ \E u \in Users, a \in Assets, x \in Amounts :
    deposit(u, a, x, u) \/ withdraw(u, a, x, u)

OwnLoan ==
  Step /\ \E u \in Users, a \in Assets, m \in RateModes, x \in Amounts :
    borrow(u, a, x, m, u) \/ repay(u, a, x, m, u)

Transfer == Step /\ \E u, v \in Users, a \in Assets, x \in Amounts : transfer(u, a, v, x)

(***************************************************************************)
(* u1 lends a1, and borrows some of it back; u2 borrows it against a2.     *)
(***************************************************************************)
Lender == Step /\ \E x \in Amounts : deposit(u1, a1, x, u1) \/ withdraw(u1, a1, x, u1)

LenderLoan ==
  Step /\ \E x \in Amounts :
    borrow(u1, a1, x, "variable", u1) \/ repay(u1, a1, x, "variable", u1)

Borrower ==
  Step /\ \E x \in Amounts :
    \/ deposit(u2, a2, x, u2) \/ withdraw(u2, a2, x, u2)
    \/ \E m \in RateModes : borrow(u2, a1, x, m, u2) \/ repay(u2, a1, x, m, u2)

(***************************************************************************)
(* Interest in both modes, over several blocks; no price moves.            *)
(***************************************************************************)
InterestWallet ==
  [a \in Assets |-> [u \in Accounts |->
     CASE u = u1 /\ a = a1 -> 200 [] u = u2 /\ a = a1 -> 20
       [] u = u2 /\ a = a2 -> 80  [] OTHER -> 0]]

InterestNext == Lender \/ LenderLoan \/ Borrower \/ Switch \/ Block
InterestSpec == MCInit /\ [][InterestNext]_<<vars, steps>>

(***************************************************************************)
(* Two reserves: prices move, positions are liquidated.                    *)
(***************************************************************************)
LiquidationPrices == [a \in Assets |-> IF a = a2 THEN {2, 5} ELSE {2}]
LiquidationInitialPrice == [a \in Assets |-> IF a = a2 THEN 5 ELSE 2]
LiquidationWallet ==
  [a \in Assets |-> [u \in Accounts |->
     CASE u = u1 /\ a = a1 -> 160 [] u = u2 /\ a = a2 -> 80 [] OTHER -> 0]]

RolesNext == Lender \/ Borrower \/ Switch \/ Liquidator \/ Market \/ Block
RolesSpec == MCInit /\ [][RolesNext]_<<vars, steps>>

LiquidationNext ==
  \/ OwnSupply \/ Transfer \/ OwnLoan \/ CollateralOwner
  \/ Liquidator \/ Market \/ Block
LiquidationSpec == MCInit /\ [][LiquidationNext]_<<vars, steps>>

(***************************************************************************)
(* One reserve whose whole interest goes to the treasury.                  *)
(***************************************************************************)
TreasuryConfiguration ==
  [a \in Assets |-> [Standard EXCEPT !.reserveFactor = PERCENTAGE_FACTOR]]

(***************************************************************************)
(* u2 also deposits the asset it borrows, so that a liquidator can repay   *)
(* and seize the same asset.                                               *)
(***************************************************************************)
SameAssetWallet ==
  [a \in Assets |-> [u \in Accounts |->
     CASE u = u1 /\ a = a1 -> 240 [] u = u2 -> 80 [] OTHER -> 0]]

SecondDeposit == Step /\ \E x \in Amounts : deposit(u2, a1, x, u2)

SameAssetNext == Lender \/ Borrower \/ SecondDeposit \/ Liquidator \/ Market
SameAssetSpec == MCInit /\ [][SameAssetNext]_<<vars, steps>>

=============================================================================
