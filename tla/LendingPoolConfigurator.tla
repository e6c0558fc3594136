----------------------- MODULE LendingPoolConfigurator ----------------------
(***************************************************************************)
(* LendingPoolConfigurator.sol: what the pool admin and the emergency      *)
(* admin do to a reserve.  Every function reads the configuration word,    *)
(* changes part of it and writes it back in one transaction.               *)
(***************************************************************************)
EXTENDS LendingPoolProperties

CONSTANTS
  MAX_VALID_RESERVE_FACTOR,   \* 65535, of PERCENTAGE_FACTOR 10000
  CollateralParameters,       \* [ltv, liquidationThreshold, liquidationBonus] asked for
  ReserveFactors              \* the reserve factors asked for

enableBorrowingOnReserve(a, stableBorrowRateEnabled) ==
  setConfiguration(a, [configuration[a] EXCEPT !.borrowingEnabled  = TRUE,
                                               !.stableRateEnabled = stableBorrowRateEnabled])

disableBorrowingOnReserve(a) ==
  setConfiguration(a, [configuration[a] EXCEPT !.borrowingEnabled = FALSE])

\* Mutation: deposits that are lent out are not looked for.
NoCash(a) == reserves[a].cash = 0

\* _checkNoLiquidity
NoLiquidity(a) == reserves[a].cash = 0 /\ reserves[a].currentLiquidityRate = 0

configureReserveAsCollateral(a, p) ==
  /\ p.ltv <= p.liquidationThreshold
  /\ IF p.liquidationThreshold # 0
     THEN /\ p.liquidationBonus > PERCENTAGE_FACTOR
          /\ percentMul(p.liquidationThreshold, p.liquidationBonus) <= PERCENTAGE_FACTOR
     ELSE p.liquidationBonus = 0 /\ NoLiquidity(a)
  /\ setConfiguration(a, [configuration[a] EXCEPT !.ltv                  = p.ltv,
                                                  !.liquidationThreshold = p.liquidationThreshold,
                                                  !.liquidationBonus     = p.liquidationBonus])

enableReserveStableRate(a) ==
  setConfiguration(a, [configuration[a] EXCEPT !.stableRateEnabled = TRUE])

disableReserveStableRate(a) ==
  setConfiguration(a, [configuration[a] EXCEPT !.stableRateEnabled = FALSE])

activateReserve(a) == setConfiguration(a, [configuration[a] EXCEPT !.active = TRUE])

deactivateReserve(a) ==
  NoLiquidity(a) /\ setConfiguration(a, [configuration[a] EXCEPT !.active = FALSE])

freezeReserve(a) == setConfiguration(a, [configuration[a] EXCEPT !.frozen = TRUE])

unfreezeReserve(a) == setConfiguration(a, [configuration[a] EXCEPT !.frozen = FALSE])

setReserveFactor(a, reserveFactor) ==
  /\ reserveFactor <= MAX_VALID_RESERVE_FACTOR
  /\ setConfiguration(a, [configuration[a] EXCEPT !.reserveFactor = reserveFactor])

setPoolPause(val) == setPause(val)

AdministrationOf(a) ==
  \/ \E stable \in BOOLEAN : enableBorrowingOnReserve(a, stable)
  \/ disableBorrowingOnReserve(a)
  \/ \E p \in CollateralParameters : configureReserveAsCollateral(a, p)
  \/ enableReserveStableRate(a)
  \/ disableReserveStableRate(a)
  \/ activateReserve(a)
  \/ deactivateReserve(a)
  \/ freezeReserve(a)
  \/ unfreezeReserve(a)
  \/ \E f \in ReserveFactors : setReserveFactor(a, f)
  \/ \E val \in BOOLEAN : setPoolPause(val)

(***************************************************************************)
(* Deactivating a reserve locks whatever is in it, and disabling it as     *)
(* collateral leaves its depositors' debts uncovered: "we need to ensure   *)
(* no liquidity is deposited".  The check looks at the cash and at a rate  *)
(* stored by the last operation; the deposits, and the interest on them,   *)
(* are somewhere else.  It is deceived where all the interest goes to the  *)
(* treasury: deposits that are lent out then earn a rate of 0.             *)
(***************************************************************************)
Deposited(a) ==
  ScaledTotalSupply(reserves[a].aToken, getNormalizedIncome(reserves[a], now))

SwitchedOff(a) == ~configuration[a].active \/ configuration[a].liquidationThreshold = 0

NoDepositIsSwitchedOff ==
  [][\A a \in Assets :
       (~SwitchedOff(a) /\ SwitchedOff(a)') => Deposited(a) <= Dust \/ LentForNothing(a)]_vars

=============================================================================
