---------------------------- MODULE ReserveLogic ----------------------------
(***************************************************************************)
(* libraries/logic/ReserveLogic.sol: how a reserve accrues.                *)
(*                                                                         *)
(* A reserve is one record: its ReserveData (indexes, rates, timestamp),   *)
(* its three tokens, and cash, the underlying balance of the aToken        *)
(* contract.  The operators map a reserve to the reserve after a call; the *)
(* action that makes several calls chains them.                            *)
(***************************************************************************)
EXTENDS InterestRateStrategy, ScaledBalanceToken, StableDebtLedger

CONSTANT Treasury   \* the collector that receives the reserve factor

ASSUME TreasuryAssumption == Treasury \in Accounts

Reserve ==
  [liquidityIndex : Nat, variableBorrowIndex : Nat,
   currentLiquidityRate : Nat, currentVariableBorrowRate : Nat,
   currentStableBorrowRate : Nat, lastUpdateTimestamp : Nat,
   aToken : ScaledLedger, variableDebt : ScaledLedger,
   stableDebt : StableLedger, cash : Nat]

\* init: rates and timestamp keep the zero of untouched storage.
InitializedReserve ==
  [liquidityIndex |-> RAY, variableBorrowIndex |-> RAY,
   currentLiquidityRate |-> 0, currentVariableBorrowRate |-> 0,
   currentStableBorrowRate |-> 0, lastUpdateTimestamp |-> 0,
   aToken |-> EmptyScaledLedger, variableDebt |-> EmptyScaledLedger,
   stableDebt |-> EmptyStableLedger, cash |-> 0]

(***************************************************************************)
(* The views: indexes as of now, without storing them.                     *)
(***************************************************************************)
getNormalizedIncome(r, now) ==
  IF r.lastUpdateTimestamp = now THEN r.liquidityIndex
  ELSE rayMul(calculateLinearInterest(r.currentLiquidityRate,
                                      r.lastUpdateTimestamp, now),
              r.liquidityIndex)

getNormalizedDebt(r, now) ==
  IF r.lastUpdateTimestamp = now THEN r.variableBorrowIndex
  ELSE rayMul(calculateCompoundedInterest(r.currentVariableBorrowRate,
                                          r.lastUpdateTimestamp, now),
              r.variableBorrowIndex)

ATokenBalanceOf(r, user, now) ==
  ScaledBalanceOf(r.aToken, user, getNormalizedIncome(r, now))

VariableDebtOf(r, user, now) ==
  ScaledBalanceOf(r.variableDebt, user, getNormalizedDebt(r, now))

StableDebtOf(r, user, now) == StableBalanceOf(r.stableDebt, user, now)

TotalDebt(r, now) ==
  StableSupplyAt(r.stableDebt, now)
    + ScaledTotalSupply(r.variableDebt, getNormalizedDebt(r, now))

(***************************************************************************)
(* _updateIndexes.  Nothing accrues while the liquidity rate is 0, and the *)
(* variable index only moves while there is variable debt; the timestamp   *)
(* moves in every case.                                                    *)
(***************************************************************************)
\* Mutation: interest is not compounded on the old index.
UpdatedLiquidityIndexFromRay(r, now) ==
  IF r.currentLiquidityRate = 0 THEN r.liquidityIndex
  ELSE calculateLinearInterest(r.currentLiquidityRate, r.lastUpdateTimestamp, now)

UpdatedLiquidityIndex(r, now) ==
  IF r.currentLiquidityRate = 0 THEN r.liquidityIndex
  ELSE rayMul(calculateLinearInterest(r.currentLiquidityRate,
                                      r.lastUpdateTimestamp, now),
              r.liquidityIndex)

\* Mutation: debts accrue linearly when they are stored.
UpdatedVariableBorrowIndexLinear(r, now) ==
  IF r.currentLiquidityRate = 0 \/ r.variableDebt.totalSupply = 0
  THEN r.variableBorrowIndex
  ELSE rayMul(calculateLinearInterest(r.currentVariableBorrowRate,
                                      r.lastUpdateTimestamp, now),
              r.variableBorrowIndex)

UpdatedVariableBorrowIndex(r, now) ==
  IF r.currentLiquidityRate = 0 \/ r.variableDebt.totalSupply = 0
  THEN r.variableBorrowIndex
  ELSE rayMul(calculateCompoundedInterest(r.currentVariableBorrowRate,
                                          r.lastUpdateTimestamp, now),
              r.variableBorrowIndex)

(***************************************************************************)
(* _mintToTreasury: the reserve factor's share of the debt accrued since   *)
(* the last update, in aTokens at the new index.                           *)
(***************************************************************************)
\* Mutation: the previous variable debt is read through the view.
TotalDebtAccruedAgainstView(r, now) ==
  LET sd == r.stableDebt
  IN ScaledTotalSupply(r.variableDebt, UpdatedVariableBorrowIndex(r, now))
       + StableSupplyAt(sd, now)
       - ScaledTotalSupply(r.variableDebt, getNormalizedDebt(r, now))
       - rayMul(sd.totalSupply,
                calculateCompoundedInterest(sd.avgStableRate, sd.totalSupplyTimestamp,
                                            r.lastUpdateTimestamp))

TotalDebtAccrued(r, now) ==
  LET sd                 == r.stableDebt
      previousStableDebt ==
        rayMul(sd.totalSupply,
               calculateCompoundedInterest(sd.avgStableRate, sd.totalSupplyTimestamp,
                                           r.lastUpdateTimestamp))
  IN ScaledTotalSupply(r.variableDebt, UpdatedVariableBorrowIndex(r, now))
       + StableSupplyAt(sd, now)
       - ScaledTotalSupply(r.variableDebt, r.variableBorrowIndex)
       - previousStableDebt

AmountToMint(r, reserveFactor, now) ==
  IF reserveFactor = 0 THEN 0
  ELSE percentMul(TotalDebtAccrued(r, now), reserveFactor)

CanUpdateState(r, reserveFactor, now) ==
  /\ UpdatedLiquidityIndex(r, now) <= MAX_UINT128
  /\ UpdatedVariableBorrowIndex(r, now) <= MAX_UINT128
  /\ reserveFactor = 0
       \/ /\ r.lastUpdateTimestamp >= r.stableDebt.totalSupplyTimestamp
          /\ TotalDebtAccrued(r, now) >= 0

\* Mutation: the timestamp is not written.
updateStateKeepingTimestamp(r, reserveFactor, now) ==
  [r EXCEPT
     !.liquidityIndex      = UpdatedLiquidityIndex(r, now),
     !.variableBorrowIndex = UpdatedVariableBorrowIndex(r, now),
     !.aToken              = MintScaled(@, Treasury, AmountToMint(r, reserveFactor, now),
                                        UpdatedLiquidityIndex(r, now))]

updateState(r, reserveFactor, now) ==
  [r EXCEPT
     !.liquidityIndex      = UpdatedLiquidityIndex(r, now),
     !.variableBorrowIndex = UpdatedVariableBorrowIndex(r, now),
     !.lastUpdateTimestamp = now,
     !.aToken              = MintScaled(@, Treasury, AmountToMint(r, reserveFactor, now),
                                        UpdatedLiquidityIndex(r, now))]

(***************************************************************************)
(* cumulateToLiquidityIndex: an amount that becomes income at once, spread *)
(* over totalLiquidity.                                                    *)
(***************************************************************************)
CumulatedLiquidityIndex(r, totalLiquidity, amount) ==
  rayMul(RAY + rayDiv(wadToRay(amount), wadToRay(totalLiquidity)), r.liquidityIndex)

CanCumulate(r, totalLiquidity, amount) ==
  /\ totalLiquidity # 0
  /\ CumulatedLiquidityIndex(r, totalLiquidity, amount) <= MAX_UINT128

cumulateToLiquidityIndex(r, totalLiquidity, amount) ==
  [r EXCEPT !.liquidityIndex = CumulatedLiquidityIndex(r, totalLiquidity, amount)]

(***************************************************************************)
(* updateInterestRates, after liquidityAdded - liquidityTaken = delta: the *)
(* caller moves the underlying later, in the same transaction.             *)
(***************************************************************************)
CanUpdateInterestRates(r, reserveFactor, delta) ==
  /\ r.cash + delta >= 0
  /\ reserveFactor <= PERCENTAGE_FACTOR

\* Mutation: the liquidity that is about to move is left out.
WithInterestRatesBeforehand(r, s, reserveFactor, delta, now) ==
  LET totalStableDebt   == StableSupplyAt(r.stableDebt, now)
      totalVariableDebt == ScaledTotalSupply(r.variableDebt, r.variableBorrowIndex)
      utilization       == utilizationRate(r.cash, totalStableDebt + totalVariableDebt)
      overall           == overallBorrowRate(totalStableDebt, totalVariableDebt,
                                             variableBorrowRate(s, utilization),
                                             r.stableDebt.avgStableRate)
  IN [r EXCEPT
        !.currentLiquidityRate      = liquidityRate(overall, utilization, reserveFactor),
        !.currentStableBorrowRate   = stableBorrowRate(s, utilization),
        !.currentVariableBorrowRate = variableBorrowRate(s, utilization)]

WithInterestRates(r, s, reserveFactor, delta, now) ==
  LET totalStableDebt   == StableSupplyAt(r.stableDebt, now)
      totalVariableDebt == ScaledTotalSupply(r.variableDebt, r.variableBorrowIndex)
      utilization       == utilizationRate(r.cash + delta, totalStableDebt + totalVariableDebt)
      overall           == overallBorrowRate(totalStableDebt, totalVariableDebt,
                                             variableBorrowRate(s, utilization),
                                             r.stableDebt.avgStableRate)
  IN [r EXCEPT
        !.currentLiquidityRate      = liquidityRate(overall, utilization, reserveFactor),
        !.currentStableBorrowRate   = stableBorrowRate(s, utilization),
        !.currentVariableBorrowRate = variableBorrowRate(s, utilization)]

\* The three rates fit the uint128 they are stored in.
RatesFit(r) ==
  {r.currentLiquidityRate, r.currentStableBorrowRate, r.currentVariableBorrowRate}
    \subseteq 0 .. MAX_UINT128

=============================================================================
