----------------------------- MODULE WadRayMath -----------------------------
(***************************************************************************)
(* The fixed-point arithmetic every contract of the protocol is built on:  *)
(* libraries/math/WadRayMath.sol, PercentageMath.sol and MathUtils.sol.    *)
(*                                                                         *)
(* The scales (1e18, 1e27, 1e4, 365 days) are CONSTANTS, so that TLC can   *)
(* work with small ones and the proofs hold for every value.  Every        *)
(* operation rounds half up, as in the source.  A SafeMath underflow or a  *)
(* division by zero reverts the transaction: the caller's guard says when  *)
(* that happens.  The 256-bit overflow checks are not modelled (amounts    *)
(* are bounded by token supplies far below them); the 128-bit ones, which  *)
(* the contracts check themselves, are.                                    *)
(***************************************************************************)
EXTENDS Integers

CONSTANTS
  WAD,                \* 1 ether: the scale of prices and health factors
  WAD_RAY_RATIO,      \* 1e9: wad * WAD_RAY_RATIO is a ray
  PERCENTAGE_FACTOR,  \* 1e4: 100% in basis points
  SECONDS_PER_YEAR,   \* 365 days
  MAX_UINT128         \* type(uint128).max: bound of stored indexes and rates

RAY == WAD * WAD_RAY_RATIO

ASSUME ScaleAssumption ==
  /\ WAD \in Nat \ {0}
  /\ WAD_RAY_RATIO \in Nat \ {0}
  /\ PERCENTAGE_FACTOR \in Nat \ {0}
  /\ SECONDS_PER_YEAR \in Nat \ {0}
  /\ MAX_UINT128 \in Nat

(***************************************************************************)
(* Ray, wad and percentage products and quotients.  The divisor of a       *)
(* quotient is not 0 (the source requires it).                             *)
(***************************************************************************)
rayMul(a, b) == (a * b + RAY \div 2) \div RAY

rayDiv(a, b) == (a * RAY + b \div 2) \div b

wadDiv(a, b) == (a * WAD + b \div 2) \div b

wadToRay(a) == a * WAD_RAY_RATIO

percentMul(value, percentage) ==
  (value * percentage + PERCENTAGE_FACTOR \div 2) \div PERCENTAGE_FACTOR

percentDiv(value, percentage) ==
  (value * PERCENTAGE_FACTOR + percentage \div 2) \div percentage

(***************************************************************************)
(* Interest factors, in ray, between two timestamps: linear for income,    *)
(* the third-order binomial approximation for debts.                       *)
(***************************************************************************)
calculateLinearInterest(rate, from, to) ==
  RAY + (rate * (to - from)) \div SECONDS_PER_YEAR

\* Mutation: the third term of the series is off by one.
calculateCompoundedInterestOffByOne(rate, from, to) ==
  LET exp            == to - from
      ratePerSecond  == rate \div SECONDS_PER_YEAR
      basePowerTwo   == rayMul(ratePerSecond, ratePerSecond)
      basePowerThree == rayMul(basePowerTwo, ratePerSecond)
      secondTerm     == (exp * (exp - 1) * basePowerTwo) \div 2
      thirdTerm      == (exp * (exp - 1) * (exp - 1) * basePowerThree) \div 6
  IN IF exp = 0 THEN RAY
     ELSE RAY + ratePerSecond * exp + secondTerm + thirdTerm

calculateCompoundedInterest(rate, from, to) ==
  LET exp            == to - from
      expMinusTwo    == IF exp > 2 THEN exp - 2 ELSE 0
      ratePerSecond  == rate \div SECONDS_PER_YEAR
      basePowerTwo   == rayMul(ratePerSecond, ratePerSecond)
      basePowerThree == rayMul(basePowerTwo, ratePerSecond)
      secondTerm     == (exp * (exp - 1) * basePowerTwo) \div 2
      thirdTerm      == (exp * (exp - 1) * expMinusTwo * basePowerThree) \div 6
  IN IF exp = 0 THEN RAY
     ELSE RAY + ratePerSecond * exp + secondTerm + thirdTerm

=============================================================================
