------------------------- MODULE LendingPoolStorage -------------------------
(***************************************************************************)
(* The state of a lending market: LendingPoolStorage.sol, the tokens of    *)
(* its reserves, and what lies around it (block time, oracle prices, the   *)
(* underlying tokens outside the pool).                                    *)
(*                                                                         *)
(* The bitmap of UserConfiguration.sol is the two sets of assets whose     *)
(* bits are set; the reserve list is the set Assets.                       *)
(***************************************************************************)
EXTENDS ReserveLogic

CONSTANTS
  Assets,           \* the initialized reserves, by underlying asset
  Users,            \* the accounts that send transactions
  TokenUnit,        \* 10 ** decimals of each asset
  Strategy,         \* the interest rate strategy of each reserve
  Configurations,   \* the configurations the configurator writes, per asset
  Prices,           \* the prices the oracle reports, per asset
  MAX_UINT256       \* type(uint256).max: "everything", and no debt at all

ASSUME MarketAssumption ==
  /\ Users \subseteq Accounts
  /\ TokenUnit \in [Assets -> Nat \ {0}]
  /\ Strategy \in [Assets -> StrategyParams]
  /\ MAX_UINT256 \in Nat
  /\ \A a \in Assets : Prices[a] \subseteq Nat \ {0}

(***************************************************************************)
(* The words of ReserveConfiguration.sol the pool reads, with what         *)
(* configureReserveAsCollateral requires of its three parameters.          *)
(***************************************************************************)
ConfigurationWord ==
  [active : BOOLEAN, frozen : BOOLEAN,
   borrowingEnabled : BOOLEAN, stableRateEnabled : BOOLEAN,
   ltv : Nat, liquidationThreshold : Nat, liquidationBonus : Nat,
   reserveFactor : Nat]

ReserveConfiguration ==
  {c \in ConfigurationWord :
     /\ c.ltv <= c.liquidationThreshold
     /\ c.liquidationThreshold # 0 =>
          /\ c.liquidationBonus > PERCENTAGE_FACTOR
          /\ percentMul(c.liquidationThreshold, c.liquidationBonus) <= PERCENTAGE_FACTOR
     /\ c.liquidationThreshold = 0 => c.liquidationBonus = 0}

ASSUME ConfigurationAssumption ==
  \A a \in Assets : Configurations[a] \subseteq ReserveConfiguration

VARIABLES
  (* LendingPoolStorage *)
  reserves,            \* per asset: its reserve and the state of its tokens
  configuration,       \* per asset: its configuration word
  borrowing,           \* per account: assets whose borrowing bit is set
  usingAsCollateral,   \* per account: assets whose collateral bit is set
  paused,
  (* DebtTokenBase *)
  borrowAllowance,     \* per asset, mode, delegator, delegatee
  (* Outside the pool *)
  wallet,              \* per asset and account: underlying tokens held
  price,               \* per asset: the oracle's answer
  now                  \* block.timestamp

poolVars == <<reserves, configuration, borrowing, usingAsCollateral, paused>>
vars == <<poolVars, borrowAllowance, wallet, price, now>>

RateModes == {"stable", "variable"}

TypeOK ==
  /\ reserves \in [Assets -> Reserve]
  /\ configuration \in [Assets -> ReserveConfiguration]
  /\ borrowing \in [Accounts -> SUBSET Assets]
  /\ usingAsCollateral \in [Accounts -> SUBSET Assets]
  /\ paused \in BOOLEAN
  /\ borrowAllowance \in [Assets -> [RateModes -> [Accounts -> Balances]]]
  /\ wallet \in [Assets -> Balances]
  /\ price \in [Assets -> Nat \ {0}]
  /\ now \in Nat

(***************************************************************************)
(* Setting and clearing bits.                                              *)
(***************************************************************************)
WithBit(bits, user, a) == [bits EXCEPT ![user] = @ \union {a}]
WithoutBit(bits, user, a) == [bits EXCEPT ![user] = @ \ {a}]

(***************************************************************************)
(* reserve.updateState() and reserve.updateInterestRates() of asset a, on  *)
(* a reserve r that is part way through a transaction.                     *)
(***************************************************************************)
CanAccrue(a, r) == CanUpdateState(r, configuration[a].reserveFactor, now)
Accrued(a, r) == updateState(r, configuration[a].reserveFactor, now)

Repriced(a, r, delta) ==
  WithInterestRates(r, Strategy[a], configuration[a].reserveFactor, delta, now)
CanReprice(a, r, delta) ==
  /\ CanUpdateInterestRates(r, configuration[a].reserveFactor, delta)
  /\ RatesFit(Repriced(a, r, delta))

=============================================================================
