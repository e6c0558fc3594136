---------------------------- MODULE MCDeployment ----------------------------
(***************************************************************************)
(* Small instances of the deployment, and what they are checked against.   *)
(***************************************************************************)
EXTENDS Deployment, InterestRateStrategy

Contracts ==
  [id : DbIds \cup Slots \cup {"none", "Deployer"}, run : 0 .. MaxRuns, market : 0 .. MaxRuns]

Symbols == UNION {DOMAIN loadPoolConfig(m).ReservesConfig.params : m \in MarketNames}
Literals == UNION {DOMAIN chunkedInitInputParams[i] : i \in DOMAIN chunkedInitInputParams}
AllTokens == Symbols \X {"assets", "literal", "mocks"}

(***************************************************************************)
(* The types of the variables, and that a proxy, once made, is its         *)
(* market's.                                                               *)
(***************************************************************************)
TypeOK ==
  /\ env \in Environments
  /\ db \in [DbIds -> Contracts]
  /\ \A p \in Runs : addresses[p] \in [Slots -> Contracts]
  /\ \A p \in Runs, s \in ProxiedSlots : addresses[p][s] \in {None, Contract(s, p, p)}
  /\ \A p \in Runs : listed[p] \subseteq Literals /\ deposited[p] \subseteq listed[p]
  /\ \A p \in Runs : configured[p] \subseteq AllTokens
  /\ rateOwner \in [Runs -> Contracts]
  /\ registered \subseteq Runs
  /\ run \in 0 .. MaxRuns
  /\ status \in {"idle", "running", "done", "failed", "crashed"}
  /\ admin \in Contracts
  /\ \A i \in DOMAIN inputs : inputs[i] \subseteq AllTokens

(***************************************************************************)
(* A script that deploys a market of its own works on no other: the names  *)
(* it finds in the file are those it wrote, whatever earlier runs left.    *)
(***************************************************************************)
FreshMarketsAreSeparate ==
  [][(script \in WholeScripts) =>
       (\A p \in Runs \ {run} :
          /\ addresses'[p] = addresses[p] /\ listed'[p] = listed[p]
          /\ configured'[p] = configured[p] /\ rateOwner'[p] = rateOwner[p])]_vars

(***************************************************************************)
(* A run that ends well has left the administration of its market and of   *)
(* its rate oracle with the deployer, although both went through helpers,  *)
(* and although it may have continued on what a crashed run left.          *)
(***************************************************************************)
FinishedRunsReturnedCustody ==
  status = "done" =>
    /\ addresses[Market]["POOL_ADMIN"] = Deployer
    /\ rateOwner[run] \in {None, Deployer}

(***************************************************************************)
(* Whatever scripts run and wherever they stop, every market is launched   *)
(* as MarketLaunch says: listed completely under the deployer, then lent,  *)
(* configured and returned, once.                                          *)
(***************************************************************************)
Custody(p) ==
  CASE addresses[p]["POOL_ADMIN"] = None -> "nobody"
    [] addresses[p]["POOL_ADMIN"] = Deployer -> "deployer"
    [] OTHER -> "helper"

Launch ==
  INSTANCE MarketLaunch
    WITH Markets <- Runs, Listings <- Literals, Tokens <- AllTokens,
         custody <- [p \in Runs |-> Custody(p)]

ImplementsLaunch == Launch!Spec

(***************************************************************************)
(* A run that has lent its market to the helper gets it back, unless it    *)
(* dies in between or a user has deposited in a reserve whose              *)
(* configuration needs it empty.                                           *)
(***************************************************************************)
LentComesBack ==
  Running("configure")
    ~> \/ status = "crashed"
       \/ Market # 0 /\ (Custody(Market) = "deployer" \/ deposited[Market] # {})

(***************************************************************************)
(* Every run ends: no statement is repeated for ever, the configuration    *)
(* of reserves in batches included.                                        *)
(***************************************************************************)
RunsEnd == status = "running" ~> status # "running"

(***************************************************************************)
(* full:initialize-lending-pool is to initialize the reserves of the       *)
(* market: what it configures is listed in the pool.                       *)
(***************************************************************************)
ConfiguredReservesAreListed ==
  status = "done" =>
    \A t \in configured[Market] : t[2] = "literal" /\ t[1] \in listed[Market]

(***************************************************************************)
(* Every row of the three markets passes the configurator's requirements,  *)
(* and its reserve factor is one the interest rate strategy can subtract.  *)
(***************************************************************************)
ASSUME ConfigurationsAreAccepted ==
  \A m \in MarketNames :
    LET market == loadPoolConfig(m)
    IN  \A s \in DOMAIN market.ReservesConfig.params :
          LET r == market.ReservesConfig.params[s]
          IN  /\ r.reserveFactor <= 10000
              /\ r.baseLTVAsCollateral <= r.liquidationThreshold
              /\ IF r.liquidationThreshold = 0 THEN r.liquidationBonus = 0
                 ELSE /\ r.liquidationBonus > 10000
                      /\ r.liquidationThreshold * r.liquidationBonus < 10000 * 10000 + 5000
              /\ r.strategy \in DOMAIN market.Strategies

(***************************************************************************)
(* Where a market allows stable loans, the rates it deploys never make a   *)
(* stable loan cheaper than a variable one, at any utilisation.            *)
(***************************************************************************)
ASSUME StableLoansCostMore ==
  \A m \in MarketNames :
    LET market == loadPoolConfig(m)
    IN  \A s \in DOMAIN market.ReservesConfig.params :
          market.ReservesConfig.params[s].stableBorrowRateEnabled =>
            LET strategy == market.Strategies[market.ReservesConfig.params[s].strategy]
                                @@ [marketBorrowRate |-> market.LendingRateOracleRates[s]]
            IN  \A u \in {50 * i : i \in 0 .. 20} :
                  stableBorrowRate(strategy, u) >= variableBorrowRate(strategy, u)

=============================================================================
