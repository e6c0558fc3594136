----------------------------- MODULE Deployment -----------------------------
(***************************************************************************)
(* The programs of DeploymentScripts at work: the process that executes    *)
(* one, the chain, the file deployed-contracts.json, and the users of a    *)
(* market that is already listed while its deployment goes on.             *)
(***************************************************************************)
EXTENDS DeploymentScripts

VARIABLES
  env,          \* the environment, an element of Environments
  db,           \* deployed-contracts.json: the last contract of each kind
  addresses,    \* addresses[p]: the address table of the provider of market p
  listed,       \* listed[p]: reserves of market p, all of them from the literal rows
  configured,   \* configured[p]: tokens with collateral parameters, as <<symbol, where from>>
  deposited,    \* deposited[p]: reserves of p users have deposited in
  rateOwner,    \* rateOwner[r]: owner of the rate oracle deployed by run r
  registered,   \* markets whose provider a registry lists
  mempool,      \* authorizations sent and not mined
  authorised,   \* <<gateway, market>>: pools a gateway may use
  run,          \* the number of the current or last script run
  script,       \* its name
  program,      \* the statements it has yet to execute
  status,       \* "idle", "running", "done", "failed" or "crashed"
  admin,        \* what the run has read as the pool admin
  inputs        \* the batches of tokens the run has yet to configure

chainVars == <<addresses, listed, configured, deposited, rateOwner, registered, authorised>>
processVars == <<run, script, status, admin, inputs>>
vars == <<env, db, chainVars, mempool, processVars, program>>

DbIds ==
  {"LendingPoolAddressesProvider", "LendingPoolAddressesProviderRegistry", "LendingPool",
   "LendingPoolConfigurator", "StableAndVariableTokensHelper", "ATokensAndRatesHelper",
   "AaveOracle", "LendingRateOracle", "AaveProtocolDataProvider", "WETHGateway",
   "LendingPoolCollateralManager", "WalletBalanceProvider", "MockTokens"}

\* Contracts whose constructor is given the market the file names.
BoundIds == {"StableAndVariableTokensHelper", "ATokensAndRatesHelper", "AaveProtocolDataProvider"}

(***************************************************************************)
(* Symbols whose configuration needs an empty reserve: threshold 0.        *)
(***************************************************************************)
NoCollateralSymbols ==
  {s \in UNION {DOMAIN chunkedInitInputParams[i] : i \in DOMAIN chunkedInitInputParams} :
     AaveReserves.params[s].liquidationThreshold = 0}

Init ==
  /\ env \in Environments
  /\ db = [i \in DbIds |->
             IF i = "MockTokens" /\ env.ownTokens THEN Contract(i, 0, 0) ELSE None]
  /\ addresses = [p \in Runs |-> EmptyAddresses]
  /\ listed = [p \in Runs |-> {}]
  /\ configured = [p \in Runs |-> {}]
  /\ deposited = [p \in Runs |-> {}]
  /\ rateOwner = [r \in Runs |-> None]
  /\ registered = {} /\ mempool = {} /\ authorised = {}
  /\ run = 0 /\ script = "none" /\ program = <<>> /\ status = "idle"
  /\ admin = None /\ inputs = <<>>

(***************************************************************************)
(* The contracts a run works on are those the file names, whoever wrote    *)
(* them there.  Market is that of the provider, 0 if there is none.        *)
(***************************************************************************)
Market == db["LendingPoolAddressesProvider"].market
Configurator == db["LendingPoolConfigurator"]
Helper == db["ATokensAndRatesHelper"]
RatesHelper == db["StableAndVariableTokensHelper"]

Op == program[1].op
Arg == program[1].arg
Running(op) == program # <<>> /\ Op = op

Params(s) == MarketOf(script).ReservesConfig.params[s]

\* The tokens configured under a symbol: the market's assets, or the mock tokens.
Token(s) ==
  <<s, IF Arg = "assets" THEN "assets"
       ELSE IF env.ownTokens THEN "literal" ELSE "mocks">>

(***************************************************************************)
(* What the configurator requires of one reserve.  Only a listed reserve   *)
(* can hold liquidity, and the listed ones are at the literal addresses.   *)
(***************************************************************************)
CanConfigureReserve(p, token) ==
  LET r == Params(token[1])
  IN  /\ r.baseLTVAsCollateral <= r.liquidationThreshold
      /\ IF r.liquidationThreshold # 0
         THEN /\ r.liquidationBonus > 10000
              /\ (r.liquidationThreshold * r.liquidationBonus + 5000) \div 10000 <= 10000
         ELSE /\ r.liquidationBonus = 0
              /\ token[2] = "literal" => token[1] \notin deposited[p]

(***************************************************************************)
(* Whether the statement at hand goes through: otherwise the transaction   *)
(* reverts, or the script throws, and the run is over.                     *)
(***************************************************************************)
Succeeds ==
  CASE Op = "fail" -> FALSE
    [] Op = "require" -> db[Arg] # None
    [] Op = "deploy" -> Arg \in BoundIds => Market # 0
    [] Op = "appoint" -> Market # 0
    [] Op = "setAddress" -> Market # 0
    [] Op = "register" -> Market # 0
    [] Op = "setImpl" -> Market # 0 /\ CanUpdateImpl(addresses[Market], Arg)
    [] Op = "readAdmin" -> Market # 0
    [] Op = "transferOwnership" -> RatesHelper # None /\ rateOwner[run] = Deployer
    [] Op = "setRates" -> rateOwner[run] = RatesHelper
    [] Op = "setOracleOwnership" -> rateOwner[run] = RatesHelper /\ admin # None
    [] Op = "initReserves" ->
         /\ env.frozenCode
         /\ Configurator.market # 0
         /\ addresses[Configurator.market]["POOL_ADMIN"] = Deployer
         /\ DOMAIN chunkedInitInputParams[Arg] \cap listed[Configurator.market] = {}
    [] Op = "readInputs" ->
         /\ db["AaveProtocolDataProvider"] # None
         /\ addresses[db["AaveProtocolDataProvider"].market]["LENDING_POOL"] # None
    [] Op = "lend" -> Market # 0 /\ Helper # None
    [] Op = "configure" ->
         /\ addresses[Helper.market]["POOL_ADMIN"] = Helper
         /\ \A token \in Head(inputs) : CanConfigureReserve(Helper.market, token)
    [] Op = "authorize" -> Arg = "configured" \/ db["WETHGateway"] # None
    [] OTHER -> TRUE

Statement(op) == Running(op) /\ Succeeds
Advance == program' = Tail(program)

Setting(p, id, a) == addresses' = [addresses EXCEPT ![p] = setAddress(@, id, a)]

(***************************************************************************)
(* Statements that only look at the file, or read the pool admin.          *)
(***************************************************************************)
Require ==
  /\ Statement("require")
  /\ Advance
  /\ UNCHANGED <<env, db, chainVars, mempool, processVars>>

ReadAdmin ==
  /\ \/ Statement("genesisAdmin") /\ admin' = Deployer
     \/ Statement("readAdmin") /\ admin' = addresses[Market]["POOL_ADMIN"]
  /\ Advance
  /\ UNCHANGED <<env, db, chainVars, mempool, run, script, status, inputs>>

(***************************************************************************)
(* withSaveAndVerify: a contract is created and named in the file.         *)
(***************************************************************************)
Deploy ==
  /\ Statement("deploy")
  /\ db' = [db EXCEPT ![Arg] =
              Contract(Arg, run, IF Arg = "LendingPoolAddressesProvider" THEN run
                                 ELSE IF Arg \in BoundIds THEN Market ELSE 0)]
  /\ rateOwner' = IF Arg = "LendingRateOracle"
                  THEN [rateOwner EXCEPT ![run] = Deployer] ELSE rateOwner
  /\ Advance
  /\ UNCHANGED <<env, addresses, listed, configured, deposited, registered, authorised,
                 mempool, processVars>>

\* insertContractAddressInDb, with the proxy the provider has just created.
SaveProxy ==
  /\ Statement("saveProxy")
  /\ db' = [db EXCEPT ![Arg] = Contract(Arg, Market, Market)]
  /\ Advance
  /\ UNCHANGED <<env, chainVars, mempool, processVars>>

(***************************************************************************)
(* Transactions to the provider and the registry.                          *)
(***************************************************************************)
\* Mutant: the implementation is named where its proxy belongs.
SetImplementationAddress ==
  /\ \/ Statement("appoint") /\ Setting(Market, Arg, Deployer)
     \/ Statement("setAddress") /\ Setting(Market, Arg, Contract(Arg, run, 0))
     \/ Statement("setImpl") /\ Setting(Market, Arg, db["LendingPoolConfigurator"])
  /\ Advance
  /\ UNCHANGED <<env, db, listed, configured, deposited, rateOwner, registered, authorised,
                 mempool, processVars>>

SetProviderAddress ==
  /\ \/ Statement("appoint") /\ Setting(Market, Arg, Deployer)
     \/ Statement("setAddress") /\ Setting(Market, Arg, Contract(Arg, run, 0))
     \/ Statement("setImpl") /\ Setting(Market, Arg, Contract(Arg, Market, Market))
  /\ Advance
  /\ UNCHANGED <<env, db, listed, configured, deposited, rateOwner, registered, authorised,
                 mempool, processVars>>

Register ==
  /\ Statement("register")
  /\ registered' = registered \cup {Market}
  /\ Advance
  /\ UNCHANGED <<env, db, addresses, listed, configured, deposited, rateOwner, authorised,
                 mempool, processVars>>

(***************************************************************************)
(* The rate oracle is handed to the helper, told the rates and handed on.  *)
(***************************************************************************)
RateOracle ==
  /\ \/ Statement("transferOwnership") /\ rateOwner' = [rateOwner EXCEPT ![run] = RatesHelper]
     \/ Statement("setRates") /\ UNCHANGED rateOwner
     \/ Statement("setOracleOwnership") /\ rateOwner' = [rateOwner EXCEPT ![run] = admin]
  /\ Advance
  /\ UNCHANGED <<env, db, addresses, listed, configured, deposited, registered, authorised,
                 mempool, processVars>>

(***************************************************************************)
(* initReservesByHelper: one batchInitReserve per literal chunk.           *)
(***************************************************************************)
InitReserves ==
  /\ Statement("initReserves")
  /\ listed' = [listed EXCEPT ![Configurator.market] = @ \cup DOMAIN chunkedInitInputParams[Arg]]
  /\ Advance
  /\ UNCHANGED <<env, db, addresses, configured, deposited, rateOwner, registered, authorised,
                 mempool, processVars>>

(***************************************************************************)
(* configureReservesByHelper.                                              *)
(***************************************************************************)
AlreadyEnabled(s) ==
  /\ Params(s).liquidationThreshold > 0
  /\ Token(s) \in configured[db["AaveProtocolDataProvider"].market]

(***************************************************************************)
(* configureReserves takes 20 reserves at a time, in the order of the      *)
(* file.  (Less than 20 reserves come before each of the first 20.)        *)
(***************************************************************************)
Batches(places) ==
  LET number(i) == IF i <= 20 THEN 1 ELSE Cardinality({j \in places : j < i}) \div 20 + 1
      batch(n)  == {i \in places : number(i) = n}
  IN  [n \in 1 .. (Cardinality(places) + 19) \div 20 |->
         {Token(ReserveAt(MarketOf(script), i)) : i \in batch(n)}]

ReadInputs ==
  /\ Statement("readInputs")
  /\ LET market == MarketOf(script)
         assets == IF Arg = "assets" THEN market.ReserveAssets[env.network]
                   ELSE DOMAIN market.ReservesConfig.params
         places == {i \in Configurable(market, assets) : ~AlreadyEnabled(ReserveAt(market, i))}
     IN  /\ inputs' = Batches(places)
         /\ program' = IF places = {} THEN SubSeq(program, 5, Len(program)) ELSE Tail(program)
  /\ UNCHANGED <<env, db, chainVars, mempool, run, script, status, admin>>

Lend ==
  /\ Statement("lend")
  /\ Setting(Market, "POOL_ADMIN", Helper)
  /\ Advance
  /\ UNCHANGED <<env, db, listed, configured, deposited, rateOwner, registered, authorised,
                 mempool, processVars>>

\* Mutant: the batches do not get on.
ConfigureOneBatchForEver ==
  /\ Statement("configure")
  /\ configured' = [configured EXCEPT ![Helper.market] = @ \cup Head(inputs)]
  /\ UNCHANGED <<env, db, addresses, listed, deposited, rateOwner, registered, authorised,
                 mempool, processVars, program>>

Configure ==
  /\ Statement("configure")
  /\ configured' = [configured EXCEPT ![Helper.market] = @ \cup Head(inputs)]
  /\ inputs' = Tail(inputs)
  /\ program' = IF inputs' = <<>> THEN Tail(program) ELSE program
  /\ UNCHANGED <<env, db, addresses, listed, deposited, rateOwner, registered, authorised,
                 mempool, run, script, status, admin>>

\* Mutant: the administration goes to the other helper.
ReturnToRatesHelper ==
  /\ Statement("return")
  /\ Setting(Market, "POOL_ADMIN", RatesHelper)
  /\ Advance
  /\ UNCHANGED <<env, db, listed, configured, deposited, rateOwner, registered, authorised,
                 mempool, processVars>>

Return ==
  /\ Statement("return")
  /\ Setting(Market, "POOL_ADMIN", admin)
  /\ Advance
  /\ UNCHANGED <<env, db, listed, configured, deposited, rateOwner, registered, authorised,
                 mempool, processVars>>

(***************************************************************************)
(* authorizeWETHGateway is sent but not waited for.                        *)
(***************************************************************************)
Authorization ==
  <<IF Arg = "configured" THEN Contract("WETHGateway", 0, 0) ELSE db["WETHGateway"], Market>>

SendAuthorization ==
  /\ Statement("authorize")
  /\ mempool' = mempool \cup {Authorization}
  /\ Advance
  /\ UNCHANGED <<env, db, chainVars, processVars>>

Mine ==
  /\ mempool # {}
  /\ authorised' = authorised \cup mempool
  /\ mempool' = {}
  /\ UNCHANGED <<env, db, addresses, listed, configured, deposited, rateOwner, registered,
                 processVars, program>>

(***************************************************************************)
(* The process.                                                            *)
(***************************************************************************)
Ends(result) ==
  /\ status = "running"
  /\ status' = result
  /\ script' = "none" /\ program' = <<>> /\ admin' = None /\ inputs' = <<>>
  /\ UNCHANGED <<env, db, chainVars, mempool, run>>

Finish == program = <<>> /\ Ends("done")
Throw == program # <<>> /\ ~Succeeds /\ Ends("failed")
Crash == Ends("crashed")

Start ==
  /\ status # "running"
  /\ run < MaxRuns
  /\ run' = run + 1
  /\ script' \in Scripts
  /\ program' = Program(script', env)
  /\ status' = "running"
  /\ UNCHANGED <<env, db, chainVars, mempool, admin, inputs>>

\* A reserve takes deposits as soon as it is listed.
Deposit ==
  \E p \in Runs, s \in NoCollateralSymbols :
    /\ s \in listed[p] \ deposited[p]
    /\ deposited' = [deposited EXCEPT ![p] = @ \cup {s}]
    /\ UNCHANGED <<env, db, addresses, listed, configured, rateOwner, registered, authorised,
                   mempool, processVars, program>>

Step ==
  \/ Require \/ ReadAdmin \/ Deploy \/ SaveProxy \/ SetProviderAddress \/ Register
  \/ RateOracle \/ InitReserves \/ ReadInputs \/ Lend \/ Configure \/ Return
  \/ SendAuthorization \/ Finish \/ Throw

Next == Step \/ Mine \/ Crash \/ Start \/ Deposit

(***************************************************************************)
(* A script that does not stop takes its next step: each waits for one     *)
(* transaction, or one write, at a time.  Nothing else has to happen; even *)
(* the authorization, which no script waits for, may stay unmined.         *)
(***************************************************************************)
Fairness == WF_vars(Step)

Spec == Init /\ [][Next]_vars /\ Fairness

=============================================================================
