------------------------- MODULE DeploymentScripts -------------------------
(***************************************************************************)
(* The deployment scripts (src/tasks/migrations and the tasks they run)    *)
(* as programs of transactions and of writes to deployed-contracts.json.   *)
(* One script runs at a time and may stop anywhere; another may be started *)
(* afterwards, and finds the chain and the file as they were left.         *)
(***************************************************************************)
EXTENDS MarketConfig, AddressesProvider

CONSTANTS
  MaxRuns,          \* bound: how often a script is started
  TargetNetworks,   \* the networks of this instance, a subset of Networks
  Scripts           \* the scripts of this instance

ASSUME DeploymentAssumption ==
  /\ MaxRuns \in Nat
  /\ TargetNetworks \subseteq Networks
  /\ Scripts \subseteq {"amm:mainnet", "sidechain:mainnet", "aave:mainnet", "aave:dev", "dev:all"}

Runs == 1 .. MaxRuns

(***************************************************************************)
(* What a behaviour takes for granted: the network; whether the addresses  *)
(* written into the scripts hold the author's contracts on it; whether the *)
(* deployer is the configured owner of the registry and of the configured  *)
(* WETH gateway; the flag --skip-registry; and whether the file already    *)
(* names mock tokens, namely those whose addresses are in the scripts.     *)
(***************************************************************************)
Environments ==
  {e \in [network : TargetNetworks, frozenCode : BOOLEAN, owner : BOOLEAN,
          skipRegistry : BOOLEAN, ownTokens : BOOLEAN] : e.ownTokens => e.frozenCode}

(***************************************************************************)
(* Statements.                                                             *)
(***************************************************************************)
Stmt(op, arg) == [op |-> op, arg |-> arg]

Fail == <<Stmt("fail", "none")>>

Unless(given, statements) == IF given THEN <<>> ELSE statements

Given(market, id, e) == e.network \in market.Contracts[id]

FullAddressProviderRegistry(market, e) ==
  Unless(e.network \in market.ProviderRegistry,
         <<Stmt("deploy", "LendingPoolAddressesProviderRegistry")>>)

(***************************************************************************)
(* tasks/full: a registry that is not configured is deployed by a nested   *)
(* task that is not told the pool it requires.                             *)
(***************************************************************************)
AddMarketToRegistry(market, e) ==
  IF e.network \in market.ProviderRegistry /\ e.owner
  THEN <<Stmt("register", "none")>> ELSE Fail

\* Mutant: a provider named in the file is taken for this market's.
NamedAddressProvider(market, e) ==
  Unless(e.skipRegistry, AddMarketToRegistry(market, e))
    \o <<Stmt("appoint", "POOL_ADMIN"), Stmt("setAddress", "EMERGENCY_ADMIN")>>

FullAddressProvider(market, e) ==
  <<Stmt("deploy", "LendingPoolAddressesProvider")>>
    \o Unless(e.skipRegistry, AddMarketToRegistry(market, e))
    \o <<Stmt("appoint", "POOL_ADMIN"), Stmt("setAddress", "EMERGENCY_ADMIN")>>

PoolProxies(poolImpl, configuratorImpl) ==
  poolImpl
    \o <<Stmt("setImpl", "LENDING_POOL"), Stmt("saveProxy", "LendingPool")>>
    \o configuratorImpl
    \o <<Stmt("setImpl", "LENDING_POOL_CONFIGURATOR"),
         Stmt("saveProxy", "LendingPoolConfigurator"),
         Stmt("deploy", "StableAndVariableTokensHelper"),
         Stmt("deploy", "ATokensAndRatesHelper")>>

FullLendingPool(market, e) ==
  PoolProxies(
    Unless(Given(market, "LendingPool", e), <<Stmt("deploy", "LendingPool")>>),
    Unless(Given(market, "LendingPoolConfigurator", e),
           <<Stmt("deploy", "LendingPoolConfigurator")>>))

\* setInitialMarketRatesInRatesOracleByHelper, for n assets, 20 per transaction.
SetMarketRates(n) ==
  <<Stmt("transferOwnership", "none")>>
    \o [i \in 1 .. (n + 19) \div 20 |-> Stmt("setRates", "none")]
    \o <<Stmt("setOracleOwnership", "none")>>

FullOracles(market, e) ==
  IF ~HasAllAggregators(market, e.network) THEN Fail
  ELSE <<Stmt("genesisAdmin", "none")>>
         \o Unless(Given(market, "AaveOracle", e), <<Stmt("deploy", "AaveOracle")>>)
         \o Unless(Given(market, "LendingRateOracle", e),
                   <<Stmt("deploy", "LendingRateOracle")>>
                     \o SetMarketRates(Cardinality(getLendingRateOracles(market, e.network))))
         \o <<Stmt("setAddress", "PRICE_ORACLE"), Stmt("setAddress", "LENDING_RATE_ORACLE")>>

DataProvider == <<Stmt("deploy", "AaveProtocolDataProvider")>>

WethGateway(market, e) ==
  IF e.network = "main" /\ e.network \notin market.WrappedNativeToken THEN Fail
  ELSE <<Stmt("deploy", "WETHGateway")>>

\* Mutant: the last transaction is forgotten.
InitAndConfigureForGood(tokens) ==
  <<Stmt("require", "AaveProtocolDataProvider"), Stmt("readAdmin", "none"),
    Stmt("require", "StableAndVariableTokensHelper")>>
    \o [i \in DOMAIN chunkedInitInputParams |-> Stmt("initReserves", i)]
    \o <<Stmt("readInputs", tokens), Stmt("lend", "none"), Stmt("configure", "none"),
         Stmt("genesisAdmin", "none")>>

\* Mutant: the helper is appointed before the reserves are listed.
LendThenInitAndConfigure(tokens) ==
  <<Stmt("require", "AaveProtocolDataProvider"), Stmt("readAdmin", "none"), Stmt("lend", "none"),
    Stmt("require", "StableAndVariableTokensHelper")>>
    \o [i \in DOMAIN chunkedInitInputParams |-> Stmt("initReserves", i)]
    \o <<Stmt("readInputs", tokens), Stmt("lend", "none"), Stmt("configure", "none"),
         Stmt("return", "none")>>

(***************************************************************************)
(* initReservesByHelper, then configureReservesByHelper; readInputs jumps  *)
(* over the other three when there is nothing to configure.                *)
(***************************************************************************)
InitAndConfigure(tokens) ==
  <<Stmt("require", "AaveProtocolDataProvider"), Stmt("readAdmin", "none"),
    Stmt("require", "StableAndVariableTokensHelper")>>
    \o [i \in DOMAIN chunkedInitInputParams |-> Stmt("initReserves", i)]
    \o <<Stmt("readInputs", tokens), Stmt("lend", "none"), Stmt("configure", "none"),
         Stmt("return", "none")>>

Authorize(market, e) ==
  IF ~Given(market, "WETHGateway", e) THEN <<Stmt("authorize", "WETHGateway")>>
  ELSE IF e.owner THEN <<Stmt("authorize", "configured")>> ELSE Fail

FullInitialize(market, e) ==
  IF ~Supports(market, e.network) THEN Fail
  ELSE InitAndConfigure("assets")
         \o Unless(Given(market, "LendingPoolCollateralManager", e),
                   <<Stmt("deploy", "LendingPoolCollateralManager")>>)
         \o <<Stmt("setAddress", "LENDING_POOL_COLLATERAL_MANAGER"),
              Stmt("setAddress", "0x01"), Stmt("deploy", "WalletBalanceProvider")>>
         \o Authorize(market, e)

(***************************************************************************)
(* tasks/dev: the same market on mock tokens, with an implementation of    *)
(* the pool at a fixed address.                                            *)
(***************************************************************************)
DevMockTokens == <<Stmt("deploy", "MockTokens")>>

DevAddressProvider ==
  <<Stmt("deploy", "LendingPoolAddressesProvider"), Stmt("appoint", "POOL_ADMIN"),
    Stmt("setAddress", "EMERGENCY_ADMIN"),
    Stmt("deploy", "LendingPoolAddressesProviderRegistry"), Stmt("register", "none")>>

DevLendingPool(e) ==
  PoolProxies(Unless(e.frozenCode, Fail), <<Stmt("deploy", "LendingPoolConfigurator")>>)

DevOracles(market) ==
  <<Stmt("require", "MockTokens"), Stmt("readAdmin", "none"), Stmt("deploy", "AaveOracle"),
    Stmt("setAddress", "PRICE_ORACLE"), Stmt("deploy", "LendingRateOracle"),
    Stmt("setAddress", "LENDING_RATE_ORACLE")>>
    \o SetMarketRates(Cardinality(DOMAIN market.LendingRateOracleRates))

DevInitialize(market, e) ==
  <<Stmt("require", "MockTokens")>> \o InitAndConfigure("mocks")
    \o <<Stmt("deploy", "LendingPoolCollateralManager"),
         Stmt("setAddress", "LENDING_POOL_COLLATERAL_MANAGER"),
         Stmt("deploy", "WalletBalanceProvider")>>
    \o Authorize(market, e)

(***************************************************************************)
(* tasks/migrations as they stand: aave:mainnet and aave:dev have their    *)
(* first steps commented out.  dev:all is what a developer runs by hand to *)
(* the same end, the tasks of tasks/dev one after the other.               *)
(***************************************************************************)
MarketOf(script) ==
  loadPoolConfig(CASE script = "amm:mainnet" -> "Amm"
                   [] script = "sidechain:mainnet" -> "Matic"
                   [] OTHER -> "Aave")

FullMigration(market, e) ==
  FullAddressProvider(market, e) \o FullLendingPool(market, e) \o FullOracles(market, e)
    \o DataProvider \o WethGateway(market, e) \o FullInitialize(market, e)

AaveMainnet(market, e) ==
  DevOracles(market) \o DataProvider \o WethGateway(market, e) \o FullInitialize(market, e)

DevMigration(market, e) ==
  Unless(e.ownTokens, DevMockTokens) \o DevAddressProvider \o DevLendingPool(e)
    \o DevOracles(market) \o DataProvider \o WethGateway(market, e)
    \o DevInitialize(market, e)

Program(script, e) ==
  LET market == MarketOf(script)
  IN  CASE script = "amm:mainnet" -> FullMigration(market, e)
        [] script = "sidechain:mainnet" ->
             FullAddressProviderRegistry(market, e) \o FullMigration(market, e)
        [] script = "aave:mainnet" -> AaveMainnet(market, e)
        [] script = "aave:dev" -> DevInitialize(market, e)
        [] script = "dev:all" -> DevMigration(market, e)

\* The scripts that deploy a market of their own before they use one.
WholeScripts == {"amm:mainnet", "sidechain:mainnet", "dev:all"}

=============================================================================
