---------------------------- MODULE MarketConfig ----------------------------
(***************************************************************************)
(* The configuration of the three markets loadPoolConfig knows             *)
(* (src/markets/aave, amm and matic), as far as the deployment scripts     *)
(* act on it: which reserves a market has and how they are to be           *)
(* configured, what the rate oracle is to be told, and which contracts a   *)
(* network already has.  A network is named by its key in those files.     *)
(***************************************************************************)
EXTENDS Integers, Sequences, FiniteSets, TLC

Networks == {"kovan", "ropsten", "main", "tenderlyMain", "matic", "mumbai"}

MarketNames == {"Aave", "Amm", "Matic"}

(***************************************************************************)
(* IReserveParams.  Percentages are in basis points; an ltv of -1 marks a  *)
(* reserve that is never configured.                                       *)
(***************************************************************************)
Reserve(strategy, ltv, threshold, bonus, borrowing, stable, factor, decimals, aToken) ==
  [strategy |-> strategy, baseLTVAsCollateral |-> ltv, liquidationThreshold |-> threshold,
   liquidationBonus |-> bonus, borrowingEnabled |-> borrowing,
   stableBorrowRateEnabled |-> stable, reserveFactor |-> factor,
   reserveDecimals |-> decimals, aTokenImpl |-> aToken]

(***************************************************************************)
(* IInterestRateStrategyParams, in thousandths of a ray.                   *)
(***************************************************************************)
Rates(optimal, base, variable1, variable2, stable1, stable2) ==
  [optimalUtilizationRate |-> optimal, baseVariableBorrowRate |-> base,
   variableRateSlope1 |-> variable1, variableRateSlope2 |-> variable2,
   stableRateSlope1 |-> stable1, stableRateSlope2 |-> stable2]

Everywhere(symbols, rate) == [s \in symbols |-> rate]

(***************************************************************************)
(* The Aave market.                                                        *)
(***************************************************************************)
AaveStablecoins ==
  [BUSD |-> Reserve("StableOne", 0, 0, 0, TRUE, FALSE, 1000, 18, "AToken"),
   DAI |-> Reserve("StableTwo", 7500, 8000, 10500, TRUE, TRUE, 1000, 18, "AToken"),
   SUSD |-> Reserve("StableOne", 0, 0, 0, TRUE, FALSE, 2000, 18, "AToken"),
   TUSD |-> Reserve("StableTwo", 7500, 8000, 10500, TRUE, TRUE, 1000, 18, "AToken"),
   USDC |-> Reserve("StableThree", 8000, 8500, 10500, TRUE, TRUE, 1000, 6, "AToken"),
   USDT |-> Reserve("StableThree", 8000, 8500, 10500, TRUE, TRUE, 1000, 6, "AToken")]

AaveTokens1 ==
  [AAVE |-> Reserve("AAVE", 5000, 6500, 11000, FALSE, FALSE, 0, 18, "AToken"),
   BAT |-> Reserve("VolatileOne", 7000, 7500, 11000, TRUE, TRUE, 2000, 18, "AToken"),
   ENJ |-> Reserve("VolatileOne", 5500, 6000, 11000, TRUE, TRUE, 2000, 18, "AToken"),
   WETH |-> Reserve("WETH", 8000, 8250, 10500, TRUE, TRUE, 1000, 18, "AToken"),
   KNC |-> Reserve("VolatileTwo", 6000, 6500, 11000, TRUE, TRUE, 2000, 18, "AToken"),
   LINK |-> Reserve("VolatileOne", 7000, 7500, 11000, TRUE, TRUE, 2000, 18, "AToken"),
   MANA |-> Reserve("VolatileOne", 6000, 6500, 11000, TRUE, TRUE, 3500, 18, "AToken"),
   MKR |-> Reserve("VolatileOne", 6000, 6500, 11000, TRUE, TRUE, 2000, 18, "AToken"),
   REN |-> Reserve("VolatileOne", 5500, 6000, 11000, TRUE, TRUE, 2000, 18, "AToken")]

AaveTokens2 ==
  [SNX |-> Reserve("VolatileThree", 1500, 4000, 11000, TRUE, FALSE, 3500, 18, "AToken"),
   UNI |-> Reserve("VolatileThree", 6000, 6500, 11000, FALSE, FALSE, 2000, 18, "DelegationAwareAToken"),
   WBTC |-> Reserve("VolatileTwo", 7000, 7500, 11000, TRUE, TRUE, 2000, 8, "AToken"),
   YFI |-> Reserve("VolatileOne", 4000, 5500, 11500, TRUE, TRUE, 2000, 18, "AToken"),
   ZRX |-> Reserve("VolatileOne", 6000, 6500, 11000, TRUE, TRUE, 2000, 18, "AToken"),
   xSUSHI |-> Reserve("VolatileFour", 2500, 4500, 11500, TRUE, FALSE, 3500, 18, "AToken")]

\* The order is that of the market's ReservesConfig: reserves are configured in it.
AaveReserves ==
  [order |->
     <<"AAVE", "BAT", "BUSD", "DAI", "ENJ", "KNC", "LINK", "MANA", "MKR",
      "REN", "SNX", "SUSD", "TUSD", "UNI", "USDC", "USDT", "WBTC", "WETH",
      "YFI", "ZRX", "xSUSHI">>,
   params |-> AaveStablecoins @@ AaveTokens1 @@ AaveTokens2]

AaveStrategies ==
  [StableOne |-> Rates(800, 0, 40, 1000, 0, 0),
   StableTwo |-> Rates(800, 0, 40, 750, 20, 750),
   StableThree |-> Rates(900, 0, 40, 600, 20, 600),
   WETH |-> Rates(650, 0, 80, 1000, 100, 1000),
   AAVE |-> Rates(450, 0, 0, 0, 0, 0),
   VolatileOne |-> Rates(450, 0, 70, 3000, 100, 3000),
   VolatileTwo |-> Rates(650, 0, 80, 3000, 100, 3000),
   VolatileThree |-> Rates(650, 0, 80, 3000, 100, 3000),
   VolatileFour |-> Rates(450, 0, 70, 3000, 0, 0)]

AaveBorrowRates ==
  Everywhere({"WETH", "BAT", "AAVE", "LINK", "KNC", "MKR", "MANA", "WBTC", "ZRX", "SNX",
              "YFI", "REN", "UNI", "ENJ"}, 30)
    @@ Everywhere({"TUSD", "SUSD", "USDT"}, 35) @@ Everywhere({"DAI", "USDC"}, 39)
    @@ Everywhere({"BUSD"}, 50)

\* The symbols a network's ReserveAssets give an address (ropsten's AAVE is empty).
AaveAssets ==
  LET listed == DOMAIN AaveReserves.params
  IN  [kovan |-> listed \ {"xSUSHI"}, ropsten |-> listed \ {"xSUSHI", "AAVE"},
       main |-> listed, tenderlyMain |-> listed]

\* ProviderRegistry and its owner; PoolAdmin is unset everywhere.
AaveRegistry == {"kovan", "main", "tenderlyMain"}

\* The networks on which a contract is configured and therefore not deployed.
AaveContracts ==
  [LendingRateOracle |-> {"ropsten", "tenderlyMain"},
   LendingPoolCollateralManager |-> {"kovan", "main", "tenderlyMain"},
   LendingPoolConfigurator |-> {}, LendingPool |-> {}, WETHGateway |-> {},
   AaveOracle |-> {"tenderlyMain"}]

\* The symbols a network lists a Chainlink aggregator for, some of them empty.
AaveAggregators ==
  [n \in DOMAIN AaveAssets |-> (AaveAssets[n] \cup {"AAVE", "USD"}) \ {"WETH"}]

AaveWrappedNativeToken == {"kovan", "ropsten", "main", "tenderlyMain"}

(***************************************************************************)
(* The AMM market.                                                         *)
(***************************************************************************)
AmmTokens ==
  [WETH |-> Reserve("BaseOne", 8000, 8250, 10500, TRUE, FALSE, 1000, 18, "AToken"),
   WBTC |-> Reserve("BaseOne", 7000, 7500, 11000, TRUE, FALSE, 2000, 8, "AToken"),
   DAI |-> Reserve("Stable", 7500, 8000, 10500, TRUE, FALSE, 1000, 18, "AToken"),
   USDC |-> Reserve("Stable", 8000, 8500, 10500, TRUE, FALSE, 1000, 6, "AToken"),
   USDT |-> Reserve("Stable", -1, 8500, 10500, TRUE, FALSE, 1000, 6, "AToken"),
   UniDAIWETH |-> Reserve("AmmBase", 6000, 7000, 11500, TRUE, FALSE, 1000, 18, "AToken"),
   UniWBTCWETH |-> Reserve("AmmBase", 6000, 7000, 11500, TRUE, FALSE, 1500, 18, "AToken"),
   UniAAVEWETH |-> Reserve("AmmBase", 6000, 7000, 11500, TRUE, FALSE, 500, 18, "AToken"),
   UniBATWETH |-> Reserve("AmmBase", 6000, 7000, 11500, TRUE, FALSE, 1500, 18, "AToken"),
   UniDAIUSDC |-> Reserve("AmmBase", 6000, 7000, 11500, TRUE, FALSE, 1000, 18, "AToken")]

AmmPairs ==
  [UniCRVWETH |-> Reserve("AmmBase", 5000, 6000, 11500, TRUE, FALSE, 1500, 18, "AToken"),
   UniLINKWETH |-> Reserve("AmmBase", 6000, 7000, 11500, TRUE, FALSE, 1500, 18, "AToken"),
   UniMKRWETH |-> Reserve("AmmBase", 6000, 7000, 11500, TRUE, FALSE, 1500, 18, "AToken"),
   UniRENWETH |-> Reserve("AmmBase", 6000, 7000, 11500, TRUE, FALSE, 1500, 18, "AToken"),
   UniSNXWETH |-> Reserve("AmmBase", 4000, 6000, 11500, TRUE, FALSE, 2000, 18, "AToken"),
   UniUNIWETH |-> Reserve("AmmBase", 6000, 7000, 11500, TRUE, FALSE, 1500, 18, "AToken"),
   UniUSDCWETH |-> Reserve("AmmBase", 6000, 7000, 11500, TRUE, FALSE, 1000, 18, "AToken"),
   UniWBTCUSDC |-> Reserve("AmmBase", 6000, 7000, 11500, TRUE, FALSE, 1500, 18, "AToken"),
   UniYFIWETH |-> Reserve("AmmBase", 5000, 6000, 11500, TRUE, FALSE, 1500, 18, "AToken"),
   BptWBTCWETH |-> Reserve("AmmBase", 6000, 7000, 11500, TRUE, FALSE, 1500, 18, "AToken"),
   BptBALWETH |-> Reserve("AmmBase", 6000, 7000, 11500, TRUE, FALSE, 1500, 18, "AToken")]

AmmReserves ==
  [order |->
     <<"WETH", "DAI", "USDC", "USDT", "WBTC", "UniDAIWETH", "UniWBTCWETH",
      "UniAAVEWETH", "UniBATWETH", "UniDAIUSDC", "UniCRVWETH", "UniLINKWETH",
      "UniMKRWETH", "UniRENWETH", "UniSNXWETH", "UniUNIWETH", "UniUSDCWETH",
      "UniWBTCUSDC", "UniYFIWETH", "BptWBTCWETH", "BptBALWETH">>,
   params |-> AmmTokens @@ AmmPairs]

AmmStrategies ==
  [AmmBase |-> Rates(450, 30, 100, 3000, 100, 3000),
   BaseOne |-> Rates(650, 0, 80, 1000, 100, 1000),
   Stable |-> Rates(800, 0, 40, 750, 20, 600)]

AmmBorrowRates ==
  Everywhere({"WETH", "WBTC"}, 30) @@ Everywhere({"USDT"}, 35)
    @@ Everywhere({"DAI", "USDC"}, 39)
    @@ Everywhere(DOMAIN AmmReserves.params \ {"WETH", "WBTC", "USDT", "DAI", "USDC"}, 50)

AmmAssets ==
  LET listed == DOMAIN AmmReserves.params
  IN  [kovan |-> listed, ropsten |-> {}, main |-> listed, tenderlyMain |-> listed]

AmmRegistry == {"kovan", "main", "tenderlyMain"}

AmmContracts ==
  [LendingRateOracle |-> {"kovan", "ropsten", "tenderlyMain"},
   LendingPoolCollateralManager |-> {"kovan", "main", "tenderlyMain"},
   LendingPoolConfigurator |-> {"kovan"}, LendingPool |-> {"kovan"},
   WETHGateway |-> {"kovan"}, AaveOracle |-> {"kovan", "tenderlyMain"}]

AmmAggregators ==
  [n \in DOMAIN AmmAssets |->
     IF AmmAssets[n] = {} THEN {} ELSE (AmmAssets[n] \cup {"USD"}) \ {"WETH"}]

AmmWrappedNativeToken == {"kovan", "ropsten", "main", "tenderlyMain"}

(***************************************************************************)
(* The Polygon market.                                                     *)
(***************************************************************************)
MaticTokens ==
  [DAI |-> Reserve("StableTwo", 7500, 8000, 10500, TRUE, FALSE, 1000, 18, "AToken"),
   USDC |-> Reserve("StableThree", 8000, 8500, 10500, TRUE, FALSE, 1000, 6, "AToken"),
   USDT |-> Reserve("StableThree", 0, 0, 0, TRUE, FALSE, 1000, 6, "AToken"),
   WETH |-> Reserve("WETH", 8000, 8250, 10500, TRUE, FALSE, 1000, 18, "AToken"),
   WBTC |-> Reserve("VolatileTwo", 7000, 7500, 11000, TRUE, FALSE, 2000, 8, "AToken"),
   WMATIC |-> Reserve("VolatileOne", 5000, 6500, 11000, TRUE, FALSE, 2000, 18, "AToken"),
   AAVE |-> Reserve("AAVE", 5000, 6500, 11000, FALSE, FALSE, 0, 18, "AToken")]

MaticReserves ==
  [order |-> <<"DAI", "USDC", "USDT", "WBTC", "WETH", "WMATIC", "AAVE">>,
   params |-> MaticTokens]

MaticStrategies ==
  [StableOne |-> Rates(800, 0, 40, 1000, 0, 0),
   StableTwo |-> Rates(800, 0, 40, 750, 20, 750),
   StableThree |-> Rates(900, 0, 40, 600, 20, 600),
   WETH |-> Rates(650, 0, 80, 1000, 100, 1000),
   AAVE |-> Rates(450, 0, 0, 0, 0, 0),
   VolatileOne |-> Rates(450, 0, 70, 3000, 100, 3000),
   VolatileTwo |-> Rates(650, 0, 80, 3000, 100, 3000),
   VolatileThree |-> Rates(650, 0, 80, 3000, 100, 3000)]

MaticBorrowRates ==
  Everywhere({"WETH", "WBTC", "AAVE"}, 30) @@ Everywhere({"USDT"}, 35)
    @@ Everywhere({"DAI", "USDC"}, 39) @@ Everywhere({"WMATIC"}, 50)

MaticAssets ==
  LET listed == DOMAIN MaticReserves.params
  IN  [matic |-> listed, mumbai |-> listed \ {"AAVE"}]

MaticRegistry == {"matic"}

MaticContracts ==
  [LendingRateOracle |-> {"matic"}, LendingPoolCollateralManager |-> {},
   LendingPoolConfigurator |-> {}, LendingPool |-> {}, WETHGateway |-> {},
   AaveOracle |-> {"matic"}]

\* mumbai's list has no USD.
MaticAggregators ==
  [matic |-> (MaticAssets["matic"] \cup {"USD"}) \ {"WETH"},
   mumbai |-> MaticAssets["mumbai"] \ {"WETH"}]

MaticWrappedNativeToken == {"matic"}

(***************************************************************************)
(* loadPoolConfig: a market by name.                                       *)
(***************************************************************************)
loadPoolConfig(name) ==
  CASE name = "Aave" ->
         [ReservesConfig |-> AaveReserves, Strategies |-> AaveStrategies,
          LendingRateOracleRates |-> AaveBorrowRates, ReserveAssets |-> AaveAssets,
          ProviderRegistry |-> AaveRegistry, Contracts |-> AaveContracts,
          ChainlinkAggregator |-> AaveAggregators,
          WrappedNativeToken |-> AaveWrappedNativeToken]
    [] name = "Amm" ->
         [ReservesConfig |-> AmmReserves, Strategies |-> AmmStrategies,
          LendingRateOracleRates |-> AmmBorrowRates, ReserveAssets |-> AmmAssets,
          ProviderRegistry |-> AmmRegistry, Contracts |-> AmmContracts,
          ChainlinkAggregator |-> AmmAggregators,
          WrappedNativeToken |-> AmmWrappedNativeToken]
    [] name = "Matic" ->
         [ReservesConfig |-> MaticReserves, Strategies |-> MaticStrategies,
          LendingRateOracleRates |-> MaticBorrowRates, ReserveAssets |-> MaticAssets,
          ProviderRegistry |-> MaticRegistry, Contracts |-> MaticContracts,
          ChainlinkAggregator |-> MaticAggregators,
          WrappedNativeToken |-> MaticWrappedNativeToken]

\* getParamPerNetwork is undefined for a network the market does not name.
Supports(market, network) == network \in DOMAIN market.ReserveAssets

\* getPairsTokenAggregator destructures a missing aggregator, which throws.
HasAllAggregators(market, network) ==
  /\ Supports(market, network)
  /\ (market.ReserveAssets[network] \cup {"USD"}) \ {"WETH"}
       \subseteq market.ChainlinkAggregator[network]

\* getLendingRateOracles: the market's rates for the assets the network has.
getLendingRateOracles(market, network) ==
  DOMAIN market.LendingRateOracleRates \cap market.ReserveAssets[network]

(***************************************************************************)
(* The places, in the order of the file, of the reserves that a network    *)
(* has an address for and that are to be configured.                       *)
(***************************************************************************)
ReserveAt(market, i) == market.ReservesConfig.order[i]

Configurable(market, assets) ==
  {i \in DOMAIN market.ReservesConfig.order :
     /\ ReserveAt(market, i) \in assets
     /\ market.ReservesConfig.params[ReserveAt(market, i)].baseLTVAsCollateral # -1}

(***************************************************************************)
(* The order of a file names every reserve of it once, and only assets of  *)
(* a finite list have a rate.                                              *)
(***************************************************************************)
ASSUME MarketDataAssumption ==
  \A m \in MarketNames :
    LET market == loadPoolConfig(m)
        order  == market.ReservesConfig.order
    IN  /\ order \in Seq(DOMAIN market.ReservesConfig.params)
        /\ \A s \in DOMAIN market.ReservesConfig.params : \E i \in DOMAIN order : order[i] = s
        /\ \A i, j \in DOMAIN order : order[i] = order[j] => i = j
        /\ IsFiniteSet(DOMAIN market.LendingRateOracleRates)

(***************************************************************************)
(* What initReservesByHelper passes to batchInitReserve, whatever market   *)
(* and assets it is called with: five literal batches.  A row is reduced   *)
(* to its interest rate strategy, its decimals and its aToken, contracts   *)
(* being named by how their addresses start.                               *)
(***************************************************************************)
InitInput(strategy, decimals, aToken) ==
  [interestRateStrategyAddress |-> strategy, underlyingAssetDecimals |-> decimals,
   aTokenImpl |-> aToken]

InitChunk1 ==
  [LINK |-> InitInput("0x3eB4", 18, "0x36E8"),
   MANA |-> InitInput("0x3eB4", 18, "0x36E8"),
   MKR |-> InitInput("0x3eB4", 18, "0x36E8")]

InitChunk2 ==
  [REN |-> InitInput("0x3eB4", 18, "0x36E8"),
   SNX |-> InitInput("0xcB65", 18, "0x36E8"),
   SUSD |-> InitInput("0x5eC7", 18, "0x36E8")]

InitChunk3 ==
  [TUSD |-> InitInput("0x70A3", 18, "0x36E8"),
   UNI |-> InitInput("0xcB65", 18, "0xd614"),
   USDC |-> InitInput("0x672e", 6, "0x36E8")]

InitChunk4 ==
  [USDT |-> InitInput("0x672e", 6, "0x36E8"),
   WBTC |-> InitInput("0x0bcE", 8, "0x36E8"),
   WETH |-> InitInput("0xc29D", 18, "0x36E8")]

InitChunk5 ==
  [YFI |-> InitInput("0x3eB4", 18, "0x36E8"),
   ZRX |-> InitInput("0x3eB4", 18, "0x36E8"),
   xSUSHI |-> InitInput("0x7eb1", 18, "0x36E8")]

chunkedInitInputParams == <<InitChunk1, InitChunk2, InitChunk3, InitChunk4, InitChunk5>>

(***************************************************************************)
(* The literal rows were written for the Aave market: decimals are those   *)
(* of its configuration, and two rows share a strategy, or an aToken,      *)
(* exactly when their reserves do.                                         *)
(***************************************************************************)
ASSUME LiteralRowsAgree ==
  LET rows == InitChunk1 @@ InitChunk2 @@ InitChunk3 @@ InitChunk4 @@ InitChunk5
      params == AaveReserves.params
  IN  \A s, t \in DOMAIN rows :
        /\ rows[s].underlyingAssetDecimals = params[s].reserveDecimals
        /\ (rows[s].interestRateStrategyAddress = rows[t].interestRateStrategyAddress)
             <=> (params[s].strategy = params[t].strategy)
        /\ (rows[s].aTokenImpl = rows[t].aTokenImpl)
             <=> (params[s].aTokenImpl = params[t].aTokenImpl)

=============================================================================
