-------------------------- MODULE StableDebtLedger --------------------------
(***************************************************************************)
(* The ledger of StableDebtToken.sol.  Each borrower accrues at a rate of  *)
(* their own from a timestamp of their own; the total supply accrues       *)
(* separately, at the average rate, from a timestamp of its own.  The two  *)
(* computations round differently, and burn has two branches that give up  *)
(* on the difference by resetting the supply and the average rate to 0.    *)
(***************************************************************************)
EXTENDS IncentivizedERC20

StableLedger ==
  [balances : Balances, userRate : Balances,
   timestamps : Balances,
   totalSupply : Nat, avgStableRate : Nat, totalSupplyTimestamp : Nat]

EmptyStableLedger ==
  [balances |-> NoBalances, userRate |-> NoBalances,
   timestamps |-> NoBalances,
   totalSupply |-> 0, avgStableRate |-> 0, totalSupplyTimestamp |-> 0]

(***************************************************************************)
(* balanceOf(user), which is also the current balance of                   *)
(* _calculateBalanceIncrease, and totalSupply() = _calcTotalSupply().      *)
(***************************************************************************)
StableBalanceOf(token, user, now) ==
  IF token.balances[user] = 0 THEN 0
  ELSE rayMul(token.balances[user],
              calculateCompoundedInterest(token.userRate[user],
                                          token.timestamps[user], now))

StableSupplyAt(token, now) ==
  IF token.totalSupply = 0 THEN 0
  ELSE rayMul(token.totalSupply,
              calculateCompoundedInterest(token.avgStableRate,
                                          token.totalSupplyTimestamp, now))

(***************************************************************************)
(* mint: the user's rate and the average rate become weighted averages.    *)
(***************************************************************************)
MintedUserRate(token, user, amount, rate, now) ==
  LET balance == StableBalanceOf(token, user, now)
  IN rayDiv(rayMul(token.userRate[user], wadToRay(balance))
              + rayMul(wadToRay(amount), rate),
            wadToRay(balance + amount))

MintedAvgRate(token, amount, rate, now) ==
  LET supply == StableSupplyAt(token, now)
  IN rayDiv(rayMul(token.avgStableRate, wadToRay(supply))
              + rayMul(rate, wadToRay(amount)),
            wadToRay(supply + amount))

CanMintStable(token, user, amount, rate, now) ==
  /\ StableBalanceOf(token, user, now) + amount # 0
  /\ StableSupplyAt(token, now) + amount # 0
  /\ MintedUserRate(token, user, amount, rate, now) <= MAX_UINT128

\* Mutation: the accrued interest is not capitalised into the principal.
MintStableWithoutInterest(token, user, amount, rate, now) ==
  [balances             |-> [token.balances EXCEPT ![user] = @ + amount],
   userRate             |-> [token.userRate EXCEPT
                               ![user] = MintedUserRate(token, user, amount, rate, now)],
   timestamps           |-> [token.timestamps EXCEPT ![user] = now],
   totalSupply          |-> StableSupplyAt(token, now) + amount,
   avgStableRate        |-> MintedAvgRate(token, amount, rate, now),
   totalSupplyTimestamp |-> now]

MintStable(token, user, amount, rate, now) ==
  [balances             |-> [token.balances EXCEPT ![user] = StableBalanceOf(token, user, now) + amount],
   userRate             |-> [token.userRate EXCEPT
                               ![user] = MintedUserRate(token, user, amount, rate, now)],
   timestamps           |-> [token.timestamps EXCEPT ![user] = now],
   totalSupply          |-> StableSupplyAt(token, now) + amount,
   avgStableRate        |-> MintedAvgRate(token, amount, rate, now),
   totalSupplyTimestamp |-> now]

(***************************************************************************)
(* burn.  The principal moves from the old one to the accrued balance      *)
(* minus the amount, whether that is a mint or a burn of principal; a burn *)
(* of more than the accrued balance reverts.                               *)
(***************************************************************************)
\* Mutation: any amount can be burned.
CanBurnStableAnyAmount(token, user, amount, now) == TRUE

CanBurnStable(token, user, amount, now) ==
  amount <= StableBalanceOf(token, user, now)

\* Mutation: the average rate stays when a loan leaves it.
SupplyAfterBurnKeepingRate(token, user, amount, now) ==
  LET supply == StableSupplyAt(token, now)
  IN IF supply <= amount THEN <<0, 0>> ELSE <<supply - amount, token.avgStableRate>>

\* <<total supply, average rate>> after burning amount.  Both are given up on
\* when the separate accruals have drifted apart.
SupplyAfterBurn(token, user, amount, now) ==
  LET supply     == StableSupplyAt(token, now)
      firstTerm  == rayMul(token.avgStableRate, wadToRay(supply))
      secondTerm == rayMul(token.userRate[user], wadToRay(amount))
  IN IF supply <= amount \/ secondTerm >= firstTerm
     THEN <<0, 0>>
     ELSE <<supply - amount,
            rayDiv(firstTerm - secondTerm, wadToRay(supply - amount))>>

\* Mutation: a full repayment leaves the user's rate behind.
BurnStableKeepingRate(token, user, amount, now) ==
  LET balance == StableBalanceOf(token, user, now)
      after   == SupplyAfterBurn(token, user, amount, now)
  IN [balances             |-> [token.balances EXCEPT ![user] = balance - amount],
      userRate             |-> token.userRate,
      timestamps           |-> [token.timestamps EXCEPT ![user] = IF amount = balance THEN 0 ELSE now],
      totalSupply          |-> after[1],
      avgStableRate        |-> after[2],
      totalSupplyTimestamp |-> now]

BurnStable(token, user, amount, now) ==
  LET balance == StableBalanceOf(token, user, now)
      after   == SupplyAfterBurn(token, user, amount, now)
  IN [balances             |-> [token.balances EXCEPT ![user] = balance - amount],
      userRate             |-> [token.userRate EXCEPT ![user] = IF amount = balance THEN 0 ELSE @],
      timestamps           |-> [token.timestamps EXCEPT ![user] = IF amount = balance THEN 0 ELSE now],
      totalSupply          |-> after[1],
      avgStableRate        |-> after[2],
      totalSupplyTimestamp |-> now]

=============================================================================
