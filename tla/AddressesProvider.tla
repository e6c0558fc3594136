------------------------- MODULE AddressesProvider -------------------------
(***************************************************************************)
(* LendingPoolAddressesProvider: one market's table of addresses.  A       *)
(* contract is named by its kind, the run of a script that created it      *)
(* (0: it existed before) and the market it is bound to (0: none).  The    *)
(* run that creates a provider gives the market its number.                *)
(***************************************************************************)
EXTENDS Naturals

Contract(id, run, market) == [id |-> id, run |-> run, market |-> market]

None == Contract("none", 0, 0)          \* the zero address

Deployer == Contract("Deployer", 0, 0)  \* the first signer of every script

ProxiedSlots == {"LENDING_POOL", "LENDING_POOL_CONFIGURATOR"}

Slots ==
  ProxiedSlots
    \cup {"POOL_ADMIN", "EMERGENCY_ADMIN", "LENDING_POOL_COLLATERAL_MANAGER",
          "PRICE_ORACLE", "LENDING_RATE_ORACLE", "0x01"}

EmptyAddresses == [s \in Slots |-> None]

setAddress(addresses, id, a) == [addresses EXCEPT ![id] = a]

(***************************************************************************)
(* _updateImpl: the first call creates a proxy and initializes it.  Later  *)
(* ones call initialize again, which an implementation of the same         *)
(* revision refuses; the repository has one revision of each.              *)
(***************************************************************************)
CanUpdateImpl(addresses, id) == addresses[id] = None

=============================================================================
