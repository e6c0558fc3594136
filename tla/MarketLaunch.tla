---------------------------- MODULE MarketLaunch ----------------------------
(***************************************************************************)
(* What a deployment promises for every market, whatever scripts run, in   *)
(* whatever order, and wherever they stop.  The reserves are all listed,   *)
(* in batches, while the deployer administers the pool; then the deployer  *)
(* lends the administration to the helper contract, which configures the   *)
(* reserves; then the helper's administration ends for good.               *)
(***************************************************************************)
CONSTANTS
  Markets,   \* the markets that may ever be deployed
  Listings,  \* the reserves a market lists
  Tokens     \* what can be configured

VARIABLES
  custody,     \* custody[p]: who administers market p
  listed,      \* listed[p]: its reserves
  configured   \* configured[p]: the tokens with collateral parameters

vars == <<custody, listed, configured>>

Init ==
  /\ custody = [p \in Markets |-> "nobody"]
  /\ listed = [p \in Markets |-> {}]
  /\ configured = [p \in Markets |-> {}]

Appoint(p) ==
  /\ custody[p] = "nobody"
  /\ custody' = [custody EXCEPT ![p] = "deployer"]
  /\ UNCHANGED <<listed, configured>>

List(p) ==
  /\ custody[p] = "deployer"
  /\ listed' \in [Markets -> SUBSET Listings]
  /\ \A q \in Markets \ {p} : listed'[q] = listed[q]
  /\ listed[p] \subseteq listed'[p] /\ listed'[p] # listed[p]
  /\ UNCHANGED <<custody, configured>>

Lend(p) ==
  /\ custody[p] = "deployer"
  /\ listed[p] = Listings
  /\ configured[p] = {}
  /\ custody' = [custody EXCEPT ![p] = "helper"]
  /\ UNCHANGED <<listed, configured>>

Configure(p) ==
  /\ custody[p] = "helper"
  /\ configured' \in [Markets -> SUBSET Tokens]
  /\ \A q \in Markets \ {p} : configured'[q] = configured[q]
  /\ configured[p] \subseteq configured'[p]
  /\ UNCHANGED <<custody, listed>>

Return(p) ==
  /\ custody[p] = "helper"
  /\ configured[p] # {}
  /\ custody' = [custody EXCEPT ![p] = "deployer"]
  /\ UNCHANGED <<listed, configured>>

Next ==
  \E p \in Markets :
    Appoint(p) \/ List(p) \/ Lend(p) \/ Configure(p) \/ Return(p)

Spec == Init /\ [][Next]_vars

(***************************************************************************)
(* Nothing is configured, and nobody but the deployer administers, before  *)
(* the listing is complete.                                                *)
(***************************************************************************)
ListedBeforeConfigured ==
  \A p \in Markets :
    custody[p] = "helper" \/ configured[p] # {} => listed[p] = Listings

\* The listing of a configured market is closed, and the helper never comes back.
ConfiguredMarketsAreClosed ==
  [][\A p \in Markets :
       configured[p] # {} /\ custody[p] = "deployer"
         => custody'[p] = "deployer" /\ listed'[p] = listed[p] /\ configured'[p] = configured[p]]_vars

=============================================================================
