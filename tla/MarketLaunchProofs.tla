------------------------- MODULE MarketLaunchProofs -------------------------
(***************************************************************************)
(* MarketLaunch for any markets, listings and tokens.  Deployment is       *)
(* checked to implement MarketLaunch, so what is proved here of launches   *)
(* holds of every deployment, read through the same mapping.               *)
(***************************************************************************)
EXTENDS MarketLaunch, TLAPS

TypeInv ==
  /\ custody \in [Markets -> {"nobody", "deployer", "helper"}]
  /\ listed \in [Markets -> SUBSET Listings]
  /\ configured \in [Markets -> SUBSET Tokens]

\* A market without an administrator has no reserves and no parameters.
NobodyActs ==
  \A p \in Markets : custody[p] = "nobody" => listed[p] = {} /\ configured[p] = {}

LaunchInv == TypeInv /\ ListedBeforeConfigured /\ NobodyActs

\* A chain without markets satisfies the invariant.
LEMMA LaunchInit == Init => LaunchInv
BY DEF Init, LaunchInv, TypeInv, ListedBeforeConfigured, NobodyActs

(***************************************************************************)
(* One step per action: the table it changes, and the two relations that   *)
(* table takes part in.                                                    *)
(***************************************************************************)
LEMMA LaunchStep == LaunchInv /\ [Next]_vars => LaunchInv'
<1> SUFFICES ASSUME LaunchInv, [Next]_vars
             PROVE  LaunchInv'
  OBVIOUS
<1> USE DEF LaunchInv, TypeInv, ListedBeforeConfigured, NobodyActs
<1>1. CASE UNCHANGED vars
  BY <1>1 DEF vars
<1>2. ASSUME NEW p \in Markets, Appoint(p)
      PROVE  LaunchInv'
  BY <1>2 DEF Appoint
<1>3. ASSUME NEW p \in Markets, List(p)
      PROVE  LaunchInv'
  <2>1. TypeInv'
    BY <1>3 DEF List
  <2>2. listed[p] # Listings
    BY <1>3 DEF List
  <2>3. configured[p] = {} /\ custody[p] = "deployer"
    BY <1>3, <2>2 DEF List
  <2>4. ListedBeforeConfigured' /\ NobodyActs'
    BY <1>3, <2>3 DEF List
  <2> QED
    BY <2>1, <2>4
<1>4. ASSUME NEW p \in Markets, Lend(p)
      PROVE  LaunchInv'
  BY <1>4 DEF Lend
<1>5. ASSUME NEW p \in Markets, Configure(p)
      PROVE  LaunchInv'
  <2>1. TypeInv'
    BY <1>5 DEF Configure
  <2>2. ListedBeforeConfigured' /\ NobodyActs'
    BY <1>5 DEF Configure
  <2> QED
    BY <2>1, <2>2
<1>6. ASSUME NEW p \in Markets, Return(p)
      PROVE  LaunchInv'
  BY <1>6 DEF Return
<1> QED
  BY <1>1, <1>2, <1>3, <1>4, <1>5, <1>6 DEF Next

(***************************************************************************)
(* However batches, lending and failures interleave over the markets,      *)
(* nothing has collateral parameters, and no helper administers, before    *)
(* every reserve is listed.                                                *)
(***************************************************************************)
THEOREM LaunchesListFirst == Spec => []ListedBeforeConfigured
<1>1. LaunchInv => ListedBeforeConfigured
  BY DEF LaunchInv
<1> QED
  BY LaunchInit, LaunchStep, <1>1, PTL DEF Spec

(***************************************************************************)
(* A market that has been configured and returned is finished: the helper  *)
(* never administers it again, and its tables stay as they are.            *)
(***************************************************************************)
THEOREM ConfiguredMarketsClose == Spec => ConfiguredMarketsAreClosed
<1> DEFINE Closed(p) ==
      configured[p] # {} /\ custody[p] = "deployer"
        => custody'[p] = "deployer" /\ listed'[p] = listed[p] /\ configured'[p] = configured[p]
<1>1. ASSUME LaunchInv, Next
      PROVE  \A p \in Markets : Closed(p)
  <2> SUFFICES ASSUME NEW p \in Markets, configured[p] # {}, custody[p] = "deployer"
               PROVE  /\ custody'[p] = "deployer"
                      /\ listed'[p] = listed[p]
                      /\ configured'[p] = configured[p]
    OBVIOUS
  <2>1. listed[p] = Listings
    BY <1>1 DEF LaunchInv, ListedBeforeConfigured
  <2>2. PICK q \in Markets : Appoint(q) \/ List(q) \/ Lend(q) \/ Configure(q) \/ Return(q)
    BY <1>1 DEF Next
  <2>3. custody \in [Markets -> {"nobody", "deployer", "helper"}]
    BY <1>1 DEF LaunchInv, TypeInv
  <2>4. CASE Appoint(q)
    BY <2>3, <2>4 DEF Appoint
  <2>5. CASE List(q)
    <3>1. listed'[q] \subseteq Listings
      BY <2>5 DEF List
    <3>2. q # p
      BY <2>1, <2>5, <3>1 DEF List
    <3> QED
      BY <2>5, <3>2 DEF List
  <2>6. CASE Lend(q)
    BY <2>3, <2>6 DEF Lend
  <2>7. CASE Configure(q)
    BY <2>3, <2>7 DEF Configure
  <2>8. CASE Return(q)
    BY <2>3, <2>8 DEF Return
  <2> QED
    BY <2>2, <2>4, <2>5, <2>6, <2>7, <2>8
<1>2. LaunchInv /\ [Next]_vars => [\A p \in Markets : Closed(p)]_vars
  BY <1>1
<1>3. Spec => [][\A p \in Markets : Closed(p)]_vars
  BY LaunchInit, LaunchStep, <1>2, PTL DEF Spec
<1> QED
  BY <1>3 DEF ConfiguredMarketsAreClosed

=============================================================================
