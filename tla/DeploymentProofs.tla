-------------------------- MODULE DeploymentProofs --------------------------
(***************************************************************************)
(* The deployment for any number of script runs, each stopped at any       *)
(* statement.  The first part is about the scripts: every statement finds  *)
(* what it relies on, because earlier statements of the same script have   *)
(* brought it about.  The second carries that through the machine that     *)
(* executes them, among the files and the markets of earlier runs.         *)
(***************************************************************************)
EXTENDS MCDeployment, SequenceTheorems, FiniteSetTheorems, TLAPS

(***************************************************************************)
(* What later statements of a script rely on, named by the statement that  *)
(* brings it about; Effect says which one that is.                         *)
(***************************************************************************)
ProviderDeployed == Stmt("deploy", "LendingPoolAddressesProvider")
AdminAppointed == Stmt("appoint", "POOL_ADMIN")
ConfiguratorSaved == Stmt("saveProxy", "LendingPoolConfigurator")
HelperDeployed == Stmt("deploy", "ATokensAndRatesHelper")
AdminRead == Stmt("readAdmin", "none")
ReservesListed == {Stmt("initReserves", i) : i \in 1 .. 5}

Facts ==
  {ProviderDeployed, AdminAppointed, ConfiguratorSaved, HelperDeployed, AdminRead}
    \cup ReservesListed

Effect(st) == IF st.op = "genesisAdmin" THEN AdminRead ELSE st

Needs(st) ==
  CASE st.op \in {"appoint", "setAddress", "setImpl", "saveProxy"} -> {ProviderDeployed}
    [] st = HelperDeployed -> {ProviderDeployed}
    [] st.op = "readAdmin" -> {ProviderDeployed, AdminAppointed}
    [] st.op = "initReserves" -> {ConfiguratorSaved}
    [] st.op = "lend" -> Facts
    [] st.op = "setOracleOwnership" -> {AdminRead}
    [] OTHER -> {}

\* The effects of the first n statements of p.
Effects(p, n) == {Effect(p[i]) : i \in {j \in DOMAIN p : j <= n}}

\* Every statement of p finds what it needs, if K holds before.
Sound(p, K) == \A i \in DOMAIN p : Needs(p[i]) \subseteq K \cup Effects(p, i - 1)

(***************************************************************************)
(* The statements, by the kind of their argument.  Giving a market or its  *)
(* rate oracle to a helper and getting it back is not plain.               *)
(***************************************************************************)
OtherSlots == Slots \ (ProxiedSlots \cup {"POOL_ADMIN"})

PlainOps == {"fail", "register", "readAdmin", "genesisAdmin", "setRates", "authorize"}

PlainStatements ==
  [op : {"deploy", "require"}, arg : DbIds]
    \cup [op : {"saveProxy"}, arg : {"LendingPool", "LendingPoolConfigurator"}]
    \cup [op : {"appoint"}, arg : {"POOL_ADMIN"}]
    \cup [op : {"setAddress"}, arg : OtherSlots]
    \cup [op : {"setImpl"}, arg : ProxiedSlots]
    \cup [op : {"initReserves"}, arg : 1 .. 5]
    \cup [op : PlainOps, arg : {"none", "WETHGateway", "configured"}]

Statements ==
  PlainStatements
    \cup [op : {"transferOwnership", "setOracleOwnership", "lend", "configure", "return"},
          arg : {"none"}]
    \cup [op : {"readInputs"}, arg : {"assets", "mocks"}]

\* The plain statements that need nothing but K.
Plain(K) == {st \in PlainStatements : Needs(st) \subseteq K}

(***************************************************************************)
(* The inputs are read, the market is lent, configured and returned in one *)
(* go; a rate oracle that is handed on comes back; the program does not    *)
(* start in the middle of a loan.                                          *)
(***************************************************************************)
Links == {<<"readInputs", "lend">>, <<"lend", "configure">>, <<"configure", "return">>}

LendingOps == {"lend", "configure", "return"}

Linked(p) ==
  \A i \in DOMAIN p, link \in Links :
    /\ p[i].op = link[1] => i + 1 \in DOMAIN p /\ p[i + 1].op = link[2]
    /\ p[i].op = link[2] /\ i > 1 => p[i - 1].op = link[1]

Opens(p) == p # <<>> => p[1].op \notin LendingOps

Promised(p) ==
  \A i \in DOMAIN p :
    p[i].op = "transferOwnership" =>
      \E j \in DOMAIN p : j > i /\ p[j].op = "setOracleOwnership"

WellFormed(p) == p \in Seq(Statements) /\ Linked(p) /\ Promised(p)

\* A part of a program that can be run when K holds, and establishes L.
Part(p, K, L) ==
  /\ WellFormed(p)
  /\ Opens(p)
  /\ Sound(p, K)
  /\ L \subseteq K \cup Effects(p, Len(p))

NeverLends(p) == \A i \in DOMAIN p : p[i].op # "lend"

LendsOnce(p) == \A i, j \in DOMAIN p : p[i].op = "lend" /\ p[j].op = "lend" => i = j

(***************************************************************************)
(* Programs that follow one another.                                       *)
(***************************************************************************)
LEMMA Concatenation ==
  ASSUME NEW S, NEW s \in Seq(S), NEW t \in Seq(S)
  PROVE  /\ s \o t \in Seq(S)
         /\ Len(s) \in Nat /\ Len(t) \in Nat /\ Len(s \o t) = Len(s) + Len(t)
         /\ DOMAIN s = 1 .. Len(s) /\ DOMAIN t = 1 .. Len(t)
         /\ DOMAIN (s \o t) = 1 .. Len(s) + Len(t)
         /\ \A i \in DOMAIN s : i \in DOMAIN (s \o t) /\ (s \o t)[i] = s[i]
         /\ \A i \in DOMAIN t : Len(s) + i \in DOMAIN (s \o t) /\ (s \o t)[Len(s) + i] = t[i]
         /\ \A i \in DOMAIN (s \o t) :
              i \in DOMAIN s \/ (i > Len(s) /\ i - Len(s) \in DOMAIN t)
  OBVIOUS

\* Tasks that neither leave a loan open nor start in one may follow one another.
LEMMA WellFormedConcat ==
  ASSUME NEW s, NEW t, WellFormed(s), WellFormed(t), Opens(s), Opens(t)
  PROVE  WellFormed(s \o t) /\ Opens(s \o t)
<1> DEFINE p == s \o t
<1>0. s \in Seq(Statements) /\ t \in Seq(Statements)
  BY DEF WellFormed
<1>1. /\ p \in Seq(Statements)
      /\ Len(s) \in Nat /\ Len(t) \in Nat /\ Len(p) = Len(s) + Len(t)
      /\ DOMAIN s = 1 .. Len(s) /\ DOMAIN t = 1 .. Len(t)
      /\ DOMAIN p = 1 .. Len(s) + Len(t)
      /\ \A i \in DOMAIN s : i \in DOMAIN p /\ p[i] = s[i]
      /\ \A i \in DOMAIN t : Len(s) + i \in DOMAIN p /\ p[Len(s) + i] = t[i]
      /\ \A i \in DOMAIN p :
           i \in DOMAIN s \/ (i > Len(s) /\ i - Len(s) \in DOMAIN t)
  BY <1>0, Concatenation
<1> HIDE DEF p
<1>2. Linked(p)
  <2> SUFFICES ASSUME NEW i \in DOMAIN p, NEW link \in Links
               PROVE  /\ p[i].op = link[1] => i + 1 \in DOMAIN p /\ p[i + 1].op = link[2]
                      /\ p[i].op = link[2] /\ i > 1 => p[i - 1].op = link[1]
    BY DEF Linked
  <2>1. CASE i \in DOMAIN s
    <3>1. /\ s[i].op = link[1] => i + 1 \in DOMAIN s /\ s[i + 1].op = link[2]
          /\ s[i].op = link[2] /\ i > 1 => s[i - 1].op = link[1]
      BY <2>1 DEF WellFormed, Linked
    <3>2. i > 1 => i - 1 \in DOMAIN s
      BY <1>1, <2>1
    <3> QED
      BY <1>1, <2>1, <3>1, <3>2
  <2>2. CASE i > Len(s) /\ i - Len(s) \in DOMAIN t
    <3> DEFINE j == i - Len(s)
    <3>1. /\ t[j].op = link[1] => j + 1 \in DOMAIN t /\ t[j + 1].op = link[2]
          /\ t[j].op = link[2] /\ j > 1 => t[j - 1].op = link[1]
      BY <2>2 DEF WellFormed, Linked
    <3>2. p[i] = t[j]
      BY <1>1, <2>2
    <3>3. j + 1 \in DOMAIN t => i + 1 \in DOMAIN p /\ p[i + 1] = t[j + 1]
      BY <1>1, <2>2
    <3>4. j > 1 => p[i - 1] = t[j - 1]
      BY <1>1, <2>2
    <3>5. j = 1 => p[i].op # link[2]
      BY <3>2, <1>1, <2>2 DEF Opens, Links, LendingOps
    <3> HIDE DEF j
    <3>6. j \in Nat /\ j >= 1
      BY <1>1, <2>2 DEF j
    <3> QED
      BY <3>1, <3>2, <3>3, <3>4, <3>5, <3>6
  <2> QED
    BY <1>1, <2>1, <2>2
<1>3. Promised(p)
  <2> SUFFICES ASSUME NEW i \in DOMAIN p, p[i].op = "transferOwnership"
               PROVE  \E j \in DOMAIN p : j > i /\ p[j].op = "setOracleOwnership"
    BY DEF Promised
  <2>1. CASE i \in DOMAIN s
    BY <1>1, <2>1 DEF WellFormed, Promised
  <2>2. CASE i > Len(s) /\ i - Len(s) \in DOMAIN t
    <3>1. p[i] = t[i - Len(s)]
      BY <1>1, <2>2
    <3>2. PICK j \in DOMAIN t : j > i - Len(s) /\ t[j].op = "setOracleOwnership"
      BY <2>2, <3>1 DEF WellFormed, Promised
    <3> QED
      BY <1>1, <2>2, <3>2
  <2> QED
    BY <1>1, <2>1, <2>2
<1>4. Opens(p)
  BY <1>1, <1>0 DEF Opens
<1> QED
  BY <1>1, <1>2, <1>3, <1>4 DEF WellFormed, p

\* What the first statements of two programs establish, the programs one after the other
\* establish.
LEMMA EffectsConcat ==
  ASSUME NEW s \in Seq(Statements), NEW t \in Seq(Statements)
  PROVE  /\ \A n \in 0 .. Len(s) : Effects(s, n) \subseteq Effects(s \o t, n)
         /\ \A n \in 0 .. Len(t) :
              Effects(s, Len(s)) \cup Effects(t, n) \subseteq Effects(s \o t, Len(s) + n)
<1> DEFINE p == s \o t
<1>1. /\ Len(s) \in Nat /\ Len(t) \in Nat
      /\ DOMAIN s = 1 .. Len(s) /\ DOMAIN t = 1 .. Len(t)
      /\ \A i \in DOMAIN s : i \in DOMAIN p /\ p[i] = s[i]
      /\ \A i \in DOMAIN t : Len(s) + i \in DOMAIN p /\ p[Len(s) + i] = t[i]
  BY Concatenation
<1> HIDE DEF p
<1>2. \A n \in 0 .. Len(s) : Effects(s, n) \subseteq Effects(p, n)
  BY <1>1 DEF Effects
<1>3. ASSUME NEW n \in 0 .. Len(t)
      PROVE  Effects(s, Len(s)) \cup Effects(t, n) \subseteq Effects(p, Len(s) + n)
  <2>1. Effects(s, Len(s)) \subseteq Effects(p, Len(s) + n)
    BY <1>1 DEF Effects
  <2>2. Effects(t, n) \subseteq Effects(p, Len(s) + n)
    <3> SUFFICES ASSUME NEW i \in DOMAIN t, i <= n
                 PROVE  Effect(t[i]) \in Effects(p, Len(s) + n)
      BY DEF Effects
    <3>1. Len(s) + i \in {j \in DOMAIN p : j <= Len(s) + n} /\ p[Len(s) + i] = t[i]
      BY <1>1
    <3> QED
      BY <3>1 DEF Effects
  <2> QED
    BY <2>1, <2>2
<1> QED
  BY <1>2, <1>3 DEF p

\* What one part establishes, the next may rely on.
LEMMA PartConcat ==
  ASSUME NEW s, NEW t, NEW K, NEW L, NEW M, Part(s, K, L), Part(t, L, M)
  PROVE  Part(s \o t, K, M)
<1> DEFINE p == s \o t
<1>0. s \in Seq(Statements) /\ t \in Seq(Statements)
  BY DEF Part, WellFormed
<1>1. WellFormed(p) /\ Opens(p)
  BY WellFormedConcat DEF Part
<1>2. /\ Len(s) \in Nat /\ Len(t) \in Nat /\ Len(p) = Len(s) + Len(t)
      /\ DOMAIN s = 1 .. Len(s) /\ DOMAIN t = 1 .. Len(t)
      /\ DOMAIN p = 1 .. Len(s) + Len(t)
      /\ \A i \in DOMAIN s : i \in DOMAIN p /\ p[i] = s[i]
      /\ \A i \in DOMAIN t : Len(s) + i \in DOMAIN p /\ p[Len(s) + i] = t[i]
      /\ \A i \in DOMAIN p : i \in DOMAIN s \/ (i > Len(s) /\ i - Len(s) \in DOMAIN t)
  BY <1>0, Concatenation
<1>3. /\ \A n \in 0 .. Len(s) : Effects(s, n) \subseteq Effects(p, n)
      /\ \A n \in 0 .. Len(t) : Effects(s, Len(s)) \cup Effects(t, n) \subseteq Effects(p, Len(s) + n)
  BY <1>0, EffectsConcat
<1> HIDE DEF p
<1>4. Sound(p, K)
  <2> SUFFICES ASSUME NEW i \in DOMAIN p
               PROVE  Needs(p[i]) \subseteq K \cup Effects(p, i - 1)
    BY DEF Sound
  <2>1. CASE i \in DOMAIN s
    <3>1. Needs(s[i]) \subseteq K \cup Effects(s, i - 1)
      BY <2>1 DEF Part, Sound
    <3> QED
      BY <1>2, <1>3, <2>1, <3>1
  <2>2. CASE i > Len(s) /\ i - Len(s) \in DOMAIN t
    <3> DEFINE j == i - Len(s)
    <3>1. Needs(t[j]) \subseteq L \cup Effects(t, j - 1)
      BY <2>2 DEF Part, Sound
    <3>2. L \subseteq K \cup Effects(s, Len(s))
      BY DEF Part
    <3>3. p[i] = t[j] /\ j - 1 \in 0 .. Len(t) /\ Len(s) + (j - 1) = i - 1
      BY <1>2, <2>2
    <3> QED
      BY <1>3, <3>1, <3>2, <3>3
  <2> QED
    BY <1>2, <2>1, <2>2
<1>5. M \subseteq K \cup Effects(p, Len(p))
  <2>1. Len(t) \in 0 .. Len(t)
    BY <1>2
  <2> QED
    BY <1>2, <1>3, <2>1 DEF Part
<1> QED
  BY <1>1, <1>4, <1>5 DEF Part, p

\* More may hold than is needed, and less may be used than is established.
LEMMA PartMonotone ==
  ASSUME NEW p, NEW K, NEW L, NEW K2, NEW L2, Part(p, K, L), K \subseteq K2, L2 \subseteq K2 \cup L
  PROVE  Part(p, K2, L2)
BY DEF Part, Sound

\* Plain statements that all find what they need in K make a part, which establishes what each
\* of them does.
LEMMA PartPlain ==
  ASSUME NEW K, NEW p \in Seq(Plain(K))
  PROVE  /\ Part(p, K, K \cup {Effect(p[i]) : i \in DOMAIN p})
         /\ NeverLends(p)
<1>0. \A i \in DOMAIN p : p[i] \in Plain(K)
  OBVIOUS
<1>1. \A i \in DOMAIN p : p[i] \in PlainStatements /\ Needs(p[i]) \subseteq K
  BY <1>0 DEF Plain
<1>2. \A st \in PlainStatements :
        st.op \notin {"readInputs", "lend", "configure", "return", "transferOwnership"}
  BY DEF PlainStatements, PlainOps
<1>3. WellFormed(p)
  <2>0. Plain(K) \subseteq Statements
    BY DEF Plain, Statements
  <2>1. p \in Seq(Statements)
    BY <2>0
  <2>2. Linked(p) /\ Promised(p)
    BY <1>1, <1>2 DEF Linked, Promised, Links
  <2> QED
    BY <2>1, <2>2 DEF WellFormed
<1>4. Opens(p)
  <2>1. p # <<>> => 1 \in DOMAIN p
    OBVIOUS
  <2> QED
    BY <1>1, <1>2, <2>1 DEF Opens, LendingOps
<1>5. Sound(p, K)
  BY <1>1 DEF Sound
<1>6. {Effect(p[i]) : i \in DOMAIN p} \subseteq Effects(p, Len(p))
  BY DEF Effects
<1>7. NeverLends(p)
  BY <1>1, <1>2 DEF NeverLends
<1> QED
  BY <1>3, <1>4, <1>5, <1>6, <1>7 DEF Part

\* A market is lent as often as by both programs together.
LEMMA LendsConcat ==
  ASSUME NEW s \in Seq(Statements), NEW t \in Seq(Statements)
  PROVE  /\ NeverLends(s) /\ NeverLends(t) => NeverLends(s \o t)
         /\ NeverLends(s) /\ LendsOnce(t) => LendsOnce(s \o t)
         /\ LendsOnce(s) /\ NeverLends(t) => LendsOnce(s \o t)
<1> DEFINE p == s \o t
<1>1. /\ Len(s) \in Nat /\ Len(t) \in Nat
      /\ DOMAIN s = 1 .. Len(s) /\ DOMAIN t = 1 .. Len(t)
      /\ DOMAIN p = 1 .. Len(s) + Len(t)
      /\ \A i \in DOMAIN s : i \in DOMAIN p /\ p[i] = s[i]
      /\ \A i \in DOMAIN t : Len(s) + i \in DOMAIN p /\ p[Len(s) + i] = t[i]
      /\ \A i \in DOMAIN p : i \in DOMAIN s \/ (i > Len(s) /\ i - Len(s) \in DOMAIN t)
  BY Concatenation
<1> HIDE DEF p
<1>2. \A i \in DOMAIN p :
        \/ i \in DOMAIN s /\ p[i] = s[i]
        \/ i > Len(s) /\ i - Len(s) \in DOMAIN t /\ p[i] = t[i - Len(s)]
  BY <1>1
<1>3. NeverLends(s) /\ NeverLends(t) => NeverLends(p)
  BY <1>2 DEF NeverLends
<1>4. ASSUME NeverLends(s), LendsOnce(t), NEW i \in DOMAIN p, NEW j \in DOMAIN p,
             p[i].op = "lend", p[j].op = "lend"
      PROVE  i = j
  <2>1. /\ i > Len(s) /\ i - Len(s) \in DOMAIN t /\ p[i] = t[i - Len(s)]
        /\ j > Len(s) /\ j - Len(s) \in DOMAIN t /\ p[j] = t[j - Len(s)]
    BY <1>2, <1>4 DEF NeverLends
  <2>2. i - Len(s) = j - Len(s)
    BY <1>4, <2>1 DEF LendsOnce
  <2> QED
    BY <1>1, <2>1, <2>2
<1>5. LendsOnce(s) /\ NeverLends(t) => LendsOnce(p)
  BY <1>2 DEF LendsOnce, NeverLends
<1> QED
  BY <1>3, <1>4, <1>5 DEF p, LendsOnce

\* Deploying, looking at the file, registering, setting rates and authorizing rely on nothing.
LEMMA PlainNeedsNothing ==
  ASSUME NEW K
  PROVE  /\ \A id \in DbIds \ {"ATokensAndRatesHelper"} : Stmt("deploy", id) \in Plain(K)
         /\ \A id \in DbIds : Stmt("require", id) \in Plain(K)
         /\ \A op \in PlainOps \ {"readAdmin"}, arg \in {"none", "WETHGateway", "configured"} :
              Stmt(op, arg) \in Plain(K)
<1> USE DEF Plain, Needs, PlainStatements, Stmt, HelperDeployed
<1>1. ASSUME NEW id \in DbIds \ {"ATokensAndRatesHelper"}
      PROVE  Stmt("deploy", id) \in Plain(K)
  <2>1. Needs(Stmt("deploy", id)) = {}
    OBVIOUS
  <2> QED
    BY <2>1
<1>2. ASSUME NEW id \in DbIds
      PROVE  Stmt("require", id) \in Plain(K)
  <2>1. Needs(Stmt("require", id)) = {}
    OBVIOUS
  <2> QED
    BY <2>1
<1>3. ASSUME NEW op \in PlainOps \ {"readAdmin"}, NEW arg \in {"none", "WETHGateway", "configured"}
      PROVE  Stmt(op, arg) \in Plain(K)
  <2>1. Needs(Stmt(op, arg)) = {}
    BY DEF PlainOps
  <2> QED
    BY <2>1
<1> QED
  BY <1>1, <1>2, <1>3

\* Whatever sets an address of the provider, or is deployed for it, relies on the provider.
LEMMA PlainNeedsProvider ==
  ASSUME NEW K, ProviderDeployed \in K
  PROVE  /\ HelperDeployed \in Plain(K)
         /\ AdminAppointed \in Plain(K)
         /\ \A s \in OtherSlots : Stmt("setAddress", s) \in Plain(K)
         /\ \A s \in ProxiedSlots : Stmt("setImpl", s) \in Plain(K)
         /\ \A id \in {"LendingPool", "LendingPoolConfigurator"} : Stmt("saveProxy", id) \in Plain(K)
<1> USE DEF Plain, Needs, PlainStatements, Stmt
<1>1. HelperDeployed \in Plain(K)
  BY DEF HelperDeployed, DbIds
<1>2. AdminAppointed \in Plain(K)
  BY DEF AdminAppointed
<1>3. ASSUME NEW s \in OtherSlots
      PROVE  Stmt("setAddress", s) \in Plain(K)
  OBVIOUS
<1>4. ASSUME NEW s \in ProxiedSlots
      PROVE  Stmt("setImpl", s) \in Plain(K)
  OBVIOUS
<1>5. ASSUME NEW id \in {"LendingPool", "LendingPoolConfigurator"}
      PROVE  Stmt("saveProxy", id) \in Plain(K)
  OBVIOUS
<1> QED
  BY <1>1, <1>2, <1>3, <1>4, <1>5

\* Reading the pool admin relies on its appointment, listing on the configurator's proxy.
LEMMA PlainNeedsMore ==
  ASSUME NEW K
  PROVE  /\ ProviderDeployed \in K /\ AdminAppointed \in K => AdminRead \in Plain(K)
         /\ ConfiguratorSaved \in K => \A i \in 1 .. 5 : Stmt("initReserves", i) \in Plain(K)
<1> USE DEF Plain, Needs, PlainStatements, Stmt
<1>1. ASSUME ProviderDeployed \in K, AdminAppointed \in K
      PROVE  AdminRead \in Plain(K)
  BY <1>1 DEF AdminRead, HelperDeployed, PlainOps
<1>2. ASSUME ConfiguratorSaved \in K, NEW i \in 1 .. 5
      PROVE  Stmt("initReserves", i) \in Plain(K)
  <2>1. Needs(Stmt("initReserves", i)) = {ConfiguratorSaved}
    BY DEF HelperDeployed
  <2> QED
    BY <1>2, <2>1
<1> QED
  BY <1>1, <1>2

\* A statement finds what it needs where more holds.
LEMMA PlainMonotone ==
  ASSUME NEW K, NEW L, K \subseteq L
  PROVE  Seq(Plain(K)) \subseteq Seq(Plain(L))
<1>1. Plain(K) \subseteq Plain(L)
  BY DEF Plain
<1> QED
  BY <1>1

\* A statement that is left out where the network has the contract leaves a sequence of the
\* same kind.
LEMMA UnlessSeq ==
  ASSUME NEW S, NEW s \in Seq(S), NEW given
  PROVE  Unless(given, s) \in Seq(S)
BY DEF Unless

(***************************************************************************)
(* The tasks, one after the other.                                         *)
(***************************************************************************)
LEMMA FullAddressProviderPlain ==
  ASSUME NEW K, NEW market, NEW e
  PROVE  /\ FullAddressProviderRegistry(market, e) \in Seq(Plain(K))
         /\ Unless(e.skipRegistry, AddMarketToRegistry(market, e)) \in Seq(Plain(K))
<1>0. /\ Stmt("fail", "none") \in Plain(K)
      /\ Stmt("register", "none") \in Plain(K)
  BY PlainNeedsNothing DEF PlainOps
<1>1. Fail \in Seq(Plain(K))
  BY <1>0 DEF Fail
<1>2. <<Stmt("register", "none")>> \in Seq(Plain(K))
  BY <1>0
<1>3. Unless(e.skipRegistry, AddMarketToRegistry(market, e)) \in Seq(Plain(K))
  BY <1>1, <1>2 DEF Unless, AddMarketToRegistry
<1>4. <<Stmt("deploy", "LendingPoolAddressesProviderRegistry")>> \in Seq(Plain(K))
  BY PlainNeedsNothing DEF DbIds
<1> QED
  BY <1>3, <1>4 DEF Unless, FullAddressProviderRegistry

\* Plain statements that find what they need keep what holds.
LEMMA PartPlainKeeps ==
  ASSUME NEW K, NEW p \in Seq(Plain(K))
  PROVE  Part(p, K, K) /\ NeverLends(p)
<1>1. Part(p, K, K \cup {Effect(p[i]) : i \in DOMAIN p}) /\ NeverLends(p)
  BY PartPlain
<1> QED
  BY <1>1 DEF Part

\* The provider is deployed and its administrators are appointed, whatever held before.
LEMMA FullAddressProviderPart ==
  ASSUME NEW market, NEW e, NEW K
  PROVE  /\ Part(FullAddressProvider(market, e), K, K \cup {ProviderDeployed, AdminAppointed})
         /\ NeverLends(FullAddressProvider(market, e))
<1> DEFINE K1 == K \cup {ProviderDeployed}
           K2 == K \cup {ProviderDeployed, AdminAppointed}
           a == <<Stmt("deploy", "LendingPoolAddressesProvider")>>
           b == Unless(e.skipRegistry, AddMarketToRegistry(market, e))
           c == <<Stmt("appoint", "POOL_ADMIN"), Stmt("setAddress", "EMERGENCY_ADMIN")>>
<1>1. Part(a, K, K1) /\ NeverLends(a)
  <2>1. Stmt("deploy", "LendingPoolAddressesProvider") \in Plain(K)
    BY PlainNeedsNothing DEF DbIds
  <2>2. a \in Seq(Plain(K))
    BY <2>1
  <2>3. 1 \in DOMAIN a /\ Effect(a[1]) = ProviderDeployed
    BY DEF Effect, ProviderDeployed, Stmt
  <2>4. K1 \subseteq K \cup {Effect(a[i]) : i \in DOMAIN a}
    BY <2>3
  <2>5. Part(a, K, K \cup {Effect(a[i]) : i \in DOMAIN a}) /\ NeverLends(a)
    BY <2>2, PartPlain
  <2> QED
    BY <2>4, <2>5 DEF Part
<1>2. Part(b, K1, K1) /\ NeverLends(b)
  BY FullAddressProviderPlain, PartPlainKeeps
<1>3. Part(c, K1, K2) /\ NeverLends(c)
  <2>1. AdminAppointed \in Plain(K1) /\ Stmt("setAddress", "EMERGENCY_ADMIN") \in Plain(K1)
    BY PlainNeedsProvider DEF OtherSlots, Slots, ProxiedSlots
  <2>2. c \in Seq(Plain(K1))
    BY <2>1 DEF AdminAppointed
  <2>3. 1 \in DOMAIN c /\ Effect(c[1]) = AdminAppointed
    BY DEF Effect, AdminAppointed, Stmt
  <2>4. K2 \subseteq K1 \cup {Effect(c[i]) : i \in DOMAIN c}
    BY <2>3
  <2>5. Part(c, K1, K1 \cup {Effect(c[i]) : i \in DOMAIN c}) /\ NeverLends(c)
    BY <2>2, PartPlain
  <2> QED
    BY <2>4, <2>5 DEF Part
<1> HIDE DEF a, b, c, K1, K2
<1>4. Part(a \o b, K, K1) /\ Part((a \o b) \o c, K, K2)
  BY <1>1, <1>2, <1>3, PartConcat
<1>5. NeverLends(a \o b) /\ NeverLends((a \o b) \o c)
  BY <1>1, <1>2, <1>3, <1>4, LendsConcat DEF Part, WellFormed
<1> QED
  BY <1>4, <1>5 DEF FullAddressProvider, a, b, c, K2

\* Pool and configurator get their proxies, and the two helpers are deployed for the provider.
LEMMA PoolProxiesPart ==
  ASSUME NEW K, ProviderDeployed \in K, NEW a \in Seq(Plain(K)), NEW b \in Seq(Plain(K))
  PROVE  /\ Part(PoolProxies(a, b), K, K \cup {ConfiguratorSaved, HelperDeployed})
         /\ NeverLends(PoolProxies(a, b))
<1> DEFINE c == <<Stmt("setImpl", "LENDING_POOL"), Stmt("saveProxy", "LendingPool")>>
           d == <<Stmt("setImpl", "LENDING_POOL_CONFIGURATOR"),
                  Stmt("saveProxy", "LendingPoolConfigurator"),
                  Stmt("deploy", "StableAndVariableTokensHelper"),
                  Stmt("deploy", "ATokensAndRatesHelper")>>
           L == K \cup {ConfiguratorSaved, HelperDeployed}
<1>1. c \in Seq(Plain(K))
  <2>1. /\ Stmt("setImpl", "LENDING_POOL") \in Plain(K)
        /\ Stmt("saveProxy", "LendingPool") \in Plain(K)
    BY PlainNeedsProvider DEF ProxiedSlots, DbIds
  <2> QED
    BY <2>1
<1>2. d \in Seq(Plain(K))
  <2>1. /\ Stmt("setImpl", "LENDING_POOL_CONFIGURATOR") \in Plain(K)
        /\ Stmt("saveProxy", "LendingPoolConfigurator") \in Plain(K)
    BY PlainNeedsProvider DEF ProxiedSlots, DbIds
  <2>2. Stmt("deploy", "StableAndVariableTokensHelper") \in Plain(K)
    BY PlainNeedsNothing DEF DbIds
  <2>3. Stmt("deploy", "ATokensAndRatesHelper") \in Plain(K)
    BY PlainNeedsProvider DEF HelperDeployed
  <2> QED
    BY <2>1, <2>2, <2>3
<1>3. L \subseteq K \cup {Effect(d[i]) : i \in DOMAIN d}
  <2>1. /\ 2 \in DOMAIN d /\ Effect(d[2]) = ConfiguratorSaved
        /\ 4 \in DOMAIN d /\ Effect(d[4]) = HelperDeployed
    BY DEF Effect, ConfiguratorSaved, HelperDeployed, Stmt
  <2> QED
    BY <2>1
<1> HIDE DEF c, d, L
<1>4. a \o c \o b \in Seq(Plain(K))
  BY <1>1
<1>5. Part(a \o c \o b, K, K) /\ NeverLends(a \o c \o b)
  BY <1>4, PartPlainKeeps
<1>6. Part(d, K, L) /\ NeverLends(d)
  <2>1. Part(d, K, K \cup {Effect(d[i]) : i \in DOMAIN d}) /\ NeverLends(d)
    BY <1>2, PartPlain
  <2> QED
    BY <1>3, <2>1 DEF Part
<1>7. Part(a \o c \o b \o d, K, L)
  BY <1>5, <1>6, PartConcat
<1>8. NeverLends(a \o c \o b \o d)
  BY <1>5, <1>6, LendsConcat DEF Part, WellFormed
<1> QED
  BY <1>7, <1>8 DEF PoolProxies, c, d, L

(***************************************************************************)
(* The rate oracle comes back, however many transactions set its rates.    *)
(***************************************************************************)
LEMMA SetMarketRatesPart ==
  ASSUME NEW K, AdminRead \in K, NEW n \in Nat
  PROVE  Part(SetMarketRates(n), K, K) /\ NeverLends(SetMarketRates(n))
<1> DEFINE k == (n + 19) \div 20
           first == Stmt("transferOwnership", "none")
           set == Stmt("setRates", "none")
           last == Stmt("setOracleOwnership", "none")
           rates == [i \in 1 .. k |-> set]
           p == SetMarketRates(n)
<1>1. k \in Nat
  OBVIOUS
<1> HIDE DEF k
<1>2. first \in Statements /\ set \in Statements /\ last \in Statements
  BY DEF Statements, PlainStatements, PlainOps, Stmt
<1>3. rates \in Seq(Statements) /\ Len(rates) = k
  BY <1>1, <1>2
<1>4. /\ p \in Seq(Statements) /\ DOMAIN p = 1 .. k + 2 /\ Len(p) = k + 2
      /\ p[1] = first /\ p[k + 2] = last
      /\ \A i \in DOMAIN p : i = 1 \/ i = k + 2 \/ p[i] = set
  <2> HIDE DEF rates
  <2>1. <<first>> \in Seq(Statements) /\ <<last>> \in Seq(Statements)
    BY <1>2
  <2>2. p = (<<first>> \o rates) \o <<last>>
    BY DEF SetMarketRates, rates, k
  <2> DEFINE q == <<first>> \o rates
  <2> HIDE DEF p, first, last, set
  <2>3. /\ q \in Seq(Statements) /\ Len(q) = k + 1
        /\ q[1] = first
        /\ \A i \in 2 .. k + 1 : q[i] = rates[i - 1]
    BY <1>1, <1>3, <2>1
  <2>4. p = q \o <<last>>
    BY <2>2
  <2> HIDE DEF q
  <2>5. \A i \in 1 .. k : rates[i] = set
    BY DEF rates
  <2>6. /\ p \in Seq(Statements) /\ Len(p) = k + 2 /\ DOMAIN p = 1 .. k + 2
        /\ \A i \in 1 .. k + 1 : p[i] = q[i]
        /\ p[k + 2] = last
    BY <1>1, <2>1, <2>3, <2>4
  <2>7. \A i \in 2 .. k + 1 : p[i] = set
    BY <1>1, <2>3, <2>5, <2>6
  <2> QED
    BY <1>1, <2>3, <2>6, <2>7
<1> HIDE DEF p
<1>5. /\ first.op = "transferOwnership" /\ set.op = "setRates" /\ last.op = "setOracleOwnership"
      /\ Needs(first) = {} /\ Needs(set) = {} /\ Needs(last) = {AdminRead}
  BY DEF Stmt, Needs, HelperDeployed
<1> HIDE DEF first, set, last
<1>6. \A i \in DOMAIN p :
        /\ p[i].op \in {"transferOwnership", "setRates", "setOracleOwnership"}
        /\ Needs(p[i]) \subseteq K
  BY <1>4, <1>5
<1>7. Linked(p) /\ NeverLends(p) /\ Sound(p, K)
  BY <1>6 DEF Linked, Links, NeverLends, Sound
<1>8. Opens(p)
  BY <1>1, <1>4, <1>5 DEF Opens, LendingOps
<1>9. Promised(p)
  BY <1>1, <1>4, <1>5 DEF Promised
<1> QED
  BY <1>4, <1>7, <1>8, <1>9 DEF Part, WellFormed, p

(***************************************************************************)
(* Listing and configuring relies on the provider, its administrator, the  *)
(* configurator's proxy and the helper; the rest it establishes itself.    *)
(***************************************************************************)
LEMMA LoanPart ==
  ASSUME NEW K, Facts \subseteq K, NEW tokens \in {"assets", "mocks"}
  PROVE  LET p == <<Stmt("readInputs", tokens), Stmt("lend", "none"), Stmt("configure", "none"),
                    Stmt("return", "none")>>
         IN  Part(p, K, K) /\ LendsOnce(p)
<1> DEFINE p == <<Stmt("readInputs", tokens), Stmt("lend", "none"), Stmt("configure", "none"),
                  Stmt("return", "none")>>
<1>1. p \in Seq(Statements)
  <2>1. /\ Stmt("readInputs", tokens) \in Statements
        /\ Stmt("lend", "none") \in Statements
        /\ Stmt("configure", "none") \in Statements
        /\ Stmt("return", "none") \in Statements
    BY DEF Statements, Stmt
  <2> QED
    BY <2>1
<1>2. /\ DOMAIN p = 1 .. 4 /\ Len(p) = 4
      /\ p[1].op = "readInputs" /\ p[2].op = "lend" /\ p[3].op = "configure" /\ p[4].op = "return"
  BY DEF Stmt
<1> HIDE DEF p
<1>3. Linked(p) /\ Promised(p) /\ Opens(p) /\ LendsOnce(p)
  <2>1. Promised(p) /\ Opens(p) /\ LendsOnce(p)
    BY <1>2 DEF Promised, Opens, LendsOnce, LendingOps
  <2>2. ASSUME NEW i \in DOMAIN p, NEW link \in Links
        PROVE  /\ p[i].op = link[1] => i + 1 \in DOMAIN p /\ p[i + 1].op = link[2]
               /\ p[i].op = link[2] /\ i > 1 => p[i - 1].op = link[1]
    <3>1. i = 1 \/ i = 2 \/ i = 3 \/ i = 4
      BY <1>2
    <3> QED
      BY <1>2, <3>1 DEF Links
  <2> QED
    BY <2>1, <2>2 DEF Linked
<1>4. Sound(p, K)
  <2>1. \A i \in DOMAIN p : Needs(p[i]) \subseteq Facts
    <3>1. \A i \in DOMAIN p : p[i].op \in {"readInputs", "lend", "configure", "return"}
      BY <1>2
    <3> QED
      BY <3>1 DEF Needs, HelperDeployed, Stmt
  <2> QED
    BY <2>1 DEF Sound
<1> QED
  BY <1>1, <1>3, <1>4 DEF Part, WellFormed, p

\* The pool admin is read, the five groups of reserves are listed, the market is lent and comes
\* back.
LEMMA InitAndConfigurePart ==
  ASSUME NEW K, {ProviderDeployed, AdminAppointed, ConfiguratorSaved, HelperDeployed} \subseteq K,
         NEW tokens \in {"assets", "mocks"}
  PROVE  Part(InitAndConfigure(tokens), K, K) /\ LendsOnce(InitAndConfigure(tokens))
<1> DEFINE a == <<Stmt("require", "AaveProtocolDataProvider"), Stmt("readAdmin", "none"),
                  Stmt("require", "StableAndVariableTokensHelper")>>
           b == [i \in DOMAIN chunkedInitInputParams |-> Stmt("initReserves", i)]
           c == <<Stmt("readInputs", tokens), Stmt("lend", "none"), Stmt("configure", "none"),
                  Stmt("return", "none")>>
           K1 == K \cup {AdminRead}
           K2 == K1 \cup ReservesListed
<1>1. Part(a, K, K1) /\ NeverLends(a)
  <2>1. /\ Stmt("require", "AaveProtocolDataProvider") \in Plain(K)
        /\ Stmt("require", "StableAndVariableTokensHelper") \in Plain(K)
    BY PlainNeedsNothing DEF DbIds
  <2>2. Stmt("readAdmin", "none") \in Plain(K)
    BY PlainNeedsMore DEF AdminRead
  <2>3. a \in Seq(Plain(K))
    BY <2>1, <2>2
  <2>4. 2 \in DOMAIN a /\ Effect(a[2]) = AdminRead
    BY DEF Effect, AdminRead, Stmt
  <2>5. Part(a, K, K \cup {Effect(a[i]) : i \in DOMAIN a}) /\ NeverLends(a)
    BY <2>3, PartPlain
  <2> QED
    BY <2>4, <2>5 DEF Part
<1>2. Part(b, K1, K2) /\ NeverLends(b)
  <2>1. DOMAIN chunkedInitInputParams = 1 .. 5
    BY DEF chunkedInitInputParams
  <2>2. \A i \in 1 .. 5 : Stmt("initReserves", i) \in Plain(K1)
    BY PlainNeedsMore
  <2>3. b \in Seq(Plain(K1)) /\ DOMAIN b = 1 .. 5
    BY <2>1, <2>2
  <2>4. \A i \in 1 .. 5 : Effect(b[i]) = Stmt("initReserves", i)
    BY <2>1 DEF Effect, Stmt
  <2>5. ReservesListed \subseteq {Effect(b[i]) : i \in DOMAIN b}
    BY <2>3, <2>4 DEF ReservesListed
  <2>6. Part(b, K1, K1 \cup {Effect(b[i]) : i \in DOMAIN b}) /\ NeverLends(b)
    BY <2>3, PartPlain
  <2> QED
    BY <2>5, <2>6 DEF Part
<1>3. Part(c, K2, K2) /\ LendsOnce(c)
  <2>1. Facts \subseteq K2
    BY DEF Facts
  <2> QED
    BY <2>1, LoanPart
<1> HIDE DEF a, b, c, K1, K2
<1>4. Part(a \o b, K, K2) /\ Part((a \o b) \o c, K, K2)
  BY <1>1, <1>2, <1>3, PartConcat
<1>5. NeverLends(a \o b) /\ LendsOnce((a \o b) \o c)
  BY <1>1, <1>2, <1>3, <1>4, LendsConcat DEF Part, WellFormed
<1> QED
  BY <1>4, <1>5 DEF Part, InitAndConfigure, a, b, c, K1, K2

\* The oracle tasks rely on the provider; the full one takes the oracle's administrator from
\* the configuration ...
LEMMA FullOraclesPart ==
  ASSUME NEW K, ProviderDeployed \in K, NEW m \in MarketNames, NEW e
  PROVE  /\ Part(FullOracles(loadPoolConfig(m), e), K, K)
         /\ NeverLends(FullOracles(loadPoolConfig(m), e))
<1> DEFINE market == loadPoolConfig(m)
           n == Cardinality(getLendingRateOracles(market, e.network))
           K1 == K \cup {AdminRead}
           a == <<Stmt("genesisAdmin", "none")>>
           b == Unless(Given(market, "AaveOracle", e), <<Stmt("deploy", "AaveOracle")>>)
           o == <<Stmt("deploy", "LendingRateOracle")>>
           c == Unless(Given(market, "LendingRateOracle", e), o \o SetMarketRates(n))
           d == <<Stmt("setAddress", "PRICE_ORACLE"), Stmt("setAddress", "LENDING_RATE_ORACLE")>>
<1>1. n \in Nat
  <2>1. IsFiniteSet(DOMAIN market.LendingRateOracleRates)
    BY MarketDataAssumption
  <2>2. IsFiniteSet(getLendingRateOracles(market, e.network))
    BY <2>1, FS_Subset DEF getLendingRateOracles
  <2> QED
    BY <2>2, FS_CardinalityType
<1> HIDE DEF n, market
<1>2. Part(Fail, K, K) /\ NeverLends(Fail)
  <2>1. Stmt("fail", "none") \in Plain(K)
    BY PlainNeedsNothing DEF PlainOps
  <2>2. Fail \in Seq(Plain(K))
    BY <2>1 DEF Fail
  <2> QED
    BY <2>2, PartPlainKeeps
<1>3. Part(a, K, K1) /\ NeverLends(a)
  <2>1. Stmt("genesisAdmin", "none") \in Plain(K)
    BY PlainNeedsNothing DEF PlainOps
  <2>2. a \in Seq(Plain(K))
    BY <2>1
  <2>3. 1 \in DOMAIN a /\ Effect(a[1]) = AdminRead
    BY DEF Effect, Stmt
  <2>4. Part(a, K, K \cup {Effect(a[i]) : i \in DOMAIN a}) /\ NeverLends(a)
    BY <2>2, PartPlain
  <2> QED
    BY <2>3, <2>4 DEF Part
<1>4. Part(b, K1, K1) /\ NeverLends(b)
  <2>1. Stmt("deploy", "AaveOracle") \in Plain(K1)
    BY PlainNeedsNothing DEF DbIds
  <2>2. <<Stmt("deploy", "AaveOracle")>> \in Seq(Plain(K1))
    BY <2>1
  <2>3. b \in Seq(Plain(K1))
    BY <2>2, UnlessSeq
  <2> QED
    BY <2>3, PartPlainKeeps
<1>5. Part(c, K1, K1) /\ NeverLends(c)
  <2>1. Stmt("deploy", "LendingRateOracle") \in Plain(K1)
    BY PlainNeedsNothing DEF DbIds
  <2>2. o \in Seq(Plain(K1)) /\ <<>> \in Seq(Plain(K1))
    BY <2>1
  <2>0. AdminRead \in K1
    OBVIOUS
  <2> HIDE DEF o, K1
  <2>3. /\ Part(o, K1, K1) /\ NeverLends(o)
        /\ Part(<<>>, K1, K1) /\ NeverLends(<<>>)
    BY <2>2, PartPlainKeeps
  <2>4. Part(SetMarketRates(n), K1, K1) /\ NeverLends(SetMarketRates(n))
    BY <1>1, <2>0, SetMarketRatesPart
  <2>5. Part(o \o SetMarketRates(n), K1, K1)
    BY <2>3, <2>4, PartConcat
  <2>6. NeverLends(o \o SetMarketRates(n))
    BY <2>3, <2>4, LendsConcat DEF Part, WellFormed
  <2> QED
    BY <2>3, <2>5, <2>6 DEF Unless
<1>6. Part(d, K1, K1) /\ NeverLends(d)
  <2>1. /\ Stmt("setAddress", "PRICE_ORACLE") \in Plain(K1)
        /\ Stmt("setAddress", "LENDING_RATE_ORACLE") \in Plain(K1)
    BY PlainNeedsProvider DEF OtherSlots, Slots, ProxiedSlots
  <2>2. d \in Seq(Plain(K1))
    BY <2>1
  <2> QED
    BY <2>2, PartPlainKeeps
<1> HIDE DEF a, b, o, c, d
<1>7. Part(a \o b, K, K1) /\ Part((a \o b) \o c, K, K1) /\ Part(((a \o b) \o c) \o d, K, K1)
  BY <1>3, <1>4, <1>5, <1>6, PartConcat
<1>8. NeverLends(a \o b) /\ NeverLends((a \o b) \o c) /\ NeverLends(((a \o b) \o c) \o d)
  BY <1>3, <1>4, <1>5, <1>6, <1>7, LendsConcat DEF Part, WellFormed
<1>9. Part(((a \o b) \o c) \o d, K, K)
  BY <1>7 DEF Part
<1>10. FullOracles(market, e) = Fail \/ FullOracles(market, e) = ((a \o b) \o c) \o d
  BY DEF FullOracles, a, b, c, d, o, n
<1> QED
  BY <1>2, <1>8, <1>9, <1>10 DEF market

\* ... the dev one reads the pool admin, which has to be appointed by then.
LEMMA DevOraclesPart ==
  ASSUME NEW K, ProviderDeployed \in K, AdminAppointed \in K, NEW m \in MarketNames
  PROVE  /\ Part(DevOracles(loadPoolConfig(m)), K, K)
         /\ NeverLends(DevOracles(loadPoolConfig(m)))
<1> DEFINE n == Cardinality(DOMAIN loadPoolConfig(m).LendingRateOracleRates)
           K1 == K \cup {AdminRead}
           a == <<Stmt("require", "MockTokens"), Stmt("readAdmin", "none"),
                  Stmt("deploy", "AaveOracle"), Stmt("setAddress", "PRICE_ORACLE"),
                  Stmt("deploy", "LendingRateOracle"), Stmt("setAddress", "LENDING_RATE_ORACLE")>>
<1>1. n \in Nat
  BY MarketDataAssumption, FS_CardinalityType
<1>2. Part(a, K, K1) /\ NeverLends(a)
  <2>1. /\ Stmt("require", "MockTokens") \in Plain(K)
        /\ Stmt("deploy", "AaveOracle") \in Plain(K)
        /\ Stmt("deploy", "LendingRateOracle") \in Plain(K)
    BY PlainNeedsNothing DEF DbIds
  <2>2. /\ Stmt("setAddress", "PRICE_ORACLE") \in Plain(K)
        /\ Stmt("setAddress", "LENDING_RATE_ORACLE") \in Plain(K)
    BY PlainNeedsProvider DEF OtherSlots, Slots, ProxiedSlots
  <2>3. Stmt("readAdmin", "none") \in Plain(K)
    BY PlainNeedsMore DEF AdminRead
  <2>4. a \in Seq(Plain(K))
    BY <2>1, <2>2, <2>3
  <2>5. 2 \in DOMAIN a /\ Effect(a[2]) = AdminRead
    BY DEF Effect, AdminRead, Stmt
  <2>6. Part(a, K, K \cup {Effect(a[i]) : i \in DOMAIN a}) /\ NeverLends(a)
    BY <2>4, PartPlain
  <2> QED
    BY <2>5, <2>6 DEF Part
<1>3. Part(SetMarketRates(n), K1, K1) /\ NeverLends(SetMarketRates(n))
  BY <1>1, SetMarketRatesPart
<1> HIDE DEF a, n
<1>4. Part(a \o SetMarketRates(n), K, K1)
  BY <1>2, <1>3, PartConcat
<1>5. NeverLends(a \o SetMarketRates(n))
  BY <1>2, <1>3, LendsConcat DEF Part, WellFormed
<1>6. Part(a \o SetMarketRates(n), K, K)
  BY <1>4 DEF Part
<1> QED
  BY <1>5, <1>6 DEF DevOracles, a, n

\* The data provider, the gateway, its authorization and the mock tokens are single plain
\* statements.
LEMMA SmallTasksPlain ==
  ASSUME NEW K, NEW market, NEW e
  PROVE  /\ Fail \in Seq(Plain(K))
         /\ DataProvider \in Seq(Plain(K))
         /\ WethGateway(market, e) \in Seq(Plain(K))
         /\ Authorize(market, e) \in Seq(Plain(K))
         /\ DevMockTokens \in Seq(Plain(K))
<1>1. /\ Stmt("fail", "none") \in Plain(K)
      /\ Stmt("authorize", "WETHGateway") \in Plain(K)
      /\ Stmt("authorize", "configured") \in Plain(K)
  BY PlainNeedsNothing DEF PlainOps
<1>2. /\ Stmt("deploy", "AaveProtocolDataProvider") \in Plain(K)
      /\ Stmt("deploy", "WETHGateway") \in Plain(K)
      /\ Stmt("deploy", "MockTokens") \in Plain(K)
  BY PlainNeedsNothing DEF DbIds
<1>3. Fail \in Seq(Plain(K))
  BY <1>1 DEF Fail
<1>4. DataProvider \in Seq(Plain(K)) /\ DevMockTokens \in Seq(Plain(K))
  BY <1>2 DEF DataProvider, DevMockTokens
<1>5. <<Stmt("deploy", "WETHGateway")>> \in Seq(Plain(K))
  BY <1>2
<1>6. <<Stmt("authorize", "WETHGateway")>> \in Seq(Plain(K))
  BY <1>1
<1>7. <<Stmt("authorize", "configured")>> \in Seq(Plain(K))
  BY <1>1
<1>8. WethGateway(market, e) \in Seq(Plain(K))
  BY <1>3, <1>5 DEF WethGateway
<1>9. Authorize(market, e) \in Seq(Plain(K))
  BY <1>3, <1>6, <1>7 DEF Authorize
<1> QED
  BY <1>3, <1>4, <1>8, <1>9

\* Both pool tasks rely on the provider and leave the proxies and the helpers.
LEMMA FullLendingPoolPart ==
  ASSUME NEW K, ProviderDeployed \in K, NEW market, NEW e
  PROVE  /\ Part(FullLendingPool(market, e), K, K \cup {ConfiguratorSaved, HelperDeployed})
         /\ NeverLends(FullLendingPool(market, e))
         /\ Part(DevLendingPool(e), K, K \cup {ConfiguratorSaved, HelperDeployed})
         /\ NeverLends(DevLendingPool(e))
<1>1. /\ Stmt("deploy", "LendingPool") \in Plain(K)
      /\ Stmt("deploy", "LendingPoolConfigurator") \in Plain(K)
  BY PlainNeedsNothing DEF DbIds
<1>2. <<Stmt("deploy", "LendingPool")>> \in Seq(Plain(K))
  BY <1>1
<1>3. <<Stmt("deploy", "LendingPoolConfigurator")>> \in Seq(Plain(K))
  BY <1>1
<1>4. /\ Unless(Given(market, "LendingPool", e), <<Stmt("deploy", "LendingPool")>>)
           \in Seq(Plain(K))
      /\ Unless(Given(market, "LendingPoolConfigurator", e),
                <<Stmt("deploy", "LendingPoolConfigurator")>>) \in Seq(Plain(K))
      /\ Unless(e.frozenCode, Fail) \in Seq(Plain(K))
  BY <1>2, <1>3, UnlessSeq, SmallTasksPlain
<1> QED
  BY <1>3, <1>4, PoolProxiesPart DEF FullLendingPool, DevLendingPool

\* The dev task deploys provider and registry and appoints the administrators.
LEMMA DevAddressProviderPart ==
  ASSUME NEW K
  PROVE  /\ Part(DevAddressProvider, K, K \cup {ProviderDeployed, AdminAppointed})
         /\ NeverLends(DevAddressProvider)
<1> DEFINE K1 == K \cup {ProviderDeployed}
           a == <<Stmt("deploy", "LendingPoolAddressesProvider")>>
           b == <<Stmt("appoint", "POOL_ADMIN"), Stmt("setAddress", "EMERGENCY_ADMIN"),
                  Stmt("deploy", "LendingPoolAddressesProviderRegistry"), Stmt("register", "none")>>
<1>1. Part(a, K, K1) /\ NeverLends(a)
  <2>1. Stmt("deploy", "LendingPoolAddressesProvider") \in Plain(K)
    BY PlainNeedsNothing DEF DbIds
  <2>2. a \in Seq(Plain(K))
    BY <2>1
  <2>3. 1 \in DOMAIN a /\ Effect(a[1]) = ProviderDeployed
    BY DEF Effect, ProviderDeployed, Stmt
  <2>4. Part(a, K, K \cup {Effect(a[i]) : i \in DOMAIN a}) /\ NeverLends(a)
    BY <2>2, PartPlain
  <2> QED
    BY <2>3, <2>4 DEF Part
<1>2. Part(b, K1, K1 \cup {AdminAppointed}) /\ NeverLends(b)
  <2>1. /\ AdminAppointed \in Plain(K1)
        /\ Stmt("setAddress", "EMERGENCY_ADMIN") \in Plain(K1)
    BY PlainNeedsProvider DEF OtherSlots, Slots, ProxiedSlots
  <2>2. /\ Stmt("deploy", "LendingPoolAddressesProviderRegistry") \in Plain(K1)
        /\ Stmt("register", "none") \in Plain(K1)
    BY PlainNeedsNothing DEF DbIds, PlainOps
  <2>3. b \in Seq(Plain(K1))
    BY <2>1, <2>2 DEF AdminAppointed
  <2>4. 1 \in DOMAIN b /\ Effect(b[1]) = AdminAppointed
    BY DEF Effect, AdminAppointed, Stmt
  <2>5. Part(b, K1, K1 \cup {Effect(b[i]) : i \in DOMAIN b}) /\ NeverLends(b)
    BY <2>3, PartPlain
  <2> QED
    BY <2>4, <2>5 DEF Part
<1>3. DevAddressProvider = a \o b
  BY DEF DevAddressProvider
<1> HIDE DEF a, b
<1>4. Part(a \o b, K, K1 \cup {AdminAppointed})
  BY <1>1, <1>2, PartConcat
<1>5. NeverLends(a \o b)
  BY <1>1, <1>2, LendsConcat DEF Part, WellFormed
<1>6. K1 \cup {AdminAppointed} = K \cup {ProviderDeployed, AdminAppointed}
  OBVIOUS
<1> QED
  BY <1>3, <1>4, <1>5, <1>6

\* Both initialize tasks rely on the provider, its administrator, the configurator's proxy and
\* the helper.
LEMMA FullInitializePart ==
  ASSUME NEW K, {ProviderDeployed, AdminAppointed, ConfiguratorSaved, HelperDeployed} \subseteq K,
         NEW market, NEW e
  PROVE  /\ Part(FullInitialize(market, e), K, K)
         /\ LendsOnce(FullInitialize(market, e))
         /\ Part(DevInitialize(market, e), K, K)
         /\ LendsOnce(DevInitialize(market, e))
<1> DEFINE b == Unless(Given(market, "LendingPoolCollateralManager", e),
                       <<Stmt("deploy", "LendingPoolCollateralManager")>>)
           c == <<Stmt("setAddress", "LENDING_POOL_COLLATERAL_MANAGER"),
                  Stmt("setAddress", "0x01"), Stmt("deploy", "WalletBalanceProvider")>>
           d == Authorize(market, e)
           h == <<Stmt("require", "MockTokens")>>
           i == <<Stmt("deploy", "LendingPoolCollateralManager"),
                  Stmt("setAddress", "LENDING_POOL_COLLATERAL_MANAGER"),
                  Stmt("deploy", "WalletBalanceProvider")>>
           a(tokens) == InitAndConfigure(tokens)
<1>1. /\ Stmt("setAddress", "LENDING_POOL_COLLATERAL_MANAGER") \in Plain(K)
      /\ Stmt("setAddress", "0x01") \in Plain(K)
  BY PlainNeedsProvider DEF OtherSlots, Slots, ProxiedSlots
<1>2. /\ Stmt("deploy", "LendingPoolCollateralManager") \in Plain(K)
      /\ Stmt("deploy", "WalletBalanceProvider") \in Plain(K)
      /\ Stmt("require", "MockTokens") \in Plain(K)
  BY PlainNeedsNothing DEF DbIds
<1>3. b \in Seq(Plain(K))
  <2>1. <<Stmt("deploy", "LendingPoolCollateralManager")>> \in Seq(Plain(K))
    BY <1>2
  <2> QED
    BY <2>1, UnlessSeq
<1>4. c \in Seq(Plain(K))
  BY <1>1, <1>2
<1>5. i \in Seq(Plain(K))
  BY <1>1, <1>2
<1>6. h \in Seq(Plain(K))
  BY <1>2
<1>7. d \in Seq(Plain(K)) /\ Fail \in Seq(Plain(K))
  BY SmallTasksPlain
<1>8. \A tokens \in {"assets", "mocks"} : Part(a(tokens), K, K) /\ LendsOnce(a(tokens))
  BY InitAndConfigurePart
<1>9. /\ FullInitialize(market, e) = Fail \/ FullInitialize(market, e) = a("assets") \o b \o c \o d
      /\ DevInitialize(market, e) = h \o a("mocks") \o i \o d
  BY DEF FullInitialize, DevInitialize
<1> HIDE DEF a, b, c, d, h, i
<1>10. /\ Part(b, K, K) /\ Part(c, K, K) /\ Part(d, K, K) /\ Part(h, K, K) /\ Part(i, K, K)
       /\ NeverLends(b) /\ NeverLends(c) /\ NeverLends(d) /\ NeverLends(h) /\ NeverLends(i)
       /\ Part(Fail, K, K) /\ NeverLends(Fail)
  BY <1>3, <1>4, <1>5, <1>6, <1>7, PartPlainKeeps
<1>11. /\ Part(a("assets") \o b, K, K) /\ Part(a("assets") \o b \o c, K, K)
       /\ Part(a("assets") \o b \o c \o d, K, K)
  BY <1>8, <1>10, PartConcat
<1>12. /\ LendsOnce(a("assets") \o b) /\ LendsOnce(a("assets") \o b \o c)
       /\ LendsOnce(a("assets") \o b \o c \o d)
  BY <1>8, <1>10, <1>11, LendsConcat DEF Part, WellFormed
<1>13. /\ Part(h \o a("mocks"), K, K) /\ Part(h \o a("mocks") \o i, K, K)
       /\ Part(h \o a("mocks") \o i \o d, K, K)
  BY <1>8, <1>10, PartConcat
<1>14. /\ LendsOnce(h \o a("mocks")) /\ LendsOnce(h \o a("mocks") \o i)
       /\ LendsOnce(h \o a("mocks") \o i \o d)
  BY <1>8, <1>10, <1>13, LendsConcat DEF Part, WellFormed
<1>15. LendsOnce(Fail)
  BY <1>10 DEF NeverLends, LendsOnce
<1> QED
  BY <1>9, <1>10, <1>11, <1>12, <1>13, <1>14, <1>15

(***************************************************************************)
(* The migrations.                                                         *)
(***************************************************************************)
LEMMA FullMigrationPart ==
  ASSUME NEW K, NEW m \in MarketNames, NEW e
  PROVE  /\ Part(FullMigration(loadPoolConfig(m), e), K,
                 K \cup {ProviderDeployed, AdminAppointed})
         /\ LendsOnce(FullMigration(loadPoolConfig(m), e))
<1> DEFINE market == loadPoolConfig(m)
           K2 == K \cup {ProviderDeployed, AdminAppointed}
           K4 == K2 \cup {ConfiguratorSaved, HelperDeployed}
           a == FullAddressProvider(market, e)
           b == FullLendingPool(market, e)
           c == FullOracles(market, e)
           d == DataProvider
           f == WethGateway(market, e)
           g == FullInitialize(market, e)
<1>1. Part(a, K, K2) /\ NeverLends(a)
  BY FullAddressProviderPart
<1>2. Part(b, K2, K4) /\ NeverLends(b)
  BY FullLendingPoolPart
<1>3. Part(c, K4, K4) /\ NeverLends(c)
  BY FullOraclesPart
<1>4. Part(d, K4, K4) /\ NeverLends(d) /\ Part(f, K4, K4) /\ NeverLends(f)
  BY SmallTasksPlain, PartPlainKeeps
<1>5. Part(g, K4, K4) /\ LendsOnce(g)
  BY FullInitializePart
<1>6. FullMigration(market, e) = a \o b \o c \o d \o f \o g
  BY DEF FullMigration
<1>7. K2 \subseteq K4
  OBVIOUS
<1> HIDE DEF a, b, c, d, f, g, K2, K4, market
<1>8. /\ Part(a \o b, K, K4) /\ Part(a \o b \o c, K, K4) /\ Part(a \o b \o c \o d, K, K4)
      /\ Part(a \o b \o c \o d \o f, K, K4) /\ Part(a \o b \o c \o d \o f \o g, K, K4)
  BY <1>1, <1>2, <1>3, <1>4, <1>5, PartConcat
<1>9. /\ NeverLends(a \o b) /\ NeverLends(a \o b \o c) /\ NeverLends(a \o b \o c \o d)
      /\ NeverLends(a \o b \o c \o d \o f) /\ LendsOnce(a \o b \o c \o d \o f \o g)
  BY <1>1, <1>2, <1>3, <1>4, <1>5, <1>8, LendsConcat DEF Part, WellFormed
<1>10. Part(a \o b \o c \o d \o f \o g, K, K2)
  BY <1>7, <1>8 DEF Part
<1> QED
  BY <1>6, <1>9, <1>10 DEF market, K2

\* The dev migrations establish the same out of nothing.
LEMMA DevMigrationPart ==
  ASSUME NEW K, NEW m \in MarketNames, NEW e
  PROVE  /\ Part(DevMigration(loadPoolConfig(m), e), K,
                 K \cup {ProviderDeployed, AdminAppointed})
         /\ LendsOnce(DevMigration(loadPoolConfig(m), e))
<1> DEFINE market == loadPoolConfig(m)
           K2 == K \cup {ProviderDeployed, AdminAppointed}
           K4 == K2 \cup {ConfiguratorSaved, HelperDeployed}
           z == Unless(e.ownTokens, DevMockTokens)
           a == DevAddressProvider
           b == DevLendingPool(e)
           c == DevOracles(market)
           d == DataProvider
           f == WethGateway(market, e)
           g == DevInitialize(market, e)
<1>0. Part(z, K, K) /\ NeverLends(z)
  <2>1. z \in Seq(Plain(K))
    BY SmallTasksPlain, UnlessSeq
  <2> QED
    BY <2>1, PartPlainKeeps
<1>1. Part(a, K, K2) /\ NeverLends(a)
  BY DevAddressProviderPart
<1>2. Part(b, K2, K4) /\ NeverLends(b)
  BY FullLendingPoolPart
<1>3. Part(c, K4, K4) /\ NeverLends(c)
  BY DevOraclesPart
<1>4. Part(d, K4, K4) /\ NeverLends(d) /\ Part(f, K4, K4) /\ NeverLends(f)
  BY SmallTasksPlain, PartPlainKeeps
<1>5. Part(g, K4, K4) /\ LendsOnce(g)
  BY FullInitializePart
<1>6. DevMigration(market, e) = z \o a \o b \o c \o d \o f \o g
  BY DEF DevMigration
<1>7. K2 \subseteq K4
  OBVIOUS
<1> HIDE DEF z, a, b, c, d, f, g, K2, K4, market
<1>8. /\ Part(z \o a, K, K2) /\ Part(z \o a \o b, K, K4) /\ Part(z \o a \o b \o c, K, K4)
      /\ Part(z \o a \o b \o c \o d, K, K4) /\ Part(z \o a \o b \o c \o d \o f, K, K4)
      /\ Part(z \o a \o b \o c \o d \o f \o g, K, K4)
  BY <1>0, <1>1, <1>2, <1>3, <1>4, <1>5, PartConcat
<1>9. /\ NeverLends(z \o a) /\ NeverLends(z \o a \o b) /\ NeverLends(z \o a \o b \o c)
      /\ NeverLends(z \o a \o b \o c \o d) /\ NeverLends(z \o a \o b \o c \o d \o f)
      /\ LendsOnce(z \o a \o b \o c \o d \o f \o g)
  BY <1>0, <1>1, <1>2, <1>3, <1>4, <1>5, <1>8, LendsConcat DEF Part, WellFormed
<1>10. Part(z \o a \o b \o c \o d \o f \o g, K, K2)
  BY <1>7, <1>8 DEF Part
<1> QED
  BY <1>6, <1>9, <1>10 DEF market, K2

\* aave:mainnet relies on the markets of earlier runs.
LEMMA AaveMainnetPart ==
  ASSUME NEW m \in MarketNames, NEW e
  PROVE  /\ Part(AaveMainnet(loadPoolConfig(m), e), Facts, Facts)
         /\ LendsOnce(AaveMainnet(loadPoolConfig(m), e))
<1> DEFINE market == loadPoolConfig(m)
           c == DevOracles(market)
           d == DataProvider
           f == WethGateway(market, e)
           g == FullInitialize(market, e)
<1>1. {ProviderDeployed, AdminAppointed, ConfiguratorSaved, HelperDeployed} \subseteq Facts
  BY DEF Facts
<1>2. Part(c, Facts, Facts) /\ NeverLends(c)
  BY <1>1, DevOraclesPart
<1>3. Part(d, Facts, Facts) /\ NeverLends(d) /\ Part(f, Facts, Facts) /\ NeverLends(f)
  BY SmallTasksPlain, PartPlainKeeps
<1>4. Part(g, Facts, Facts) /\ LendsOnce(g)
  BY <1>1, FullInitializePart
<1>5. AaveMainnet(market, e) = c \o d \o f \o g
  BY DEF AaveMainnet
<1> HIDE DEF c, d, f, g, market
<1>6. /\ Part(c \o d, Facts, Facts) /\ Part(c \o d \o f, Facts, Facts)
      /\ Part(c \o d \o f \o g, Facts, Facts)
  BY <1>2, <1>3, <1>4, PartConcat
<1>7. NeverLends(c \o d) /\ NeverLends(c \o d \o f) /\ LendsOnce(c \o d \o f \o g)
  BY <1>2, <1>3, <1>4, <1>6, LendsConcat DEF Part, WellFormed
<1> QED
  BY <1>5, <1>6, <1>7 DEF market

\* Every script works with one of the market configurations.
LEMMA MarketOfScript ==
  ASSUME NEW s
  PROVE  \E m \in MarketNames : MarketOf(s) = loadPoolConfig(m)
BY DEF MarketOf, MarketNames

(***************************************************************************)
(* Whatever holds when a script that deploys a market of its own is        *)
(* started, every statement of it finds what it needs.                     *)
(***************************************************************************)
LEMMA ProgramsAreSound ==
  ASSUME NEW s \in Scripts, NEW e, NEW K
  PROVE  /\ WellFormed(Program(s, e)) /\ Opens(Program(s, e)) /\ LendsOnce(Program(s, e))
         /\ s \in WholeScripts =>
              Part(Program(s, e), K, K \cup {ProviderDeployed, AdminAppointed})
<1> DEFINE L == K \cup {ProviderDeployed, AdminAppointed}
<1>1. PICK m \in MarketNames : MarketOf(s) = loadPoolConfig(m)
  BY MarketOfScript
<1>2. s \in {"amm:mainnet", "sidechain:mainnet", "aave:mainnet", "aave:dev", "dev:all"}
  BY DeploymentAssumption
<1>3. Part(FullMigration(MarketOf(s), e), K, L) /\ LendsOnce(FullMigration(MarketOf(s), e))
  BY <1>1, FullMigrationPart
<1>4. CASE s = "amm:mainnet"
  <2>1. Program(s, e) = FullMigration(MarketOf(s), e)
    BY <1>4 DEF Program
  <2> QED
    BY <1>3, <2>1 DEF Part
<1>5. CASE s = "sidechain:mainnet"
  <2> DEFINE r == FullAddressProviderRegistry(MarketOf(s), e)
             f == FullMigration(MarketOf(s), e)
  <2>1. Program(s, e) = r \o f
    BY <1>5 DEF Program
  <2>2. Part(r, K, K) /\ NeverLends(r)
    BY FullAddressProviderPlain, PartPlainKeeps
  <2> HIDE DEF r, f, L
  <2>3. Part(r \o f, K, L)
    BY <1>3, <2>2, PartConcat DEF f
  <2>4. LendsOnce(r \o f)
    BY <1>3, <2>2, LendsConcat DEF Part, WellFormed, f
  <2> QED
    BY <2>1, <2>3, <2>4 DEF Part, L
<1>6. CASE s = "aave:mainnet"
  <2>1. Program(s, e) = AaveMainnet(MarketOf(s), e)
    BY <1>6 DEF Program
  <2> QED
    BY <1>1, <1>6, <2>1, AaveMainnetPart DEF Part, WholeScripts
<1>7. CASE s = "aave:dev"
  <2>1. Program(s, e) = DevInitialize(MarketOf(s), e)
    BY <1>7 DEF Program
  <2>2. {ProviderDeployed, AdminAppointed, ConfiguratorSaved, HelperDeployed} \subseteq Facts
    BY DEF Facts
  <2>3. /\ Part(DevInitialize(MarketOf(s), e), Facts, Facts)
        /\ LendsOnce(DevInitialize(MarketOf(s), e))
    BY <2>2, FullInitializePart
  <2> QED
    BY <1>7, <2>1, <2>3 DEF Part, WholeScripts
<1>8. CASE s = "dev:all"
  <2>1. Program(s, e) = DevMigration(MarketOf(s), e)
    BY <1>8 DEF Program
  <2> QED
    BY <1>1, <2>1, DevMigrationPart DEF Part
<1> QED
  BY <1>2, <1>4, <1>5, <1>6, <1>7, <1>8

(***************************************************************************)
(* What is left of a program after its first n statements.                 *)
(***************************************************************************)
Drop(p, n) == SubSeq(p, n + 1, Len(p))

\* The statements of what is left are those of the program, n further on.
LEMMA DropElements ==
  ASSUME NEW S, NEW p \in Seq(S), NEW n \in 0 .. Len(p)
  PROVE  /\ Drop(p, n) \in Seq(S)
         /\ Len(p) \in Nat /\ Len(Drop(p, n)) = Len(p) - n
         /\ DOMAIN p = 1 .. Len(p) /\ DOMAIN Drop(p, n) = 1 .. Len(p) - n
         /\ \A i \in DOMAIN Drop(p, n) : i + n \in DOMAIN p /\ Drop(p, n)[i] = p[i + n]
         /\ \A i \in DOMAIN p : i > n => i - n \in DOMAIN Drop(p, n) /\ Drop(p, n)[i - n] = p[i]
BY DEF Drop

\* Advancing drops one statement.
LEMMA TailDrops ==
  ASSUME NEW S, NEW p \in Seq(S), p # <<>>
  PROVE  Tail(p) = Drop(p, 1) /\ 1 \in 0 .. Len(p) /\ 1 \in DOMAIN p
BY DEF Drop

\* What is left of a program keeps the order of loans and promises; after the loan it lends no
\* more, and it starts in the middle of a loan only if the statement before was the loan's.
LEMMA DropWellFormed ==
  ASSUME NEW p, WellFormed(p), LendsOnce(p), NEW n \in 0 .. Len(p)
  PROVE  /\ WellFormed(Drop(p, n)) /\ LendsOnce(Drop(p, n))
         /\ NeverLends(p) => NeverLends(Drop(p, n))
         /\ (\E i \in 1 .. n : p[i].op = "lend") => NeverLends(Drop(p, n))
         /\ \A link \in Links :
              n > 0 /\ Drop(p, n) # <<>> /\ Drop(p, n)[1].op = link[2] => p[n].op = link[1]
<1> DEFINE q == Drop(p, n)
<1>0. p \in Seq(Statements)
  BY DEF WellFormed
<1>1. /\ q \in Seq(Statements)
      /\ Len(p) \in Nat /\ Len(q) = Len(p) - n
      /\ DOMAIN p = 1 .. Len(p) /\ DOMAIN q = 1 .. Len(p) - n
      /\ \A i \in DOMAIN q : i + n \in DOMAIN p /\ q[i] = p[i + n]
      /\ \A i \in DOMAIN p : i > n => i - n \in DOMAIN q /\ q[i - n] = p[i]
  BY <1>0, DropElements
<1> HIDE DEF q
<1>2. Linked(q)
  <2> SUFFICES ASSUME NEW i \in DOMAIN q, NEW link \in Links
               PROVE  /\ q[i].op = link[1] => i + 1 \in DOMAIN q /\ q[i + 1].op = link[2]
                      /\ q[i].op = link[2] /\ i > 1 => q[i - 1].op = link[1]
    BY DEF Linked
  <2>1. PICK k \in DOMAIN p : k = i + n
    BY <1>1
  <2>2. Linked(p)
    BY DEF WellFormed
  <2>3. /\ p[k].op = link[1] => k + 1 \in DOMAIN p /\ p[k + 1].op = link[2]
        /\ p[k].op = link[2] /\ k > 1 => p[k - 1].op = link[1]
    BY <2>2 DEF Linked
  <2>4. q[i] = p[k]
    BY <1>1, <2>1
  <2>5. k + 1 \in DOMAIN p => i + 1 \in DOMAIN q /\ q[i + 1] = p[k + 1]
    BY <1>1, <2>1
  <2>6. i > 1 => i - 1 \in DOMAIN q /\ q[i - 1] = p[k - 1] /\ k > 1
    BY <1>1, <2>1
  <2> QED
    BY <2>3, <2>4, <2>5, <2>6
<1>3. Promised(q)
  <2> SUFFICES ASSUME NEW i \in DOMAIN q, q[i].op = "transferOwnership"
               PROVE  \E j \in DOMAIN q : j > i /\ q[j].op = "setOracleOwnership"
    BY DEF Promised
  <2>1. PICK j \in DOMAIN p : j > i + n /\ p[j].op = "setOracleOwnership"
    BY <1>1 DEF WellFormed, Promised
  <2>2. j > n /\ j - n > i
    BY <1>1, <2>1
  <2> QED
    BY <1>1, <2>1, <2>2
<1>4. LendsOnce(q)
  <2> SUFFICES ASSUME NEW i \in DOMAIN q, NEW j \in DOMAIN q, q[i].op = "lend", q[j].op = "lend"
               PROVE  i = j
    BY DEF LendsOnce
  <2>1. i + n = j + n
    BY <1>1 DEF LendsOnce
  <2> QED
    BY <1>1, <2>1
<1>5. NeverLends(p) => NeverLends(q)
  BY <1>1 DEF NeverLends
<1>6. ASSUME NEW i \in 1 .. n, p[i].op = "lend"
      PROVE  NeverLends(q)
  <2> SUFFICES ASSUME NEW j \in DOMAIN q, q[j].op = "lend"
               PROVE  FALSE
    BY DEF NeverLends
  <2>1. j + n \in DOMAIN p /\ p[j + n].op = "lend" /\ i \in DOMAIN p
    BY <1>1
  <2>2. i = j + n
    BY <1>6, <2>1 DEF LendsOnce
  <2> QED
    BY <1>1, <2>2
<1>7. ASSUME NEW link \in Links, n > 0, q # <<>>, q[1].op = link[2]
      PROVE  p[n].op = link[1]
  <2>1. 1 \in DOMAIN q
    BY <1>1, <1>7
  <2>2. n + 1 \in DOMAIN p /\ p[n + 1].op = link[2] /\ n + 1 > 1
    BY <1>1, <1>7, <2>1
  <2>3. p[n + 1 - 1].op = link[1]
    BY <2>2 DEF WellFormed, Linked
  <2> QED
    BY <1>1, <2>3
<1> QED
  BY <1>1, <1>2, <1>3, <1>4, <1>5, <1>6, <1>7 DEF WellFormed, q

\* Only the facts among what the first statements establish are ever needed.
LEMMA DropSound ==
  ASSUME NEW p, WellFormed(p), NEW K, NEW L, Sound(p, K), L \subseteq K \cup Effects(p, Len(p)),
         L \subseteq Facts, NEW n \in 0 .. Len(p), NEW J, K \subseteq J,
         Effects(p, n) \cap Facts \subseteq J
  PROVE  Sound(Drop(p, n), J) /\ L \subseteq J \cup Effects(Drop(p, n), Len(Drop(p, n)))
<1> DEFINE q == Drop(p, n)
<1>0. p \in Seq(Statements)
  BY DEF WellFormed
<1>1. /\ q \in Seq(Statements)
      /\ Len(p) \in Nat /\ Len(q) = Len(p) - n
      /\ DOMAIN p = 1 .. Len(p) /\ DOMAIN q = 1 .. Len(p) - n
      /\ \A i \in DOMAIN q : i + n \in DOMAIN p /\ q[i] = p[i + n]
      /\ \A i \in DOMAIN p : i > n => i - n \in DOMAIN q /\ q[i - n] = p[i]
  BY <1>0, DropElements
<1> HIDE DEF q
<1>2. \A k \in 0 .. Len(q) : Effects(p, k + n) \cap Facts \subseteq J \cup Effects(q, k)
  <2> SUFFICES ASSUME NEW k \in 0 .. Len(q), NEW i \in DOMAIN p, i <= k + n, Effect(p[i]) \in Facts
               PROVE  Effect(p[i]) \in J \cup Effects(q, k)
    BY DEF Effects
  <2>1. CASE i <= n
    BY <2>1 DEF Effects
  <2>2. CASE i > n
    <3>1. i - n \in DOMAIN q /\ q[i - n] = p[i] /\ i - n <= k
      BY <1>1, <2>2
    <3> QED
      BY <3>1 DEF Effects
  <2> QED
    BY <1>1, <2>1, <2>2
<1>3. \A st : Needs(st) \subseteq Facts
  BY DEF Needs, Facts
<1>4. Sound(q, J)
  <2> SUFFICES ASSUME NEW i \in DOMAIN q
               PROVE  Needs(q[i]) \subseteq J \cup Effects(q, i - 1)
    BY DEF Sound
  <2>1. Needs(p[i + n]) \subseteq K \cup Effects(p, i + n - 1)
    BY <1>1 DEF Sound
  <2>2. i - 1 \in 0 .. Len(q) /\ (i - 1) + n = i + n - 1 /\ q[i] = p[i + n]
    BY <1>1
  <2>3. Effects(p, i + n - 1) \cap Facts \subseteq J \cup Effects(q, i - 1)
    BY <1>2, <2>2
  <2>4. Needs(q[i]) \subseteq Facts
    BY <1>3
  <2> QED
    BY <2>1, <2>2, <2>3, <2>4
<1>5. L \subseteq J \cup Effects(q, Len(q))
  <2>1. Len(q) \in 0 .. Len(q) /\ Len(q) + n = Len(p)
    BY <1>1
  <2> QED
    BY <1>2, <2>1
<1> QED
  BY <1>4, <1>5 DEF q

(***************************************************************************)
(* The invariant.  First what holds whatever scripts are run: the types,   *)
(* and that no run has touched the markets of later ones.                  *)
(***************************************************************************)
Lent == program # <<>> /\ Op \in {"configure", "return"}

Untouched(p) ==
  addresses[p] = EmptyAddresses /\ configured[p] = {} /\ rateOwner[p] = None

TypeInv ==
  /\ env \in Environments
  /\ run \in 0 .. MaxRuns
  /\ db \in [DbIds -> Contracts]
  /\ \A i \in DbIds : db[i].market <= run
  /\ \A i \in BoundIds : db[i] # None => db[i].market # 0
  /\ addresses \in [Runs -> [Slots -> Contracts]]
  /\ \A p \in Runs, s \in ProxiedSlots : addresses[p][s] \in {None, Contract(s, p, p)}
  /\ listed \in [Runs -> SUBSET Literals]
  /\ deposited \in [Runs -> SUBSET Literals]
  /\ \A p \in Runs : deposited[p] \subseteq listed[p]
  /\ configured \in [Runs -> SUBSET AllTokens]
  /\ rateOwner \in [Runs -> Contracts]
  /\ registered \subseteq Runs
  /\ status \in {"idle", "running", "done", "failed", "crashed"}
  /\ admin \in Contracts
  /\ inputs \in Seq(SUBSET AllTokens)
  /\ \A p \in Runs : p > run => Untouched(p)

ProcessInv ==
  /\ status = "running" => run \in Runs /\ script \in Scripts
  /\ status # "running" => script = "none" /\ program = <<>>
  /\ WellFormed(program) /\ LendsOnce(program)
  /\ Lent => Market # 0 /\ Helper # None /\ NeverLends(program)
  /\ Running("lend") \/ Running("configure") => inputs # <<>>

(***************************************************************************)
(* A script that deploys a market of its own has, at every statement, what *)
(* the statement needs.                                                    *)
(***************************************************************************)
Established(K) ==
  /\ ProviderDeployed \in K => Market = run
  /\ AdminAppointed \in K => addresses[run]["POOL_ADMIN"] = Deployer \/ Lent
  /\ ConfiguratorSaved \in K => Configurator.market \in {0, run}
  /\ HelperDeployed \in K => Helper = Contract("ATokensAndRatesHelper", run, run)
  /\ AdminRead \in K => admin = Deployer
  /\ \A i \in 1 .. 5 :
       Stmt("initReserves", i) \in K => DOMAIN chunkedInitInputParams[i] \subseteq listed[run]

Supplied(K) ==
  /\ Established(K)
  /\ Sound(program, K)
  /\ {ProviderDeployed, AdminAppointed} \subseteq K \cup Effects(program, Len(program))

(***************************************************************************)
(* ... and its market is with the deployer, or with its helper, which will *)
(* have configured a reserve when the market is returned.                  *)
(***************************************************************************)
CustodyInv ==
  /\ addresses[run]["POOL_ADMIN"] \in {None, Deployer} \/ Lent
  /\ Lent =>
       /\ Market = run
       /\ Helper = Contract("ATokensAndRatesHelper", run, run)
       /\ addresses[run]["POOL_ADMIN"] = Helper
       /\ admin = Deployer
  /\ configured[run] # {} => NeverLends(program)
  /\ Running("lend") \/ Running("configure") =>
       configured[run] # {} \/ \E i \in DOMAIN inputs : inputs[i] # {}
  /\ Running("return") => configured[run] # {}
  /\ \/ rateOwner[run] \in {None, Deployer}
     \/ \E i \in DOMAIN program : program[i].op = "setOracleOwnership"

WholeInv == script \in WholeScripts => CustodyInv /\ \E K : Supplied(K)

DeploymentInv == TypeInv /\ ProcessInv /\ WholeInv

\* What the argument of a statement is.
LEMMA StatementArguments ==
  ASSUME NEW st \in Statements
  PROVE  /\ st.op \in {"deploy", "require"} => st.arg \in DbIds
         /\ st.op = "saveProxy" => st.arg \in {"LendingPool", "LendingPoolConfigurator"}
         /\ st.op = "appoint" => st.arg = "POOL_ADMIN" /\ st = AdminAppointed
         /\ st.op = "setAddress" => st.arg \in OtherSlots
         /\ st.op = "setImpl" => st.arg \in ProxiedSlots
         /\ st.op = "initReserves" => st.arg \in 1 .. 5 /\ st = Stmt("initReserves", st.arg)
         /\ st.op = "readInputs" => st.arg \in {"assets", "mocks"}
         /\ st.op \in {"deploy", "saveProxy"} => st = Stmt(st.op, st.arg)
BY DEF Statements, PlainStatements, PlainOps, AdminAppointed, Stmt

\* The contracts that are deployed are contracts; nobody and the deployer are none of a market.
LEMMA ContractTypes ==
  /\ \A id \in DbIds \cup Slots, r, m \in 0 .. MaxRuns : Contract(id, r, m) \in Contracts
  /\ \A id, r, m : Contract(id, r, m).market = m /\ Contract(id, r, m).id = id
  /\ None \in Contracts /\ Deployer \in Contracts /\ None # Deployer
  /\ None.market = 0 /\ None.id = "none" /\ Deployer.id = "Deployer"
BY DeploymentAssumption DEF Contracts, Contract, None, Deployer

\* A process with statements left is running one of the scripts.
LEMMA RunningProcess ==
  ASSUME TypeInv, ProcessInv, program # <<>>
  PROVE  /\ status = "running" /\ run \in Runs /\ script \in Scripts /\ script # "none"
         /\ program \in Seq(Statements) /\ 1 \in DOMAIN program
         /\ program[1] \in Statements
         /\ Len(program) \in Nat /\ 1 \in 0 .. Len(program)
         /\ Tail(program) = Drop(program, 1)
<1>1. status = "running" /\ run \in Runs /\ script \in Scripts
  BY DEF TypeInv, ProcessInv
<1>2. script # "none"
  BY <1>1, DeploymentAssumption
<1>3. program \in Seq(Statements)
  BY DEF ProcessInv, WellFormed
<1> QED
  BY <1>1, <1>2, <1>3, TailDrops

\* At first the file is empty (but for the network's own tokens) and no market is touched.
LEMMA TypeInit == Init => TypeInv
<1> SUFFICES ASSUME Init
             PROVE  TypeInv
  OBVIOUS
<1>1. run = 0 /\ run \in 0 .. MaxRuns /\ Runs \subseteq 1 .. MaxRuns
  BY DeploymentAssumption DEF Init, Runs
<1>2. db \in [DbIds -> Contracts] /\ \A i \in DbIds : db[i].market = 0
  <2>1. \A i \in DbIds : Contract(i, 0, 0) \in Contracts /\ Contract(i, 0, 0).market = 0
    BY <1>1, ContractTypes
  <2>2. \A i \in DbIds : db[i] = Contract(i, 0, 0) \/ db[i] = None
    BY DEF Init
  <2> QED
    BY <2>1, <2>2, ContractTypes DEF Init
<1>3. \A i \in BoundIds : db[i] = None
  BY DEF Init, BoundIds, DbIds
<1>4. addresses \in [Runs -> [Slots -> Contracts]] /\ \A p \in Runs : addresses[p] = EmptyAddresses
  BY ContractTypes DEF Init, EmptyAddresses
<1>5. \A s \in Slots : EmptyAddresses[s] = None
  BY DEF EmptyAddresses
<1>6. \A p \in Runs, s \in ProxiedSlots : addresses[p][s] = None
  BY <1>4, <1>5 DEF Slots
<1>7. /\ listed \in [Runs -> SUBSET Literals] /\ deposited \in [Runs -> SUBSET Literals]
      /\ configured \in [Runs -> SUBSET AllTokens] /\ rateOwner \in [Runs -> Contracts]
      /\ inputs \in Seq(SUBSET AllTokens)
  BY ContractTypes DEF Init
<1>8. \A p \in Runs : deposited[p] \subseteq listed[p] /\ Untouched(p)
  BY <1>4 DEF Init, Untouched
<1> QED
  BY <1>1, <1>2, <1>3, <1>4, <1>6, <1>7, <1>8, ContractTypes DEF Init, TypeInv

(***************************************************************************)
(* Every step keeps the types.                                             *)
(***************************************************************************)
\* The tables of the types that a step leaves alone keep theirs.
LEMMA TypeFrame ==
  ASSUME TypeInv, UNCHANGED <<env, db, addresses, listed, configured, deposited, rateOwner,
                              registered, run, status, admin, inputs>>
  PROVE  TypeInv'
BY DEF TypeInv, Untouched

\* The market that the file names is one of the markets deployed so far.
LEMMA MarketTypes ==
  ASSUME TypeInv
  PROVE  /\ \A i \in DbIds : db[i].market \in 0 .. run
         /\ Market \in 0 .. run /\ Helper.market \in 0 .. run /\ Configurator.market \in 0 .. run
         /\ run \in 0 .. MaxRuns /\ MaxRuns \in Nat
         /\ \A p \in 0 .. run : p # 0 => p \in Runs
         /\ Helper \in Contracts /\ RatesHelper \in Contracts
<1>1. MaxRuns \in Nat /\ run \in 0 .. MaxRuns
  BY DeploymentAssumption DEF TypeInv
<1>2. \A i \in DbIds : db[i] \in Contracts /\ db[i].market \in 0 .. run
  <2> SUFFICES ASSUME NEW i \in DbIds
               PROVE  db[i] \in Contracts /\ db[i].market \in 0 .. run
    OBVIOUS
  <2>1. db[i] \in Contracts /\ db[i].market <= run
    BY DEF TypeInv
  <2>2. db[i].market \in 0 .. MaxRuns
    BY <2>1 DEF Contracts
  <2> QED
    BY <1>1, <2>1, <2>2
<1>3. \A p \in 0 .. run : p # 0 => p \in Runs
  BY <1>1 DEF Runs
<1>4. {"LendingPoolAddressesProvider", "ATokensAndRatesHelper", "LendingPoolConfigurator",
       "StableAndVariableTokensHelper"} \subseteq DbIds
  BY DEF DbIds
<1> QED
  BY <1>1, <1>2, <1>3, <1>4 DEF Market, Helper, Configurator, RatesHelper

\* A deployment names a contract of the current run, bound to a market there is.
LEMMA DeployTypes ==
  ASSUME TypeInv, ProcessInv, Deploy
  PROVE  TypeInv'
<1> DEFINE market == IF Arg = "LendingPoolAddressesProvider" THEN run
                     ELSE IF Arg \in BoundIds THEN Market ELSE 0
<1>1. program # <<>> /\ Op = "deploy"
  BY DEF Deploy, Statement, Running
<1>2. Arg \in DbIds /\ run \in Runs
  BY <1>1, RunningProcess, StatementArguments DEF Op, Arg
<1>3. Arg \in BoundIds => Market # 0
  BY <1>1 DEF Deploy, Statement, Succeeds
<1>4. /\ market \in 0 .. run /\ market \in 0 .. MaxRuns /\ run \in 0 .. MaxRuns
      /\ Arg \in BoundIds => market # 0
  BY <1>2, <1>3, MarketTypes DEF Runs, BoundIds
<1>5. db' = [db EXCEPT ![Arg] = Contract(Arg, run, market)]
  BY DEF Deploy
<1> HIDE DEF market
<1>6. Contract(Arg, run, market) \in Contracts /\ Contract(Arg, run, market).market = market
  BY <1>2, <1>4, ContractTypes
<1>7. /\ db' \in [DbIds -> Contracts]
      /\ \A i \in DbIds : db'[i] = IF i = Arg THEN Contract(Arg, run, market) ELSE db[i]
  BY <1>5, <1>6 DEF TypeInv
<1>8. /\ \A i \in DbIds : db'[i].market <= run
      /\ \A i \in BoundIds : db'[i] # None => db'[i].market # 0
  <2>1. BoundIds \subseteq DbIds
    BY DEF BoundIds, DbIds
  <2> QED
    BY <1>4, <1>6, <1>7, <2>1 DEF TypeInv
<1>9. /\ rateOwner' \in [Runs -> Contracts]
      /\ \A p \in Runs : p > run => rateOwner'[p] = rateOwner[p]
  BY <1>2, ContractTypes DEF Deploy, TypeInv, Runs
<1>10. UNCHANGED <<env, addresses, listed, configured, deposited, registered, run, status,
                   admin, inputs>>
  BY DEF Deploy, processVars
<1> QED
  BY <1>7, <1>8, <1>9, <1>10 DEF TypeInv, Untouched

\* The proxy that is saved under a name is that of the market in the file.
LEMMA SaveProxyTypes ==
  ASSUME TypeInv, ProcessInv, SaveProxy
  PROVE  TypeInv'
<1>1. program # <<>> /\ Op = "saveProxy"
  BY DEF SaveProxy, Statement, Running
<1>2. Arg \in DbIds /\ Arg \notin BoundIds
  BY <1>1, RunningProcess, StatementArguments DEF Op, Arg, DbIds, BoundIds
<1>3. Contract(Arg, Market, Market) \in Contracts /\ Contract(Arg, Market, Market).market = Market
  BY <1>2, MarketTypes, ContractTypes
<1>4. /\ db' \in [DbIds -> Contracts]
      /\ \A i \in DbIds : db'[i] = IF i = Arg THEN Contract(Arg, Market, Market) ELSE db[i]
  BY <1>3 DEF TypeInv, SaveProxy
<1>5. Market <= run
  BY MarketTypes
<1>6. BoundIds \subseteq DbIds
  BY DEF BoundIds, DbIds
<1> QED
  BY <1>2, <1>3, <1>4, <1>5, <1>6 DEF TypeInv, Untouched, SaveProxy, chainVars, processVars

\* A market's table after one of its addresses has been set.
LEMMA SettingTypes ==
  ASSUME TypeInv, NEW p \in Runs, p <= run, NEW id \in Slots, NEW a \in Contracts,
         id \in ProxiedSlots => a = Contract(id, p, p), Setting(p, id, a)
  PROVE  /\ addresses' \in [Runs -> [Slots -> Contracts]]
         /\ \A q \in Runs : q # p => addresses'[q] = addresses[q]
         /\ \A s \in Slots : addresses'[p][s] = IF s = id THEN a ELSE addresses[p][s]
         /\ \A q \in Runs, s \in ProxiedSlots : addresses'[q][s] \in {None, Contract(s, q, q)}
         /\ \A q \in Runs : q > run => addresses'[q] = addresses[q]
<1>1. addresses' = [addresses EXCEPT ![p] = [addresses[p] EXCEPT ![id] = a]]
  BY DEF Setting, setAddress
<1>2. addresses \in [Runs -> [Slots -> Contracts]]
  BY DEF TypeInv
<1>3. /\ addresses' \in [Runs -> [Slots -> Contracts]]
      /\ \A q \in Runs : q # p => addresses'[q] = addresses[q]
      /\ \A s \in Slots : addresses'[p][s] = IF s = id THEN a ELSE addresses[p][s]
  BY <1>1, <1>2
<1>4. ASSUME NEW q \in Runs, NEW s \in ProxiedSlots
      PROVE  addresses'[q][s] \in {None, Contract(s, q, q)}
  <2>1. s \in Slots /\ addresses[q][s] \in {None, Contract(s, q, q)}
    BY DEF TypeInv, Slots
  <2>2. CASE q # p
    BY <1>3, <2>1, <2>2
  <2>3. CASE q = p /\ s # id
    BY <1>3, <2>1, <2>3
  <2>4. CASE q = p /\ s = id
    BY <1>3, <2>1, <2>4
  <2> QED
    BY <2>2, <2>3, <2>4
<1>5. \A q \in Runs : q > run => q # p
  BY DEF TypeInv, Runs
<1> QED
  BY <1>3, <1>4, <1>5

\* Which address a transaction to the provider sets.
LEMMA ProviderAddress ==
  ASSUME TypeInv, ProcessInv, SetProviderAddress
  PROVE  /\ Market \in Runs /\ Market <= run
         /\ \E a \in Contracts :
              /\ Setting(Market, Arg, a) /\ Arg \in Slots
              /\ Arg \in ProxiedSlots => a = Contract(Arg, Market, Market)
              /\ \/ Op = "appoint" /\ Arg = "POOL_ADMIN" /\ a = Deployer
                 \/ Op \in {"setAddress", "setImpl"} /\ Arg # "POOL_ADMIN"
<1>1. program # <<>> /\ run \in 0 .. MaxRuns /\ Market \in 0 .. MaxRuns /\ 0 \in 0 .. MaxRuns
  BY MarketTypes DEF SetProviderAddress, Statement, Running
<1>2. CASE Statement("appoint") /\ Setting(Market, Arg, Deployer)
  <2>1. Arg = "POOL_ADMIN" /\ Market # 0 /\ Op = "appoint"
    BY <1>1, <1>2, RunningProcess, StatementArguments
       DEF Op, Arg, Statement, Running, Succeeds
  <2> QED
    BY <1>2, <2>1, ContractTypes, MarketTypes DEF Slots, ProxiedSlots
<1>3. CASE Statement("setAddress") /\ Setting(Market, Arg, Contract(Arg, run, 0))
  <2>1. Arg \in OtherSlots /\ Market # 0 /\ Op = "setAddress"
    BY <1>1, <1>3, RunningProcess, StatementArguments
       DEF Op, Arg, Statement, Running, Succeeds
  <2>2. Contract(Arg, run, 0) \in Contracts
    BY <1>1, <2>1, ContractTypes DEF OtherSlots
  <2> QED
    BY <1>3, <2>1, <2>2, MarketTypes DEF OtherSlots
<1>4. CASE Statement("setImpl") /\ Setting(Market, Arg, Contract(Arg, Market, Market))
  <2>1. Arg \in ProxiedSlots /\ Market # 0 /\ Op = "setImpl"
    BY <1>1, <1>4, RunningProcess, StatementArguments
       DEF Op, Arg, Statement, Running, Succeeds
  <2>2. Arg \in Slots /\ Arg # "POOL_ADMIN"
    BY <2>1 DEF Slots, ProxiedSlots
  <2>3. Contract(Arg, Market, Market) \in Contracts
    BY <1>1, <2>2, ContractTypes
  <2> QED
    BY <1>4, <2>1, <2>2, <2>3, MarketTypes
<1> QED
  BY <1>2, <1>3, <1>4 DEF SetProviderAddress

\* An address is set in the table of a market there is.
LEMMA ProviderAddressTypes ==
  ASSUME TypeInv, ProcessInv, SetProviderAddress
  PROVE  TypeInv'
<1>1. /\ addresses' \in [Runs -> [Slots -> Contracts]]
      /\ \A q \in Runs, s \in ProxiedSlots : addresses'[q][s] \in {None, Contract(s, q, q)}
      /\ \A q \in Runs : q > run => addresses'[q] = addresses[q]
  BY ProviderAddress, SettingTypes
<1> QED
  BY <1>1 DEF TypeInv, Untouched, SetProviderAddress, processVars

\* The pool admin that lending and returning a market appoints.
LEMMA CustodyAddress ==
  ASSUME TypeInv, ProcessInv, Lend \/ Return
  PROVE  /\ Market \in Runs /\ Market <= run /\ "POOL_ADMIN" \in Slots \ ProxiedSlots
         /\ \E a \in Contracts :
              /\ Setting(Market, "POOL_ADMIN", a)
              /\ \/ Lend /\ Op = "lend" /\ a = Helper
                 \/ Return /\ Op = "return" /\ Lent /\ a = admin
<1>1. "POOL_ADMIN" \in Slots \ ProxiedSlots
  BY DEF Slots, ProxiedSlots
<1>2. CASE Lend
  <2>1. Setting(Market, "POOL_ADMIN", Helper) /\ Op = "lend" /\ Market # 0
    BY <1>2 DEF Lend, Statement, Succeeds, Running
  <2> QED
    BY <1>1, <1>2, <2>1, MarketTypes
<1>3. CASE Return
  <2>1. Setting(Market, "POOL_ADMIN", admin) /\ Op = "return" /\ Lent
    BY <1>3 DEF Return, Statement, Running, Lent
  <2>2. Market # 0 /\ admin \in Contracts
    BY <2>1 DEF ProcessInv, TypeInv
  <2> QED
    BY <1>1, <1>3, <2>1, <2>2, MarketTypes
<1> QED
  BY <1>2, <1>3

\* Lending and returning a market sets its pool admin.
LEMMA LendTypes ==
  ASSUME TypeInv, ProcessInv, Lend \/ Return
  PROVE  TypeInv'
<1>1. /\ addresses' \in [Runs -> [Slots -> Contracts]]
      /\ \A q \in Runs, s \in ProxiedSlots : addresses'[q][s] \in {None, Contract(s, q, q)}
      /\ \A q \in Runs : q > run => addresses'[q] = addresses[q]
  BY CustodyAddress, SettingTypes
<1> QED
  BY <1>1 DEF TypeInv, Untouched, Lend, Return, processVars

\* Listing adds a group of literal reserves to the market of the configurator in the file.
LEMMA ListTypes ==
  ASSUME TypeInv, ProcessInv, InitReserves
  PROVE  /\ TypeInv'
         /\ Configurator.market \in Runs /\ Configurator.market <= run
         /\ Arg \in 1 .. 5 /\ DOMAIN chunkedInitInputParams[Arg] \subseteq Literals
         /\ \A p \in Runs : p # Configurator.market => listed'[p] = listed[p]
         /\ listed'[Configurator.market]
              = listed[Configurator.market] \cup DOMAIN chunkedInitInputParams[Arg]
<1> DEFINE m == Configurator.market
<1>1. program # <<>> /\ Op = "initReserves" /\ m # 0
  BY DEF InitReserves, Statement, Running, Succeeds
<1>2. Arg \in 1 .. 5
  BY <1>1, RunningProcess, StatementArguments DEF Op, Arg
<1>3. m \in Runs /\ m <= run
  BY <1>1, MarketTypes
<1>4. DOMAIN chunkedInitInputParams[Arg] \subseteq Literals
  <2>1. DOMAIN chunkedInitInputParams = 1 .. 5
    BY DEF chunkedInitInputParams
  <2> QED
    BY <1>2, <2>1 DEF Literals
<1>5. listed' = [listed EXCEPT ![m] = listed[m] \cup DOMAIN chunkedInitInputParams[Arg]]
  BY DEF InitReserves
<1> HIDE DEF m
<1>6. /\ listed' \in [Runs -> SUBSET Literals]
      /\ \A p \in Runs : p # m => listed'[p] = listed[p]
      /\ listed'[m] = listed[m] \cup DOMAIN chunkedInitInputParams[Arg]
  BY <1>3, <1>4, <1>5 DEF TypeInv
<1>7. \A p \in Runs : deposited[p] \subseteq listed'[p]
  BY <1>6 DEF TypeInv
<1>8. TypeInv'
  BY <1>6, <1>7 DEF TypeInv, Untouched, InitReserves, processVars
<1> QED
  BY <1>2, <1>3, <1>4, <1>6, <1>8 DEF m

\* Only the rate oracle that this run has deployed changes hands.
LEMMA RateOracleTypes ==
  ASSUME TypeInv, ProcessInv, RateOracle
  PROVE  /\ TypeInv'
         /\ \A p \in Runs : p # run => rateOwner'[p] = rateOwner[p]
<1>1. program # <<>>
  BY DEF RateOracle, Statement, Running
<1>2. run \in Runs
  BY <1>1, RunningProcess
<1>3. PICK a \in Contracts : rateOwner' = [rateOwner EXCEPT ![run] = a]
  <2>1. rateOwner \in [Runs -> Contracts] /\ admin \in Contracts /\ RatesHelper \in Contracts
    BY MarketTypes DEF TypeInv
  <2>2. rateOwner = [rateOwner EXCEPT ![run] = rateOwner[run]] /\ rateOwner[run] \in Contracts
    BY <1>2, <2>1
  <2> QED
    BY <2>1, <2>2 DEF RateOracle
<1>4. /\ rateOwner' \in [Runs -> Contracts]
      /\ \A p \in Runs : p # run => rateOwner'[p] = rateOwner[p]
  BY <1>2, <1>3 DEF TypeInv
<1>5. \A p \in Runs : p > run => p # run
  BY <1>2 DEF Runs
<1> QED
  BY <1>4, <1>5 DEF TypeInv, Untouched, RateOracle, processVars

\* Configuring adds the tokens of a batch to the market of the helper in the file.
LEMMA ConfigureTypes ==
  ASSUME TypeInv, ProcessInv, Configure
  PROVE  /\ TypeInv'
         /\ Helper.market \in Runs /\ Helper.market <= run
         /\ inputs # <<>> /\ Head(inputs) \subseteq AllTokens
         /\ \A p \in Runs : p # Helper.market => configured'[p] = configured[p]
         /\ configured'[Helper.market] = configured[Helper.market] \cup Head(inputs)
<1> DEFINE m == Helper.market
<1>1. program # <<>> /\ Op = "configure"
  BY DEF Configure, Statement, Running
<1>2. Helper # None /\ inputs # <<>>
  BY <1>1 DEF ProcessInv, Lent, Running
<1>3. m \in Runs /\ m <= run
  <2>1. "ATokensAndRatesHelper" \in BoundIds
    BY DEF BoundIds
  <2>2. m # 0
    BY <1>2, <2>1 DEF TypeInv, Helper
  <2> QED
    BY <2>2, MarketTypes
<1>4. inputs \in Seq(SUBSET AllTokens)
  BY DEF TypeInv
<1>5. Head(inputs) \subseteq AllTokens /\ Tail(inputs) \in Seq(SUBSET AllTokens)
  BY <1>2, <1>4
<1>6. configured' = [configured EXCEPT ![m] = configured[m] \cup Head(inputs)]
  BY DEF Configure
<1> HIDE DEF m
<1>7. /\ configured' \in [Runs -> SUBSET AllTokens]
      /\ \A p \in Runs : p # m => configured'[p] = configured[p]
      /\ configured'[m] = configured[m] \cup Head(inputs)
  BY <1>3, <1>5, <1>6 DEF TypeInv
<1>8. \A p \in Runs : p > run => p # m
  BY <1>3 DEF TypeInv, Runs
<1>9. TypeInv'
  BY <1>5, <1>7, <1>8 DEF TypeInv, Untouched, Configure
<1> QED
  BY <1>2, <1>3, <1>5, <1>7, <1>9 DEF m

\* The pool admin is read from the table of a market there is.
LEMMA ReadAdminTypes ==
  ASSUME TypeInv, ProcessInv, ReadAdmin
  PROVE  TypeInv'
<1>1. CASE Statement("genesisAdmin") /\ admin' = Deployer
  BY <1>1, ContractTypes DEF TypeInv, Untouched, ReadAdmin, chainVars
<1>2. CASE Statement("readAdmin") /\ admin' = addresses[Market]["POOL_ADMIN"]
  <2>1. Market # 0
    BY <1>2 DEF Statement, Running, Succeeds
  <2>2. Market \in Runs /\ "POOL_ADMIN" \in Slots
    BY <2>1, MarketTypes DEF Slots
  <2> HIDE DEF Market
  <2>3. addresses[Market]["POOL_ADMIN"] \in Contracts
    BY <2>2 DEF TypeInv
  <2> QED
    BY <1>2, <2>3 DEF TypeInv, Untouched, ReadAdmin, chainVars
<1> QED
  BY <1>1, <1>2 DEF ReadAdmin

\* The market that is registered is one there is.
LEMMA RegisterTypes ==
  ASSUME TypeInv, ProcessInv, Register
  PROVE  TypeInv'
<1>1. Market # 0
  BY DEF Register, Statement, Running, Succeeds
<1>2. Market \in Runs
  BY <1>1, MarketTypes
<1> QED
  BY <1>2 DEF TypeInv, Untouched, Register, processVars

\* The batches are of the market's reserves, and none of the places is left out.
LEMMA BatchesTypes ==
  ASSUME NEW places \in SUBSET DOMAIN MarketOf(script).ReservesConfig.order
  PROVE  /\ Batches(places) \in Seq(SUBSET AllTokens)
         /\ places # {} => /\ Batches(places) # <<>>
                           /\ \E n \in DOMAIN Batches(places) : Batches(places)[n] # {}
<1> DEFINE market == MarketOf(script)
           order == market.ReservesConfig.order
           total == (Cardinality(places) + 19) \div 20
           number(i) == IF i <= 20 THEN 1 ELSE Cardinality({j \in places : j < i}) \div 20 + 1
           batch(n) == {i \in places : number(i) = n}
           tokens(n) == {Token(ReserveAt(MarketOf(script), i)) : i \in batch(n)}
<1>1. PICK m \in MarketNames : market = loadPoolConfig(m)
  BY MarketOfScript
<1>2. order \in Seq(DOMAIN market.ReservesConfig.params)
  BY <1>1, MarketDataAssumption
<1>3. Len(order) \in Nat /\ DOMAIN order = 1 .. Len(order)
  BY <1>2
<1>4. IsFiniteSet(places) /\ Cardinality(places) \in Nat
  <2>1. IsFiniteSet(1 .. Len(order))
    BY <1>3, FS_Interval
  <2>2. places \in SUBSET (1 .. Len(order))
    BY <1>3
  <2>3. IsFiniteSet(places)
    BY <2>1, <2>2, FS_Subset
  <2> QED
    BY <2>3, FS_CardinalityType
<1>5. \A s \in DOMAIN market.ReservesConfig.params : Token(s) \in AllTokens
  <2>1. \A s \in DOMAIN market.ReservesConfig.params : s \in Symbols
    BY <1>1 DEF Symbols
  <2> QED
    BY <2>1 DEF Token, AllTokens
<1>6. \A i \in places : Token(ReserveAt(MarketOf(script), i)) \in AllTokens
  BY <1>2, <1>3, <1>5 DEF ReserveAt
<1>7. Batches(places) = [n \in 1 .. total |-> tokens(n)]
  BY DEF Batches
<1> HIDE DEF total, number
<1>8. total \in Nat
  BY <1>4 DEF total
<1>9. \A n : tokens(n) \in SUBSET AllTokens
  BY <1>6
<1>10. ASSUME places # {}
       PROVE  \E n \in 1 .. total : tokens(n) # {}
  <2>1. PICK i \in places : TRUE
    BY <1>10
  <2>2. i \in Nat
    BY <1>3
  <2> DEFINE before == {j \in places : j < i}
  <2>3. /\ IsFiniteSet(places \ {i}) /\ Cardinality(places \ {i}) = Cardinality(places) - 1
    BY <1>4, FS_RemoveElement
  <2>4. before \subseteq places \ {i}
    BY <1>3
  <2>5. Cardinality(before) \in Nat /\ Cardinality(before) <= Cardinality(places) - 1
    BY <2>3, <2>4, FS_Subset, FS_CardinalityType
  <2>6. number(i) = IF i <= 20 THEN 1 ELSE Cardinality(before) \div 20 + 1
    BY DEF number
  <2> HIDE DEF before
  <2>7. number(i) \in 1 .. total
    BY <1>4, <2>2, <2>5, <2>6 DEF total
  <2>8. i \in batch(number(i))
    OBVIOUS
  <2> QED
    BY <2>7, <2>8
<1> HIDE DEF tokens
<1>11. Batches(places) \in Seq(SUBSET AllTokens)
  <2>1. \A n \in 1 .. total : tokens(n) \in SUBSET AllTokens
    BY <1>9
  <2> QED
    BY <1>7, <1>8, <2>1
<1>12. ASSUME places # {}
       PROVE  /\ Batches(places) # <<>>
              /\ \E n \in DOMAIN Batches(places) : Batches(places)[n] # {}
  BY <1>7, <1>8, <1>10, <1>11, <1>12
<1> QED
  BY <1>11, <1>12

\* Either there is something to configure, and some batch is not empty, or the loan is skipped.
LEMMA ReadInputsTypes ==
  ASSUME TypeInv, ProcessInv, ReadInputs
  PROVE  /\ TypeInv'
         /\ \/ /\ program' = Tail(program)
               /\ inputs' # <<>>
               /\ \E n \in DOMAIN inputs' : inputs'[n] # {}
            \/ program' = Drop(program, 4)
<1> DEFINE market == MarketOf(script)
           assets == IF Arg = "assets" THEN market.ReserveAssets[env.network]
                     ELSE DOMAIN market.ReservesConfig.params
           places == {i \in Configurable(market, assets) : ~AlreadyEnabled(ReserveAt(market, i))}
<1>1. /\ inputs' = Batches(places)
      /\ program' = IF places = {} THEN SubSeq(program, 5, Len(program)) ELSE Tail(program)
  BY DEF ReadInputs
<1>2. places \in SUBSET DOMAIN MarketOf(script).ReservesConfig.order
  BY DEF Configurable
<1> HIDE DEF places
<1>3. /\ inputs' \in Seq(SUBSET AllTokens)
      /\ places # {} => inputs' # <<>> /\ \E n \in DOMAIN inputs' : inputs'[n] # {}
  BY <1>1, <1>2, BatchesTypes
<1>4. TypeInv'
  BY <1>3 DEF TypeInv, Untouched, ReadInputs, chainVars
<1> QED
  BY <1>1, <1>3, <1>4 DEF Drop

\* A new run has a number no market has yet.
LEMMA StartTypes ==
  ASSUME TypeInv, Start
  PROVE  TypeInv' /\ run' \in Runs /\ run' > run
<1>1. MaxRuns \in Nat /\ run \in 0 .. MaxRuns /\ run < MaxRuns /\ run' = run + 1
  BY MarketTypes DEF Start
<1>2. run' \in 0 .. MaxRuns /\ run' \in Runs /\ run' > run
  BY <1>1 DEF Runs
<1>3. /\ \A i \in DbIds : db[i].market <= run'
      /\ \A p \in Runs : p > run' => p > run
  BY <1>1, MarketTypes DEF Runs
<1> QED
  BY <1>2, <1>3 DEF TypeInv, Untouched, Start, chainVars

\* Every step keeps the types.
LEMMA TypeStep ==
  ASSUME TypeInv, ProcessInv, [Next]_vars
  PROVE  TypeInv'
<1>1. CASE UNCHANGED <<env, db, addresses, listed, configured, deposited, rateOwner,
                       registered, run, status, admin, inputs>>
  BY <1>1, TypeFrame
<1>2. CASE Require \/ SendAuthorization \/ Mine \/ UNCHANGED vars
  BY <1>1, <1>2 DEF Require, SendAuthorization, Mine, vars, chainVars, processVars
<1>3. CASE ReadAdmin \/ Register
  BY <1>3, ReadAdminTypes, RegisterTypes
<1>4. CASE Deploy \/ SaveProxy \/ SetProviderAddress
  BY <1>4, DeployTypes, SaveProxyTypes, ProviderAddressTypes
<1>5. CASE RateOracle \/ InitReserves
  BY <1>5, RateOracleTypes, ListTypes
<1>6. CASE ReadInputs \/ Configure \/ Lend \/ Return
  BY <1>6, ReadInputsTypes, ConfigureTypes, LendTypes
<1>7. ASSUME NEW result \in {"done", "failed", "crashed"}, Ends(result)
      PROVE  TypeInv'
  BY <1>7, ContractTypes DEF TypeInv, Untouched, Ends, chainVars
<1>8. CASE Finish \/ Throw \/ Crash
  BY <1>7, <1>8 DEF Finish, Throw, Crash
<1>9. CASE Start
  BY <1>9, StartTypes
<1>10. CASE Deposit
  <2>1. PICK p \in Runs, s \in NoCollateralSymbols :
          /\ s \in listed[p]
          /\ deposited' = [deposited EXCEPT ![p] = @ \cup {s}]
          /\ UNCHANGED <<env, db, addresses, listed, configured, rateOwner, registered,
                         authorised, mempool, processVars, program>>
    BY <1>10 DEF Deposit
  <2>2. /\ s \in Literals /\ \A q \in Runs : deposited[q] \subseteq listed[q]
        /\ deposited \in [Runs -> SUBSET Literals] /\ listed' = listed
    BY <2>1 DEF TypeInv
  <2>3. deposited' \in [Runs -> SUBSET Literals]
    BY <2>1, <2>2
  <2>4. \A q \in Runs : deposited'[q] \subseteq listed[q]
    BY <2>1, <2>2
  <2> QED
    BY <2>1, <2>3, <2>4 DEF TypeInv, Untouched, processVars
<1> QED
  BY <1>2, <1>3, <1>4, <1>5, <1>6, <1>8, <1>9, <1>10 DEF Next, Step

(***************************************************************************)
(* What a statement that has gone through leaves of its program.           *)
(***************************************************************************)
LEMMA AdvanceProcess ==
  ASSUME TypeInv, ProcessInv, program # <<>>, Advance
  PROVE  /\ WellFormed(program') /\ LendsOnce(program')
         /\ NeverLends(program) \/ Op = "lend" => NeverLends(program')
         /\ \A link \in Links :
              program' # <<>> /\ program'[1].op = link[2] => Op = link[1]
<1>1. program' = Drop(program, 1) /\ 1 \in 0 .. Len(program)
  BY RunningProcess DEF Advance
<1>2. WellFormed(program) /\ LendsOnce(program)
  BY DEF ProcessInv
<1>3. 1 \in 1 .. 1 /\ 1 > 0
  OBVIOUS
<1> QED
  BY <1>1, <1>2, <1>3, DropWellFormed DEF Op

\* A statement of a loan that is not its last is followed by the next one.
LEMMA LinkedStatement ==
  ASSUME ProcessInv, NEW i \in DOMAIN program, NEW a, NEW b, <<a, b>> \in Links,
         program[i].op = a, NEW j, j = i + 1
  PROVE  j \in DOMAIN program /\ program[j].op = b
BY DEF ProcessInv, WellFormed, Linked

\* What the inputs that have been read are for comes next, or is skipped.
LEMMA ReadInputsProcess ==
  ASSUME TypeInv, ProcessInv, Running("readInputs")
  PROVE  /\ 4 \in 0 .. Len(program)
         /\ program[1].op = "readInputs" /\ program[2].op = "lend"
         /\ program[3].op = "configure" /\ program[4].op = "return"
<1>1. /\ program \in Seq(Statements) /\ 1 \in DOMAIN program /\ Len(program) \in Nat
      /\ program[1].op = "readInputs"
  BY RunningProcess DEF Running, Op
<1>2. 2 \in DOMAIN program /\ program[2].op = "lend"
  BY <1>1, LinkedStatement DEF Links
<1>3. 3 \in DOMAIN program /\ program[3].op = "configure"
  BY <1>2, LinkedStatement DEF Links
<1>4. 4 \in DOMAIN program /\ program[4].op = "return"
  BY <1>3, LinkedStatement DEF Links
<1>5. DOMAIN program = 1 .. Len(program)
  BY <1>1
<1> QED
  BY <1>1, <1>2, <1>3, <1>4, <1>5

\* The statement that comes next.
LEMMA TailHead ==
  ASSUME NEW S, NEW p \in Seq(S), 2 \in DOMAIN p
  PROVE  Tail(p) # <<>> /\ Tail(p)[1] = p[2]
<1>1. Len(p) \in Nat /\ Len(p) >= 2 /\ p # <<>>
  OBVIOUS
<1>2. Tail(p) = Drop(p, 1) /\ 1 \in 0 .. Len(p)
  BY <1>1, TailDrops
<1>3. /\ Drop(p, 1) \in Seq(S) /\ Len(Drop(p, 1)) = Len(p) - 1
      /\ DOMAIN Drop(p, 1) = 1 .. Len(p) - 1
      /\ \A i \in DOMAIN Drop(p, 1) : i + 1 \in DOMAIN p /\ Drop(p, 1)[i] = p[i + 1]
  BY <1>2, DropElements
<1>4. 1 \in DOMAIN Drop(p, 1) /\ Drop(p, 1)[1] = p[1 + 1]
  BY <1>1, <1>3
<1> QED
  BY <1>1, <1>2, <1>3, <1>4

\* A statement that is not part of a loan leads to none of the middle of one.
LEMMA PlainProcess ==
  ASSUME TypeInv, ProcessInv, program # <<>>, Op \notin {"readInputs", "lend", "configure"},
         Advance, UNCHANGED <<run, script, status>>
  PROVE  ProcessInv' /\ ~Lent' /\ ~Running("lend")' /\ ~Running("configure")'
<1>1. /\ WellFormed(program') /\ LendsOnce(program')
      /\ \A link \in Links :
           program' # <<>> /\ program'[1].op = link[2] => Op = link[1]
  BY AdvanceProcess
<1>2. program' # <<>> => program'[1].op \notin {"lend", "configure", "return"}
  <2>1. /\ <<"readInputs", "lend">> \in Links /\ <<"lend", "configure">> \in Links
        /\ <<"configure", "return">> \in Links
    BY DEF Links
  <2> QED
    BY <1>1, <2>1
<1>3. ~Lent' /\ ~Running("lend")' /\ ~Running("configure")'
  BY <1>2 DEF Lent, Running, Op
<1>4. status = "running"
  BY RunningProcess
<1> QED
  BY <1>1, <1>3, <1>4 DEF ProcessInv

\* With inputs the market is lent next; without, the program goes on after its loan.
LEMMA ReadInputsKeepsProcess ==
  ASSUME TypeInv, ProcessInv, ReadInputs
  PROVE  /\ ProcessInv' /\ ~Lent' /\ ~Running("configure")'
         /\ \/ program' = Tail(program) /\ \E n \in DOMAIN inputs' : inputs'[n] # {}
            \/ program' = Drop(program, 4) /\ ~Running("lend")'
<1>1. Running("readInputs") /\ program # <<>> /\ Op = "readInputs" /\ status = "running"
  BY RunningProcess DEF ReadInputs, Statement, Running
<1>2. /\ 4 \in 0 .. Len(program) /\ program \in Seq(Statements) /\ Len(program) \in Nat
      /\ program[2].op = "lend" /\ program[4].op = "return"
  BY <1>1, ReadInputsProcess, RunningProcess
<1>3. UNCHANGED <<run, script, status, db>>
  BY DEF ReadInputs
<1>4. CASE /\ program' = Tail(program) /\ inputs' # <<>>
           /\ \E n \in DOMAIN inputs' : inputs'[n] # {}
  <2>1. program' # <<>> /\ program'[1] = program[2]
    <3>1. 2 \in DOMAIN program
      BY <1>2
    <3>2. Tail(program) # <<>> /\ Tail(program)[1] = program[2]
      BY <1>2, <3>1, TailHead
    <3> QED
      BY <1>4, <3>2
  <2>2. ~Lent' /\ Running("lend")' /\ ~Running("configure")'
    BY <1>2, <2>1 DEF Lent, Running, Op
  <2>3. WellFormed(program') /\ LendsOnce(program')
    BY <1>1, <1>4, AdvanceProcess DEF Advance
  <2> QED
    BY <1>1, <1>3, <1>4, <2>2, <2>3 DEF ProcessInv
<1>5. CASE program' = Drop(program, 4)
  <2>1. WellFormed(program) /\ LendsOnce(program)
    BY DEF ProcessInv
  <2>2. /\ WellFormed(program') /\ LendsOnce(program')
        /\ \A link \in Links :
             program' # <<>> /\ program'[1].op = link[2] => program[4].op = link[1]
    BY <1>2, <1>5, <2>1, DropWellFormed
  <2>3. program' # <<>> => program'[1].op \notin {"lend", "configure", "return"}
    <3>1. /\ <<"readInputs", "lend">> \in Links /\ <<"lend", "configure">> \in Links
          /\ <<"configure", "return">> \in Links
      BY DEF Links
    <3> QED
      BY <1>2, <2>2, <3>1
  <2>4. ~Lent' /\ ~Running("lend")' /\ ~Running("configure")'
    BY <2>3 DEF Lent, Running, Op
  <2> QED
    BY <1>1, <1>3, <1>5, <2>2, <2>4 DEF ProcessInv
<1> QED
  BY <1>4, <1>5, ReadInputsTypes

\* After lending, the first batch is configured, and the market is not lent again.
LEMMA LendKeepsProcess ==
  ASSUME TypeInv, ProcessInv, Lend
  PROVE  /\ ProcessInv' /\ Lent' /\ Running("configure")' /\ ~Running("lend")'
         /\ NeverLends(program')
<1>1. /\ program # <<>> /\ Op = "lend" /\ Market # 0 /\ Helper # None
      /\ program' = Tail(program) /\ Advance
  BY DEF Lend, Statement, Running, Succeeds, Advance
<1>2. /\ program \in Seq(Statements) /\ 1 \in DOMAIN program /\ Len(program) \in Nat
      /\ status = "running" /\ inputs # <<>>
  BY <1>1, RunningProcess DEF ProcessInv, Running
<1>3. 2 \in DOMAIN program /\ program[2].op = "configure"
  <2>1. program[1].op = "lend" /\ 1 \in DOMAIN program
    BY <1>1, <1>2 DEF Op
  <2> QED
    BY <2>1, LinkedStatement DEF Links
<1>4. program' # <<>> /\ program'[1].op = "configure"
  <2>1. Tail(program) # <<>> /\ Tail(program)[1] = program[2]
    BY <1>2, <1>3, TailHead
  <2> QED
    BY <1>1, <1>3, <2>1
<1>5. Lent' /\ Running("configure")' /\ ~Running("lend")'
  BY <1>4 DEF Lent, Running, Op
<1>6. WellFormed(program') /\ LendsOnce(program') /\ NeverLends(program')
  BY <1>1, AdvanceProcess
<1>7. UNCHANGED <<run, script, status, db, inputs>>
  BY DEF Lend, processVars
<1> QED
  BY <1>1, <1>2, <1>5, <1>6, <1>7 DEF ProcessInv, Market, Helper

\* The batches are configured one by one; after the last the market is returned.
LEMMA ConfigureKeepsProcess ==
  ASSUME TypeInv, ProcessInv, Configure
  PROVE  /\ ProcessInv' /\ ~Running("lend")'
         /\ \/ inputs' # <<>> /\ program' = program
            \/ inputs' = <<>> /\ program' = Tail(program) /\ Running("return")'
<1>1. program # <<>> /\ Op = "configure" /\ Lent
  BY DEF Configure, Statement, Running, Lent
<1>2. /\ program \in Seq(Statements) /\ 1 \in DOMAIN program /\ Len(program) \in Nat
      /\ status = "running" /\ Market # 0 /\ Helper # None /\ NeverLends(program)
  BY <1>1, RunningProcess DEF ProcessInv
<1>3. UNCHANGED <<run, script, status, db>>
  BY DEF Configure
<1>4. CASE inputs' # <<>> /\ program' = program
  <2>1. ~Running("lend")' /\ Lent'
    BY <1>1, <1>4 DEF Running, Op, Lent
  <2> QED
    BY <1>2, <1>3, <1>4, <2>1 DEF ProcessInv, Market, Helper
<1>5. CASE inputs' = <<>> /\ program' = Tail(program)
  <2>1. 2 \in DOMAIN program /\ program[2].op = "return"
    <3>1. program[1].op = "configure" /\ 1 \in DOMAIN program
      BY <1>1, <1>2 DEF Op
    <3> QED
      BY <3>1, LinkedStatement DEF Links
  <2>2. program' # <<>> /\ program'[1].op = "return"
    <3>1. Tail(program) # <<>> /\ Tail(program)[1] = program[2]
      BY <1>2, <2>1, TailHead
    <3> QED
      BY <1>5, <2>1, <3>1
  <2>3. Running("return")' /\ ~Running("lend")' /\ ~Running("configure")'
    BY <2>2 DEF Running, Op
  <2>4. WellFormed(program') /\ LendsOnce(program') /\ NeverLends(program')
    BY <1>1, <1>2, <1>5, AdvanceProcess DEF Advance
  <2> QED
    BY <1>2, <1>3, <1>5, <2>3, <2>4 DEF ProcessInv, Market, Helper
<1> QED
  BY <1>4, <1>5 DEF Configure

\* The statements that are not of a loan, and the one that ends it.
PlainAction ==
  \/ Require \/ ReadAdmin \/ Deploy \/ SaveProxy \/ SetProviderAddress \/ Register
  \/ RateOracle \/ InitReserves \/ SendAuthorization \/ Return

\* The statements that are not part of a loan move the program on and leave the process, the
\* inputs and the configured tokens alone; that includes the return, whose market and helper
\* are settled.
LEMMA PlainActions ==
  ASSUME PlainAction
  PROVE  /\ program # <<>> /\ Op \notin {"readInputs", "lend", "configure"}
         /\ Advance /\ UNCHANGED <<run, script, status, inputs, env, configured>>
<1>1. CASE Require \/ SaveProxy \/ Register \/ InitReserves
  BY <1>1 DEF Require, SaveProxy, Register, InitReserves, Statement, Running, processVars, chainVars
<1>2. CASE Deploy \/ SendAuthorization \/ Return
  BY <1>2 DEF Deploy, SendAuthorization, Return, Statement, Running, processVars, chainVars
<1>3. CASE ReadAdmin \/ SetProviderAddress \/ RateOracle
  BY <1>3 DEF ReadAdmin, SetProviderAddress, RateOracle, Statement, Running, processVars, chainVars
<1> QED
  BY <1>1, <1>2, <1>3 DEF PlainAction

\* The process may end in one of three ways, none of which touches the chain or the file.
LEMMA Endings ==
  ASSUME Finish \/ Throw \/ Crash
  PROVE  \E result \in {"done", "failed", "crashed"} : Ends(result)
BY DEF Finish, Throw, Crash

\* A process that has ended has no program.
LEMMA EndsKeepsProcess ==
  ASSUME ProcessInv, NEW result \in {"done", "failed", "crashed"}, Ends(result)
  PROVE  ProcessInv'
<1>1. program' = <<>> /\ status' = result /\ script' = "none"
  BY DEF Ends
<1>2. WellFormed(<<>>) /\ LendsOnce(<<>>)
  BY DEF WellFormed, LendsOnce, Linked, Promised
<1>3. ~Lent' /\ ~Running("lend")' /\ ~Running("configure")'
  BY <1>1 DEF Lent, Running
<1>4. status' # "running"
  BY <1>1
<1> HIDE DEF WellFormed
<1> QED
  BY <1>1, <1>2, <1>3, <1>4 DEF ProcessInv

\* A fresh program is well-formed and does not start inside a loan.
LEMMA StartKeepsProcess ==
  ASSUME TypeInv, Start
  PROVE  ProcessInv' /\ ~Lent' /\ ~Running("lend")' /\ ~Running("configure")'
<1>1. run' \in Runs /\ script' \in Scripts /\ status' = "running"
  BY StartTypes DEF Start
<1>2. WellFormed(program') /\ Opens(program') /\ LendsOnce(program')
  BY <1>1, ProgramsAreSound DEF Start
<1>3. ~Lent' /\ ~Running("lend")' /\ ~Running("configure")'
  BY <1>2 DEF Opens, LendingOps, Lent, Running, Op
<1> QED
  BY <1>1, <1>2, <1>3 DEF ProcessInv

\* Every step leaves a well-formed rest of a program.
LEMMA ProcessStep ==
  ASSUME TypeInv, ProcessInv, [Next]_vars
  PROVE  ProcessInv'
<1>1. CASE Mine \/ Deposit \/ UNCHANGED vars
  <2>1. UNCHANGED <<run, script, program, status, inputs, db>>
    BY <1>1 DEF Mine, Deposit, vars, processVars
  <2> QED
    BY <2>1 DEF ProcessInv, Lent, Running, Op, Market, Helper
<1>2. CASE PlainAction
  BY <1>2, PlainActions, PlainProcess
<1>3. CASE ReadInputs \/ Lend \/ Configure
  BY <1>3, ReadInputsKeepsProcess, LendKeepsProcess, ConfigureKeepsProcess
<1>4. CASE Finish \/ Throw \/ Crash
  BY <1>4, Endings, EndsKeepsProcess
<1>5. CASE Start
  BY <1>5, StartKeepsProcess
<1> QED
  BY <1>1, <1>2, <1>3, <1>4, <1>5 DEF Next, Step, PlainAction

\* Before the first run there is no program.
LEMMA ProcessInit == Init => ProcessInv
<1> SUFFICES ASSUME Init
             PROVE  ProcessInv
  OBVIOUS
<1>1. program = <<>> /\ status = "idle" /\ script = "none"
  BY DEF Init
<1>2. WellFormed(<<>>) /\ LendsOnce(<<>>)
  BY DEF WellFormed, LendsOnce, Linked, Promised
<1>3. ~Lent /\ ~Running("lend") /\ ~Running("configure")
  BY <1>1 DEF Lent, Running
<1> QED
  BY <1>1, <1>2, <1>3 DEF ProcessInv

(***************************************************************************)
(* A script that deploys a market of its own: what holds when one of its   *)
(* statements is executed.                                                 *)
(***************************************************************************)
LEMMA WholeContext ==
  ASSUME TypeInv, ProcessInv, NEW K, Supplied(K), program # <<>>
  PROVE  /\ Op \in {"appoint", "setAddress", "setImpl", "saveProxy"} => Market = run
         /\ Op = "deploy" /\ Arg = "ATokensAndRatesHelper" => Market = run
         /\ Op = "readAdmin" => Market = run /\ addresses[run]["POOL_ADMIN"] = Deployer
         /\ Op = "initReserves" => Configurator.market \in {0, run}
         /\ Op = "setOracleOwnership" => admin = Deployer
         /\ Op = "lend" => /\ Market = run /\ admin = Deployer
                           /\ Helper = Contract("ATokensAndRatesHelper", run, run)
                           /\ addresses[run]["POOL_ADMIN"] = Deployer
                           /\ \A i \in 1 .. 5 : DOMAIN chunkedInitInputParams[i] \subseteq listed[run]
<1>1. Needs(program[1]) \subseteq K
  <2>1. 1 \in DOMAIN program /\ program \in Seq(Statements)
    BY RunningProcess
  <2>2. Effects(program, 1 - 1) = {}
    BY <2>1 DEF Effects
  <2> QED
    BY <2>1, <2>2 DEF Supplied, Sound
<1>2. Established(K)
  BY DEF Supplied
<1>3. ASSUME Op \in {"appoint", "setAddress", "setImpl", "saveProxy"}
      PROVE  Market = run
  BY <1>1, <1>2, <1>3 DEF Needs, Op, Established
<1>4. ASSUME Op = "deploy", Arg = "ATokensAndRatesHelper"
      PROVE  Market = run
  <2>1. program[1] \in Statements
    BY RunningProcess
  <2>2. program[1] = HelperDeployed
    BY <1>4, <2>1, StatementArguments DEF Op, Arg, HelperDeployed
  <2>3. Needs(HelperDeployed) = {ProviderDeployed}
    BY DEF Needs, HelperDeployed, Stmt
  <2> QED
    BY <1>1, <1>2, <2>2, <2>3 DEF Established
<1>5. ASSUME Op = "readAdmin"
      PROVE  Market = run /\ addresses[run]["POOL_ADMIN"] = Deployer
  <2>1. {ProviderDeployed, AdminAppointed} \subseteq K
    <3>1. program[1] # HelperDeployed
      BY <1>5 DEF Op, HelperDeployed, Stmt
    <3> QED
      BY <1>1, <1>5, <3>1 DEF Needs, Op
  <2>2. ~Lent
    BY <1>5 DEF Lent
  <2> QED
    BY <1>2, <2>1, <2>2 DEF Established
<1>6. ASSUME Op = "initReserves"
      PROVE  Configurator.market \in {0, run}
  <2>1. program[1] # HelperDeployed
    BY <1>6 DEF Op, HelperDeployed, Stmt
  <2>2. ConfiguratorSaved \in K
    BY <1>1, <1>6, <2>1 DEF Needs, Op
  <2> QED
    BY <1>2, <2>2 DEF Established
<1>7. ASSUME Op = "setOracleOwnership"
      PROVE  admin = Deployer
  <2>1. program[1] # HelperDeployed
    BY <1>7 DEF Op, HelperDeployed, Stmt
  <2>2. AdminRead \in K
    BY <1>1, <1>7, <2>1 DEF Needs, Op
  <2> QED
    BY <1>2, <2>2 DEF Established
<1>8. ASSUME Op = "lend"
      PROVE  /\ Market = run /\ admin = Deployer
             /\ Helper = Contract("ATokensAndRatesHelper", run, run)
             /\ addresses[run]["POOL_ADMIN"] = Deployer
             /\ \A i \in 1 .. 5 : DOMAIN chunkedInitInputParams[i] \subseteq listed[run]
  <2>1. program[1] # HelperDeployed
    BY <1>8 DEF Op, HelperDeployed, Stmt
  <2>2. Facts \subseteq K
    BY <1>1, <1>8, <2>1 DEF Needs, Op
  <2>3. {ProviderDeployed, AdminAppointed, HelperDeployed, AdminRead} \subseteq K
    BY <2>2 DEF Facts
  <2>4. \A i \in 1 .. 5 : Stmt("initReserves", i) \in K
    BY <2>2 DEF Facts, ReservesListed
  <2>5. ~Lent
    BY <1>8 DEF Lent
  <2> QED
    BY <1>2, <2>3, <2>4, <2>5 DEF Established
<1> QED
  BY <1>3, <1>4, <1>5, <1>6, <1>7, <1>8

\* Which statement brings a fact about.
LEMMA FactOfStatement ==
  ASSUME NEW st \in Statements
  PROVE  /\ Effect(st) = ProviderDeployed
              => st.op = "deploy" /\ st.arg = "LendingPoolAddressesProvider"
         /\ Effect(st) = AdminAppointed => st.op = "appoint"
         /\ Effect(st) = ConfiguratorSaved
              => st.op = "saveProxy" /\ st.arg = "LendingPoolConfigurator"
         /\ Effect(st) = HelperDeployed => st.op = "deploy" /\ st.arg = "ATokensAndRatesHelper"
         /\ Effect(st) = AdminRead => st.op \in {"readAdmin", "genesisAdmin"}
         /\ \A i \in 1 .. 5 :
              Effect(st) = Stmt("initReserves", i) => st.op = "initReserves" /\ st.arg = i
         /\ st.op \in {"readInputs", "lend", "configure", "return"} => Effect(st) \notin Facts
<1>1. \A op, arg : Stmt(op, arg).op = op /\ Stmt(op, arg).arg = arg
  BY DEF Stmt
<1>2. AdminRead.op = "readAdmin"
  BY <1>1 DEF AdminRead
<1>3. \A f : Effect(st) = f => f = st \/ (st.op = "genesisAdmin" /\ f = AdminRead)
  BY DEF Effect
<1>4. \A f \in Facts : f.op \in {"deploy", "appoint", "saveProxy", "readAdmin", "initReserves"}
  BY <1>1 DEF Facts, ReservesListed, ProviderDeployed, AdminAppointed, ConfiguratorSaved,
              HelperDeployed, AdminRead
<1> QED
  BY <1>1, <1>2, <1>3, <1>4
     DEF ProviderDeployed, AdminAppointed, ConfiguratorSaved, HelperDeployed

\* The pool admin of every market after a step of a script.
LEMMA PoolAdminStep ==
  ASSUME TypeInv, ProcessInv, PlainAction \/ Lend, NEW p \in Runs
  PROVE  /\ p # Market => addresses'[p] = addresses[p]
         /\ addresses'[p]["POOL_ADMIN"]
              = IF p = Market /\ Op = "appoint" THEN Deployer
                ELSE IF p = Market /\ Op = "return" THEN admin
                ELSE IF p = Market /\ Op = "lend" THEN Helper
                ELSE addresses[p]["POOL_ADMIN"]
<1> DEFINE after == addresses'[p]["POOL_ADMIN"]
           before == addresses[p]["POOL_ADMIN"]
<1>0. "POOL_ADMIN" \in Slots
  BY DEF Slots
<1>1. CASE SetProviderAddress
  <2>1. PICK a \in Contracts :
          /\ Setting(Market, Arg, a) /\ Arg \in Slots
          /\ Arg \in ProxiedSlots => a = Contract(Arg, Market, Market)
          /\ \/ Op = "appoint" /\ Arg = "POOL_ADMIN" /\ a = Deployer
             \/ Op \in {"setAddress", "setImpl"} /\ Arg # "POOL_ADMIN"
    BY <1>1, ProviderAddress
  <2>2. Market \in Runs /\ Market <= run
    BY <1>1, ProviderAddress
  <2>3. /\ \A q \in Runs : q # Market => addresses'[q] = addresses[q]
        /\ \A s \in Slots : addresses'[Market][s] = IF s = Arg THEN a ELSE addresses[Market][s]
    BY <2>1, <2>2, SettingTypes
  <2> QED
    BY <1>0, <2>1, <2>2, <2>3
<1>2. CASE Lend \/ Return
  <2>1. PICK a \in Contracts :
          /\ Setting(Market, "POOL_ADMIN", a)
          /\ \/ Lend /\ Op = "lend" /\ a = Helper
             \/ Return /\ Op = "return" /\ Lent /\ a = admin
    BY <1>2, CustodyAddress
  <2>2. Market \in Runs /\ Market <= run /\ "POOL_ADMIN" \in Slots \ ProxiedSlots
    BY <1>2, CustodyAddress
  <2>3. /\ \A q \in Runs : q # Market => addresses'[q] = addresses[q]
        /\ \A s \in Slots :
             addresses'[Market][s] = IF s = "POOL_ADMIN" THEN a ELSE addresses[Market][s]
    BY <2>1, <2>2, SettingTypes
  <2> QED
    BY <1>0, <2>1, <2>2, <2>3
<1>3. CASE Require \/ ReadAdmin \/ SaveProxy \/ SendAuthorization
  <2>1. Op \notin {"appoint", "return", "lend"} /\ addresses' = addresses
    BY <1>3 DEF Require, ReadAdmin, SaveProxy, SendAuthorization, Statement, Running, chainVars
  <2> QED
    BY <2>1
<1>4. CASE Deploy \/ Register \/ RateOracle \/ InitReserves
  <2>1. Op \notin {"appoint", "return", "lend"} /\ addresses' = addresses
    BY <1>4 DEF Deploy, Register, RateOracle, InitReserves, Statement, Running
  <2> QED
    BY <2>1
<1> QED
  BY <1>1, <1>2, <1>3, <1>4 DEF PlainAction

\* The contracts the file names after a step of a script.
LEMMA FileStep ==
  ASSUME TypeInv, ProcessInv, PlainAction
  PROVE  /\ Market' = IF Op = "deploy" /\ Arg = "LendingPoolAddressesProvider"
                      THEN run ELSE Market
         /\ Configurator'.market
              = IF Op = "deploy" /\ Arg = "LendingPoolConfigurator" THEN 0
                ELSE IF Op = "saveProxy" /\ Arg = "LendingPoolConfigurator" THEN Market
                ELSE Configurator.market
         /\ Helper' = IF Op = "deploy" /\ Arg = "ATokensAndRatesHelper"
                      THEN Contract("ATokensAndRatesHelper", run, Market) ELSE Helper
<1>0. /\ {"LendingPoolAddressesProvider", "ATokensAndRatesHelper", "LendingPoolConfigurator"}
           \subseteq DbIds
      /\ "ATokensAndRatesHelper" \in BoundIds /\ "LendingPoolConfigurator" \notin BoundIds
  BY DEF DbIds, BoundIds
<1>1. db \in [DbIds -> Contracts]
  BY DEF TypeInv
<1>2. CASE Deploy
  <2>1. Op = "deploy"
    BY <1>2 DEF Deploy, Statement, Running
  <2>2. \A i \in DbIds :
          db'[i] = IF i = Arg
                   THEN Contract(Arg, run, IF Arg = "LendingPoolAddressesProvider" THEN run
                                           ELSE IF Arg \in BoundIds THEN Market ELSE 0)
                   ELSE db[i]
    BY <1>1, <1>2 DEF Deploy
  <2> QED
    BY <1>0, <2>1, <2>2, ContractTypes DEF Market, Helper, Configurator
<1>3. CASE SaveProxy
  <2>1. Op = "saveProxy" /\ program # <<>>
    BY <1>3 DEF SaveProxy, Statement, Running
  <2>2. Arg \in {"LendingPool", "LendingPoolConfigurator"}
    BY <2>1, RunningProcess, StatementArguments DEF Op, Arg
  <2>3. \A i \in DbIds : db'[i] = IF i = Arg THEN Contract(Arg, Market, Market) ELSE db[i]
    BY <1>1, <1>3 DEF SaveProxy
  <2> QED
    BY <1>0, <2>1, <2>2, <2>3, ContractTypes DEF Market, Helper, Configurator
<1>4. CASE Require \/ ReadAdmin \/ SendAuthorization \/ SetProviderAddress
  <2>1. Op \notin {"deploy", "saveProxy"} /\ db' = db
    BY <1>4 DEF Require, ReadAdmin, SendAuthorization, SetProviderAddress, Statement, Running
  <2> QED
    BY <2>1 DEF Market, Helper, Configurator
<1>5. CASE Register \/ RateOracle \/ InitReserves \/ Return
  <2>1. Op \notin {"deploy", "saveProxy"} /\ db' = db
    BY <1>5 DEF Register, RateOracle, InitReserves, Return, Statement, Running
  <2> QED
    BY <2>1 DEF Market, Helper, Configurator
<1> QED
  BY <1>2, <1>3, <1>4, <1>5 DEF PlainAction

\* What was established is still so, and the statement has established its own fact.
LEMMA EstablishedStep ==
  ASSUME TypeInv, ProcessInv, CustodyInv, NEW K, Supplied(K), PlainAction,
         NEW J, J = K \cup ({Effect(program[1])} \cap Facts)
  PROVE  Established(J)'
<1>0. /\ program # <<>> /\ Op \notin {"readInputs", "lend", "configure"}
      /\ run \in Runs /\ program[1] \in Statements /\ run' = run
      /\ Established(K)
  BY PlainActions, RunningProcess DEF Supplied
<1>1. /\ Op \in {"appoint", "setAddress", "setImpl", "saveProxy"} => Market = run
      /\ Op = "deploy" /\ Arg = "ATokensAndRatesHelper" => Market = run
      /\ Op = "readAdmin" => Market = run /\ addresses[run]["POOL_ADMIN"] = Deployer
      /\ Op = "initReserves" => Configurator.market \in {0, run}
  BY <1>0, WholeContext
<1>2. /\ ProviderDeployed \in J
           => ProviderDeployed \in K \/ (Op = "deploy" /\ Arg = "LendingPoolAddressesProvider")
      /\ AdminAppointed \in J => AdminAppointed \in K \/ Op = "appoint"
      /\ ConfiguratorSaved \in J
           => ConfiguratorSaved \in K \/ (Op = "saveProxy" /\ Arg = "LendingPoolConfigurator")
      /\ HelperDeployed \in J
           => HelperDeployed \in K \/ (Op = "deploy" /\ Arg = "ATokensAndRatesHelper")
      /\ AdminRead \in J => AdminRead \in K \/ Op \in {"readAdmin", "genesisAdmin"}
      /\ \A i \in 1 .. 5 : Stmt("initReserves", i) \in J
           => Stmt("initReserves", i) \in K \/ (Op = "initReserves" /\ Arg = i)
  BY <1>0, FactOfStatement DEF Op, Arg
<1>3. ASSUME ProviderDeployed \in J
      PROVE  Market' = run
  BY <1>0, <1>2, <1>3, FileStep DEF Established
<1>4. ASSUME AdminAppointed \in J
      PROVE  addresses'[run]["POOL_ADMIN"] = Deployer
  <2>1. addresses'[run]["POOL_ADMIN"]
          = IF run = Market /\ Op = "appoint" THEN Deployer
            ELSE IF run = Market /\ Op = "return" THEN admin
            ELSE IF run = Market /\ Op = "lend" THEN Helper
            ELSE addresses[run]["POOL_ADMIN"]
    BY <1>0, PoolAdminStep
  <2>2. Op = "return" => Market = run /\ admin = Deployer
    BY <1>0 DEF CustodyInv, Lent
  <2>3. Op # "return" => ~Lent
    BY <1>0 DEF Lent
  <2> QED
    BY <1>0, <1>1, <1>2, <1>4, <2>1, <2>2, <2>3 DEF Established
<1>5. ASSUME ConfiguratorSaved \in J
      PROVE  Configurator'.market \in {0, run}
  BY <1>0, <1>1, <1>2, <1>5, FileStep DEF Established
<1>6. ASSUME HelperDeployed \in J
      PROVE  Helper' = Contract("ATokensAndRatesHelper", run, run)
  BY <1>0, <1>1, <1>2, <1>6, FileStep DEF Established
<1>7. ASSUME AdminRead \in J
      PROVE  admin' = Deployer
  <2>1. CASE Op \in {"readAdmin", "genesisAdmin"}
    <3>1. ReadAdmin
      BY <2>1 DEF PlainAction, Require, Deploy, SaveProxy, SetProviderAddress, Register,
                  RateOracle, InitReserves, SendAuthorization, Return, Statement, Running
    <3> QED
      BY <1>1, <2>1, <3>1 DEF ReadAdmin, Statement, Running
  <2>2. CASE Op \notin {"readAdmin", "genesisAdmin"}
    <3>1. ~ReadAdmin
      BY <2>2 DEF ReadAdmin, Statement, Running
    <3>2. admin' = admin
      BY <3>1 DEF PlainAction, Require, Deploy, SaveProxy, SetProviderAddress, Register,
                  RateOracle, InitReserves, SendAuthorization, Return, processVars
    <3> QED
      BY <1>0, <1>2, <1>7, <2>2, <3>2 DEF Established
  <2> QED
    BY <2>1, <2>2
<1>8. ASSUME NEW i \in 1 .. 5, Stmt("initReserves", i) \in J
      PROVE  DOMAIN chunkedInitInputParams[i] \subseteq listed'[run]
  <2>1. CASE InitReserves
    <3>1. /\ Configurator.market # 0 /\ Op = "initReserves"
      BY <2>1 DEF InitReserves, Statement, Running, Succeeds
    <3>2. Configurator.market = run
      BY <1>1, <3>1
    <3>3. listed'[run] = listed[run] \cup DOMAIN chunkedInitInputParams[Arg]
      BY <2>1, <3>2, ListTypes
    <3> QED
      BY <1>0, <1>2, <1>8, <3>3 DEF Established
  <2>2. CASE ~InitReserves
    <3>1. listed' = listed
      BY <2>2 DEF PlainAction, Require, ReadAdmin, Deploy, SaveProxy, SetProviderAddress,
                  Register, RateOracle, SendAuthorization, Return, chainVars
    <3>2. Op # "initReserves"
      BY <2>2 DEF PlainAction, Require, ReadAdmin, Deploy, SaveProxy, SetProviderAddress,
                  Register, RateOracle, SendAuthorization, Return, Statement, Running
    <3> QED
      BY <1>0, <1>2, <1>8, <3>1, <3>2 DEF Established
  <2> QED
    BY <2>1, <2>2
<1> QED
  BY <1>0, <1>3, <1>4, <1>5, <1>6, <1>7, <1>8 DEF Established

\* What is left of the program finds what it needs in what is established.
LEMMA SuppliedStep ==
  ASSUME ProcessInv, NEW K, Supplied(K), NEW n \in 0 .. Len(program),
         program' = Drop(program, n), NEW J, K \subseteq J,
         Effects(program, n) \cap Facts \subseteq J, Established(J)'
  PROVE  Supplied(J)'
<1> DEFINE L == {ProviderDeployed, AdminAppointed}
<1>1. L \subseteq Facts
  BY DEF Facts
<1>2. /\ WellFormed(program) /\ Sound(program, K)
      /\ L \subseteq K \cup Effects(program, Len(program))
  BY DEF ProcessInv, Supplied
<1> HIDE DEF L
<1>3. /\ Sound(Drop(program, n), J)
      /\ L \subseteq J \cup Effects(Drop(program, n), Len(Drop(program, n)))
  BY <1>1, <1>2, DropSound
<1> QED
  BY <1>3 DEF Supplied, L

\* A program of which one statement is done.
LEMMA AdvanceEffects ==
  ASSUME TypeInv, ProcessInv, program # <<>>, Advance
  PROVE  /\ 1 \in 0 .. Len(program) /\ program' = Drop(program, 1)
         /\ Effects(program, 1) = {Effect(program[1])}
<1>1. /\ 1 \in 0 .. Len(program) /\ program' = Drop(program, 1)
      /\ program \in Seq(Statements) /\ 1 \in DOMAIN program
  BY RunningProcess DEF Advance
<1>2. {j \in DOMAIN program : j <= 1} = {1}
  BY <1>1
<1> QED
  BY <1>1, <1>2 DEF Effects

\* An oracle that is to come back is still to come back after other statements.
LEMMA OracleComesBack ==
  ASSUME TypeInv, ProcessInv, NEW n \in 0 .. Len(program), program' = Drop(program, n),
         NEW i \in DOMAIN program, i > n, program[i].op = "setOracleOwnership"
  PROVE  \E j \in DOMAIN program' : program'[j].op = "setOracleOwnership"
<1>1. program \in Seq(Statements)
  BY DEF ProcessInv, WellFormed
<1>2. i - n \in DOMAIN Drop(program, n) /\ Drop(program, n)[i - n] = program[i]
  BY <1>1, DropElements
<1> QED
  BY <1>2

\* Where the rate oracle of the run is after a statement.
LEMMA OracleStep ==
  ASSUME TypeInv, ProcessInv, CustodyInv, NEW K, Supplied(K), PlainAction
  PROVE  \/ rateOwner'[run] \in {None, Deployer}
         \/ \E i \in DOMAIN program' : program'[i].op = "setOracleOwnership"
<1>0. /\ program # <<>> /\ run \in Runs /\ 1 \in DOMAIN program /\ 1 \in 0 .. Len(program)
      /\ program' = Drop(program, 1) /\ program \in Seq(Statements)
  BY PlainActions, RunningProcess, AdvanceEffects
<1>1. CASE Op = "transferOwnership"
  <2>1. PICK j \in DOMAIN program : j > 1 /\ program[j].op = "setOracleOwnership"
    BY <1>0, <1>1 DEF ProcessInv, WellFormed, Promised, Op
  <2> QED
    BY <1>0, <2>1, OracleComesBack
<1>2. CASE Op = "setOracleOwnership"
  <2>1. admin = Deployer
    BY <1>0, <1>2, WholeContext
  <2>2. rateOwner' = [rateOwner EXCEPT ![run] = admin]
    BY <1>2 DEF PlainAction, Require, ReadAdmin, Deploy, SaveProxy, SetProviderAddress, Register,
                RateOracle, InitReserves, SendAuthorization, Return, Statement, Running
  <2> QED
    BY <1>0, <2>1, <2>2 DEF TypeInv
<1>3. CASE Op \notin {"transferOwnership", "setOracleOwnership"}
  <2>1. rateOwner'[run] \in {rateOwner[run], Deployer}
    <3>1. CASE Deploy
      BY <1>0, <3>1 DEF Deploy, TypeInv
    <3>2. CASE RateOracle
      BY <1>3, <3>2 DEF RateOracle, Statement, Running
    <3>3. CASE ~Deploy /\ ~RateOracle
      BY <3>3 DEF PlainAction, Require, ReadAdmin, SaveProxy, SetProviderAddress, Register,
                  InitReserves, SendAuthorization, Return, chainVars
    <3> QED
      BY <3>1, <3>2, <3>3
  <2>2. ASSUME NEW i \in DOMAIN program, program[i].op = "setOracleOwnership"
        PROVE  i > 1
    <3>1. i # 1
      BY <1>3, <2>2 DEF Op
    <3> QED
      BY <1>0, <3>1
  <2> QED
    BY <1>0, <2>1, <2>2, OracleComesBack DEF CustodyInv
<1> QED
  BY <1>1, <1>2, <1>3

\* A statement outside the loan leaves the market with the deployer, and the next statements
\* supplied.
LEMMA PlainWhole ==
  ASSUME TypeInv, ProcessInv, CustodyInv, NEW K, Supplied(K), PlainAction
  PROVE  CustodyInv' /\ \E J : Supplied(J)'
<1>0. /\ program # <<>> /\ Op \notin {"readInputs", "lend", "configure"}
      /\ run \in Runs /\ run' = run /\ Advance
      /\ UNCHANGED <<run, script, status, configured>>
  BY PlainActions, RunningProcess
<1>1. ~Lent' /\ ~Running("lend")' /\ ~Running("configure")'
  BY <1>0, PlainProcess
<1>2. ~Running("return")'
  BY <1>1 DEF Lent, Running
<1>3. addresses'[run]["POOL_ADMIN"] \in {None, Deployer}
  <2>1. addresses'[run]["POOL_ADMIN"]
          = IF run = Market /\ Op = "appoint" THEN Deployer
            ELSE IF run = Market /\ Op = "return" THEN admin
            ELSE IF run = Market /\ Op = "lend" THEN Helper
            ELSE addresses[run]["POOL_ADMIN"]
    BY <1>0, PoolAdminStep
  <2>2. Op = "return" => Market = run /\ admin = Deployer
    BY <1>0 DEF CustodyInv, Lent
  <2>3. Op # "return" => ~Lent
    BY <1>0 DEF Lent
  <2> QED
    BY <1>0, <2>1, <2>2, <2>3 DEF CustodyInv
<1>4. configured'[run] # {} => NeverLends(program')
  BY <1>0, AdvanceProcess DEF CustodyInv
<1>5. \/ rateOwner'[run] \in {None, Deployer}
      \/ \E i \in DOMAIN program' : program'[i].op = "setOracleOwnership"
  BY OracleStep
<1>6. CustodyInv'
  BY <1>0, <1>1, <1>2, <1>3, <1>4, <1>5 DEF CustodyInv
<1>7. PICK J : J = K \cup ({Effect(program[1])} \cap Facts)
  OBVIOUS
<1>8. Established(J)'
  BY <1>7, EstablishedStep
<1>9. Supplied(J)'
  <2>1. /\ 1 \in 0 .. Len(program) /\ program' = Drop(program, 1)
        /\ Effects(program, 1) = {Effect(program[1])}
    BY <1>0, AdvanceEffects
  <2> QED
    BY <1>7, <1>8, <2>1, SuppliedStep
<1> QED
  BY <1>6, <1>9

\* Reading the inputs promises a token to configure, or skips the loan.
LEMMA ReadInputsWhole ==
  ASSUME TypeInv, ProcessInv, CustodyInv, NEW K, Supplied(K), ReadInputs
  PROVE  CustodyInv' /\ Supplied(K)'
<1>0. /\ Running("readInputs") /\ Op = "readInputs" /\ program # <<>>
      /\ UNCHANGED <<run, db, addresses, listed, configured, rateOwner, admin>>
  BY DEF ReadInputs, Statement, Running, chainVars
<1>1. /\ 4 \in 0 .. Len(program) /\ program \in Seq(Statements)
      /\ program[1].op = "readInputs" /\ program[2].op = "lend"
      /\ program[3].op = "configure" /\ program[4].op = "return"
  BY <1>0, ReadInputsProcess, RunningProcess
<1>2. PICK n \in {1, 4} :
        /\ program' = Drop(program, n)
        /\ n = 1 => \E i \in DOMAIN inputs' : inputs'[i] # {}
        /\ n = 4 => ~Running("lend")'
  <2>1. Tail(program) = Drop(program, 1)
    BY <1>0, RunningProcess
  <2>2. CASE program' = Tail(program) /\ \E i \in DOMAIN inputs' : inputs'[i] # {}
    <3>1. 1 \in {1, 4} /\ 1 # 4
      OBVIOUS
    <3> QED
      BY <2>1, <2>2, <3>1
  <2>3. CASE program' = Drop(program, 4) /\ ~Running("lend")'
    <3>1. 4 \in {1, 4} /\ 4 # 1
      OBVIOUS
    <3> QED
      BY <2>3, <3>1
  <2> QED
    BY <2>2, <2>3, ReadInputsKeepsProcess
<1>3. n \in 0 .. Len(program) /\ Len(program) \in Nat /\ DOMAIN program = 1 .. Len(program)
  BY <1>1, <1>2
<1>4. \A i \in DOMAIN program : i <= n => program[i].op \in {"readInputs", "lend", "configure", "return"}
  BY <1>1, <1>2, <1>3
<1>5. Effects(program, n) \cap Facts = {}
  <2>1. \A i \in DOMAIN program : program[i] \in Statements
    BY <1>1
  <2> QED
    BY <1>4, <2>1, FactOfStatement DEF Effects
<1>6. ~Lent /\ ~Lent' /\ ~Running("configure")' /\ ~Running("return")'
  BY <1>0, ReadInputsKeepsProcess DEF Lent, Running
<1>7. Established(K)'
  BY <1>0, <1>6 DEF Supplied, Established, Market, Configurator, Helper
<1>8. Supplied(K)'
  BY <1>2, <1>3, <1>5, <1>7, SuppliedStep
<1>9. configured'[run] # {} => NeverLends(program')
  BY <1>0, <1>1 DEF CustodyInv, NeverLends
<1>10. \/ rateOwner'[run] \in {None, Deployer}
       \/ \E i \in DOMAIN program' : program'[i].op = "setOracleOwnership"
  <2>1. ASSUME NEW i \in DOMAIN program, program[i].op = "setOracleOwnership"
        PROVE  i > n
    BY <1>3, <1>4, <2>1
  <2> QED
    BY <1>0, <1>2, <1>3, <2>1, OracleComesBack DEF CustodyInv
<1>11. Running("lend")' => \E i \in DOMAIN inputs' : inputs'[i] # {}
  BY <1>2
<1> QED
  BY <1>0, <1>6, <1>8, <1>9, <1>10, <1>11 DEF CustodyInv

\* Lending gives the market to its own helper, with all literal reserves listed and the
\* deployer to return to.
LEMMA LendWhole ==
  ASSUME TypeInv, ProcessInv, CustodyInv, NEW K, Supplied(K), Lend
  PROVE  CustodyInv' /\ Supplied(K)'
<1>0. /\ Running("lend") /\ Op = "lend" /\ program # <<>> /\ Advance
      /\ UNCHANGED <<run, db, listed, configured, rateOwner, admin, inputs>>
  BY DEF Lend, Statement, Running, processVars, Advance
<1>1. run \in Runs /\ run' = run /\ program[1] \in Statements
  BY <1>0, RunningProcess
<1>2. /\ Market = run /\ admin = Deployer
      /\ Helper = Contract("ATokensAndRatesHelper", run, run)
  BY <1>0, WholeContext
<1>3. addresses'[run]["POOL_ADMIN"] = Helper
  <2>1. addresses'[run]["POOL_ADMIN"]
          = IF run = Market /\ Op = "appoint" THEN Deployer
            ELSE IF run = Market /\ Op = "return" THEN admin
            ELSE IF run = Market /\ Op = "lend" THEN Helper
            ELSE addresses[run]["POOL_ADMIN"]
    BY <1>1, PoolAdminStep
  <2> QED
    BY <1>0, <1>2, <2>1
<1>4. Market' = Market /\ Helper' = Helper /\ Configurator' = Configurator
  BY <1>0 DEF Market, Helper, Configurator
<1>5. Lent' /\ ~Running("lend")' /\ ~Running("return")' /\ NeverLends(program')
  <2>1. Lent' /\ Running("configure")' /\ ~Running("lend")' /\ NeverLends(program')
    BY LendKeepsProcess
  <2> QED
    BY <2>1 DEF Running
<1>6. /\ 1 \in 0 .. Len(program) /\ program' = Drop(program, 1)
      /\ Effects(program, 1) = {Effect(program[1])}
  BY <1>0, AdvanceEffects
<1>7. Effects(program, 1) \cap Facts = {}
  BY <1>0, <1>1, <1>6, FactOfStatement DEF Op
<1>8. Established(K)'
  BY <1>0, <1>1, <1>4, <1>5 DEF Supplied, Established
<1>9. Supplied(K)'
  BY <1>6, <1>7, <1>8, SuppliedStep
<1>10. \/ rateOwner'[run] \in {None, Deployer}
       \/ \E i \in DOMAIN program' : program'[i].op = "setOracleOwnership"
  <2>1. ASSUME NEW i \in DOMAIN program, program[i].op = "setOracleOwnership"
        PROVE  i > 1
    <3>1. i # 1
      BY <1>0, <2>1 DEF Op
    <3>2. program \in Seq(Statements)
      BY DEF ProcessInv, WellFormed
    <3> QED
      BY <3>1, <3>2
  <2> QED
    BY <1>0, <1>6, <2>1, OracleComesBack DEF CustodyInv
<1>11. configured'[run] # {} \/ \E i \in DOMAIN inputs' : inputs'[i] # {}
  BY <1>0 DEF CustodyInv
<1> QED
  BY <1>0, <1>1, <1>2, <1>3, <1>4, <1>5, <1>9, <1>10, <1>11 DEF CustodyInv

\* The helper of the market configures a token before the market is returned.
LEMMA ConfigureWhole ==
  ASSUME TypeInv, ProcessInv, CustodyInv, NEW K, Supplied(K), Configure
  PROVE  CustodyInv' /\ Supplied(K)'
<1>0. /\ Running("configure") /\ Op = "configure" /\ program # <<>> /\ Lent
      /\ UNCHANGED <<run, db, addresses, listed, rateOwner, admin>>
      /\ inputs' = Tail(inputs)
  BY DEF Configure, Statement, Running, Lent
<1>1. run \in Runs /\ run' = run /\ program[1] \in Statements
  BY <1>0, RunningProcess
<1>2. /\ Market = run /\ admin = Deployer
      /\ Helper = Contract("ATokensAndRatesHelper", run, run)
      /\ addresses[run]["POOL_ADMIN"] = Helper
  BY <1>0 DEF CustodyInv
<1>3. Helper.market = run
  BY <1>2, ContractTypes
<1>4. /\ configured'[run] = configured[run] \cup Head(inputs)
      /\ inputs # <<>> /\ inputs \in Seq(SUBSET AllTokens)
  BY <1>3, ConfigureTypes DEF TypeInv
<1>5. Market' = Market /\ Helper' = Helper /\ Configurator' = Configurator
  BY <1>0 DEF Market, Helper, Configurator
<1>6. configured'[run] # {} \/ \E i \in DOMAIN inputs' : inputs'[i] # {}
  <2>1. CASE configured[run] # {} \/ Head(inputs) # {}
    BY <1>4, <2>1
  <2>2. CASE configured[run] = {} /\ Head(inputs) = {}
    <3>1. PICK i \in DOMAIN inputs : inputs[i] # {}
      BY <1>0, <2>2 DEF CustodyInv
    <3>2. Head(inputs) = inputs[1]
      BY <1>4
    <3>3. i # 1
      BY <2>2, <3>1, <3>2
    <3>4. /\ Tail(inputs) = Drop(inputs, 1) /\ 1 \in 0 .. Len(inputs)
      BY <1>4, TailDrops
    <3>5. i > 1
      BY <1>4, <3>3
    <3>6. i - 1 \in DOMAIN Drop(inputs, 1) /\ Drop(inputs, 1)[i - 1] = inputs[i]
      BY <1>4, <3>4, <3>5, DropElements
    <3> QED
      BY <1>0, <3>1, <3>4, <3>6
  <2> QED
    BY <2>1, <2>2
<1>7. NeverLends(program) /\ ~Running("lend")'
  BY <1>0, ConfigureKeepsProcess DEF ProcessInv
<1>8. CASE inputs' # <<>> /\ program' = program
  <2>1. Lent' /\ Running("configure")' /\ ~Running("return")'
    BY <1>0, <1>8 DEF Lent, Running, Op
  <2>2. Established(K)'
    BY <1>0, <1>1, <1>5, <2>1 DEF Supplied, Established
  <2>3. Supplied(K)'
    BY <1>8, <2>2 DEF Supplied
  <2> QED
    BY <1>0, <1>1, <1>2, <1>5, <1>6, <1>7, <1>8, <2>1, <2>3 DEF CustodyInv
<1>9. CASE inputs' = <<>> /\ program' = Tail(program) /\ Running("return")'
  <2>1. Lent' /\ ~Running("configure")'
    BY <1>9 DEF Lent, Running
  <2>2. Established(K)'
    BY <1>0, <1>1, <1>5, <2>1 DEF Supplied, Established
  <2>3. /\ 1 \in 0 .. Len(program) /\ program' = Drop(program, 1)
        /\ Effects(program, 1) = {Effect(program[1])}
    BY <1>0, <1>9, AdvanceEffects DEF Advance
  <2>4. Effects(program, 1) \cap Facts = {}
    BY <1>0, <1>1, <2>3, FactOfStatement DEF Op
  <2>5. Supplied(K)'
    BY <2>2, <2>3, <2>4, SuppliedStep
  <2>6. NeverLends(program')
    BY <1>0, <1>7, <1>9, AdvanceProcess DEF Advance
  <2>7. configured'[run] # {}
    BY <1>6, <1>9
  <2>8. \/ rateOwner'[run] \in {None, Deployer}
        \/ \E i \in DOMAIN program' : program'[i].op = "setOracleOwnership"
    <3>1. ASSUME NEW i \in DOMAIN program, program[i].op = "setOracleOwnership"
          PROVE  i > 1
      <4>1. i # 1
        BY <1>0, <3>1 DEF Op
      <4>2. program \in Seq(Statements)
        BY DEF ProcessInv, WellFormed
      <4> QED
        BY <4>1, <4>2
    <3> QED
      BY <1>0, <2>3, <3>1, OracleComesBack DEF CustodyInv
  <2> QED
    BY <1>0, <1>1, <1>2, <1>5, <1>7, <2>1, <2>5, <2>6, <2>7, <2>8 DEF CustodyInv
<1> QED
  BY <1>8, <1>9, ConfigureKeepsProcess

\* A new run finds its market untouched, hence needs nothing.
LEMMA StartWhole ==
  ASSUME TypeInv, Start, script' \in WholeScripts
  PROVE  CustodyInv' /\ \E K : Supplied(K)'
<1>0. /\ run' \in Runs /\ run' > run /\ script' \in Scripts
      /\ UNCHANGED <<addresses, configured, rateOwner>>
  BY StartTypes DEF Start, chainVars
<1>1. Untouched(run')
  BY <1>0 DEF TypeInv
<1>2. addresses'[run']["POOL_ADMIN"] = None
  BY <1>0, <1>1 DEF Untouched, EmptyAddresses, Slots
<1>3. ~Lent' /\ ~Running("lend")' /\ ~Running("configure")'
  BY StartKeepsProcess
<1>4. ~Running("return")'
  BY <1>3 DEF Lent, Running
<1>5. CustodyInv'
  BY <1>0, <1>1, <1>2, <1>3, <1>4 DEF CustodyInv, Untouched
<1>6. PICK K : K = {}
  OBVIOUS
<1>7. Part(program', K, K \cup {ProviderDeployed, AdminAppointed})
  BY <1>0, ProgramsAreSound DEF Start
<1>8. Established(K)'
  BY <1>6 DEF Established
<1>9. Supplied(K)'
  BY <1>7, <1>8 DEF Supplied, Part
<1> QED
  BY <1>5, <1>9

\* Every step of a script that deploys a market of its own keeps custody and supplies.
LEMMA WholeStep ==
  ASSUME TypeInv, ProcessInv, WholeInv, [Next]_vars
  PROVE  WholeInv'
<1> SUFFICES ASSUME script' \in WholeScripts
             PROVE  CustodyInv' /\ \E K : Supplied(K)'
  BY DEF WholeInv
<1>1. CASE Start
  BY <1>1, StartWhole
<1>2. CASE Finish \/ Throw \/ Crash
  <2>1. script' = "none"
    BY <1>2, Endings DEF Ends
  <2> QED
    BY <2>1 DEF WholeScripts
<1>3. CASE Mine \/ Deposit \/ UNCHANGED vars
  <2>1. UNCHANGED <<run, script, program, db, addresses, listed, configured, admin, inputs,
                    rateOwner>>
    BY <1>3 DEF Mine, Deposit, vars, chainVars, processVars
  <2>2. CustodyInv /\ \E K : Supplied(K)
    BY <2>1 DEF WholeInv
  <2>3. Lent' <=> Lent
    BY <2>1 DEF Lent, Op
  <2>4. CustodyInv'
    BY <2>1, <2>2, <2>3 DEF CustodyInv, Running, Op, Market, Helper
  <2>5. PICK K : Supplied(K)
    BY <2>2
  <2>6. Supplied(K)'
    BY <2>1, <2>3, <2>5 DEF Supplied, Established, Market, Helper, Configurator
  <2> QED
    BY <2>4, <2>6
<1>4. CASE PlainAction \/ ReadInputs \/ Lend \/ Configure
  <2>1. script' = script
    BY <1>4, PlainActions DEF ReadInputs, Lend, Configure, processVars
  <2>2. CustodyInv /\ \E K : Supplied(K)
    BY <2>1 DEF WholeInv
  <2>3. PICK K : Supplied(K)
    BY <2>2
  <2> QED
    BY <1>4, <2>2, <2>3, PlainWhole, ReadInputsWhole, LendWhole, ConfigureWhole
<1> QED
  BY <1>1, <1>2, <1>3, <1>4 DEF Next, Step, PlainAction

\* Before the first run nothing is to be shown.
LEMMA InvariantInit == Init => DeploymentInv
<1>1. Init => WholeInv
  BY DEF Init, WholeInv, WholeScripts
<1> QED
  BY <1>1, TypeInit, ProcessInit DEF DeploymentInv

\* After any number of runs of any of the scripts, each stopped anywhere, the types hold, what
\* is left of a program is well-formed, and a script that deploys a market of its own has what
\* its statements need (Deployment.tla: the whole machine).
THEOREM DeploymentInvariant == Spec => []DeploymentInv
<1>1. DeploymentInv /\ [Next]_vars => DeploymentInv'
  BY TypeStep, ProcessStep, WholeStep DEF DeploymentInv
<1> QED
  BY InvariantInit, <1>1, PTL DEF Spec

\* After any number of runs of any of the scripts the variables have their types.
THEOREM DeploymentTypes == Spec => []TypeOK
<1>1. DeploymentInv => TypeOK
  BY DEF DeploymentInv, TypeInv, TypeOK
<1> QED
  BY <1>1, DeploymentInvariant, PTL

(***************************************************************************)
(* A run that ends well has left its market and its rate oracle with the   *)
(* deployer.                                                               *)
(***************************************************************************)
LEMMA FinishReturnsCustody ==
  ASSUME DeploymentInv, script \in WholeScripts, Finish
  PROVE  addresses[Market]["POOL_ADMIN"] = Deployer /\ rateOwner[run] \in {None, Deployer}
<1>1. program = <<>> /\ CustodyInv
  BY DEF Finish, DeploymentInv, WholeInv
<1>2. PICK K : Supplied(K)
  BY DEF DeploymentInv, WholeInv
<1>3. Effects(program, Len(program)) = {}
  BY <1>1 DEF Effects
<1>4. {ProviderDeployed, AdminAppointed} \subseteq K /\ Established(K)
  BY <1>2, <1>3 DEF Supplied
<1>5. ~Lent /\ ~\E i \in DOMAIN program : program[i].op = "setOracleOwnership"
  BY <1>1 DEF Lent
<1> QED
  BY <1>1, <1>4, <1>5 DEF Established, CustodyInv

\* If every script deploys a market of its own, a run that ends well leaves the market and the
\* rate oracle it works on with the deployer, whatever earlier runs have left (init-
\* helpers.ts:640-657).
THEOREM WholeRunsReturnCustody ==
  ASSUME Scripts \subseteq WholeScripts
  PROVE  Spec => []FinishedRunsReturnedCustody
<1>1. Init => FinishedRunsReturnedCustody
  BY DEF Init, FinishedRunsReturnedCustody
<1>2. ASSUME DeploymentInv, FinishedRunsReturnedCustody, [Next]_vars, status' = "done"
      PROVE  FinishedRunsReturnedCustody'
  <2>1. CASE status # "done"
    <3>1. status = "running" /\ Finish
      BY <1>2, <2>1, PlainActions
         DEF Next, Step, PlainAction, ReadInputs, Lend, Configure, Throw, Crash, Start, Mine,
             Deposit, Finish, Ends, vars, processVars
    <3>2. script \in WholeScripts
      BY <1>2, <3>1 DEF DeploymentInv, ProcessInv
    <3>3. UNCHANGED <<db, addresses, rateOwner, run>>
      BY <3>1 DEF Finish, Ends, chainVars
    <3> QED
      BY <1>2, <3>1, <3>2, <3>3, FinishReturnsCustody DEF FinishedRunsReturnedCustody, Market
  <2>2. CASE status = "done"
    <3>1. program = <<>>
      BY <1>2, <2>2 DEF DeploymentInv, ProcessInv
    <3>2. UNCHANGED <<db, addresses, rateOwner, run>>
      BY <1>2, <2>2, <3>1, PlainActions
         DEF Next, Step, PlainAction, ReadInputs, Lend, Configure, Throw, Crash, Start, Mine,
             Deposit, Finish, Ends, vars, processVars, chainVars, Statement, Running
    <3> QED
      BY <1>2, <2>2, <3>2 DEF FinishedRunsReturnedCustody, Market
  <2> QED
    BY <2>1, <2>2
<1>3. DeploymentInv /\ FinishedRunsReturnedCustody /\ [Next]_vars => FinishedRunsReturnedCustody'
  BY <1>2 DEF FinishedRunsReturnedCustody
<1> QED
  BY <1>1, <1>3, DeploymentInvariant, PTL DEF Spec

(***************************************************************************)
(* A script that deploys a market of its own works on no other.            *)
(***************************************************************************)
LEMMA StepIsSeparate ==
  ASSUME DeploymentInv, [Next]_vars, script \in WholeScripts, NEW p \in Runs, p # run
  PROVE  /\ addresses'[p] = addresses[p] /\ listed'[p] = listed[p]
         /\ configured'[p] = configured[p] /\ rateOwner'[p] = rateOwner[p]
<1>0. TypeInv /\ ProcessInv /\ CustodyInv /\ \E K : Supplied(K)
  BY DEF DeploymentInv, WholeInv
<1>1. PICK K : Supplied(K)
  BY <1>0
<1>2. CASE Start \/ Finish \/ Throw \/ Crash \/ Mine \/ Deposit \/ UNCHANGED vars
  BY <1>2 DEF Start, Finish, Throw, Crash, Ends, Mine, Deposit, vars, chainVars
<1>3. CASE Require \/ ReadAdmin \/ SaveProxy \/ SendAuthorization \/ ReadInputs \/ Register
  BY <1>3 DEF Require, ReadAdmin, SaveProxy, SendAuthorization, ReadInputs, Register, chainVars
<1>4. CASE Deploy
  BY <1>0, <1>4 DEF Deploy, TypeInv
<1>5. CASE RateOracle
  BY <1>0, <1>5, RateOracleTypes DEF RateOracle
<1>6. CASE SetProviderAddress
  <2>1. program # <<>> /\ Op \in {"appoint", "setAddress", "setImpl"}
    BY <1>6 DEF SetProviderAddress, Statement, Running
  <2>2. Market = run
    BY <1>0, <1>1, <2>1, WholeContext
  <2>3. addresses'[p] = addresses[p]
    BY <1>0, <1>6, <2>2, PoolAdminStep DEF PlainAction
  <2> QED
    BY <1>6, <2>3 DEF SetProviderAddress
<1>7. CASE InitReserves
  <2>1. program # <<>> /\ Op = "initReserves" /\ Configurator.market # 0
    BY <1>7 DEF InitReserves, Statement, Running, Succeeds
  <2>2. Configurator.market = run
    BY <1>0, <1>1, <2>1, WholeContext
  <2>3. listed'[p] = listed[p]
    BY <1>0, <1>7, <2>2, ListTypes
  <2> QED
    BY <1>7, <2>3 DEF InitReserves
<1>8. CASE Lend \/ Return
  <2>1. Market = run
    <3>1. CASE Lend
      BY <1>0, <1>1, <3>1, WholeContext DEF Lend, Statement, Running
    <3>2. CASE Return
      BY <1>0, <3>2 DEF Return, Statement, Running, CustodyInv, Lent
    <3> QED
      BY <1>8, <3>1, <3>2
  <2>2. addresses'[p] = addresses[p]
    BY <1>0, <1>8, <2>1, PoolAdminStep DEF PlainAction
  <2> QED
    BY <1>8, <2>2 DEF Lend, Return
<1>9. CASE Configure
  <2>1. Lent
    BY <1>9 DEF Configure, Statement, Running, Lent
  <2>2. Helper.market = run
    BY <1>0, <2>1, ContractTypes DEF CustodyInv
  <2>3. configured'[p] = configured[p]
    BY <1>0, <1>9, <2>2, ConfigureTypes
  <2> QED
    BY <1>9, <2>3 DEF Configure
<1> QED
  BY <1>2, <1>3, <1>4, <1>5, <1>6, <1>7, <1>8, <1>9 DEF Next, Step

\* A script that deploys a market of its own changes no address, no reserve and no rate oracle
\* of another market, whatever file it starts from.
THEOREM MarketsAreSeparate == Spec => FreshMarketsAreSeparate
<1>1. DeploymentInv /\ [Next]_vars =>
        [(script \in WholeScripts) =>
           (\A p \in Runs \ {run} :
              /\ addresses'[p] = addresses[p] /\ listed'[p] = listed[p]
              /\ configured'[p] = configured[p] /\ rateOwner'[p] = rateOwner[p])]_vars
  BY StepIsSeparate
<1> QED
  BY <1>1, DeploymentInvariant, PTL DEF Spec, FreshMarketsAreSeparate

(***************************************************************************)
(* Whole scripts implement MarketLaunch.                                   *)
(***************************************************************************)
\* Who administers a market, by its table of addresses.
LEMMA CustodyValues ==
  ASSUME NEW p \in Runs
  PROVE  /\ Custody(p) = "nobody" <=> addresses[p]["POOL_ADMIN"] = None
         /\ Custody(p) = "deployer" <=> addresses[p]["POOL_ADMIN"] = Deployer
         /\ Custody(p) = "helper" <=> addresses[p]["POOL_ADMIN"] \notin {None, Deployer}
BY ContractTypes DEF Custody

\* No market is administered, listed or configured at first.
LEMMA LaunchInit == Init => Launch!Init
<1> SUFFICES ASSUME Init
             PROVE  Launch!Init
  OBVIOUS
<1>1. \A p \in Runs : addresses[p]["POOL_ADMIN"] = None
  BY DEF Init, EmptyAddresses, Slots
<1>2. \A p \in Runs : Custody(p) = "nobody"
  BY <1>1, CustodyValues
<1> QED
  BY <1>2 DEF Init, Launch!Init

\* A step that changes neither the pool admins nor the reserves is none of the launch.
LEMMA LaunchStutters ==
  ASSUME \A p \in Runs : addresses'[p]["POOL_ADMIN"] = addresses[p]["POOL_ADMIN"],
         UNCHANGED <<listed, configured>>
  PROVE  UNCHANGED Launch!vars
<1>1. \A p \in Runs : Custody(p)' = Custody(p)
  BY DEF Custody
<1>2. [p \in Runs |-> Custody(p)]' = [p \in Runs |-> Custody(p)]
  BY <1>1
<1> QED
  BY <1>2 DEF Launch!vars

\* A step that appoints the pool admin of a market, and no other.
LEMMA CustodyMoves ==
  ASSUME NEW m \in Runs, NEW a,
         \A p \in Runs : addresses'[p]["POOL_ADMIN"]
                           = IF p = m THEN a ELSE addresses[p]["POOL_ADMIN"]
  PROVE  /\ a = Deployer => [p \in Runs |-> Custody(p)]'
                              = [[p \in Runs |-> Custody(p)] EXCEPT ![m] = "deployer"]
         /\ a \notin {None, Deployer} => [p \in Runs |-> Custody(p)]'
                              = [[p \in Runs |-> Custody(p)] EXCEPT ![m] = "helper"]
<1>1. ASSUME NEW p \in Runs, p # m
      PROVE  Custody(p)' = Custody(p)
  BY <1>1 DEF Custody
<1>2. a = Deployer => Custody(m)' = "deployer"
  <2>1. addresses'[m]["POOL_ADMIN"] = a /\ None # Deployer
    BY ContractTypes
  <2> QED
    BY <2>1 DEF Custody
<1>3. a \notin {None, Deployer} => Custody(m)' = "helper"
  <2>1. addresses'[m]["POOL_ADMIN"] = a
    OBVIOUS
  <2> QED
    BY <2>1 DEF Custody
<1> QED
  BY <1>1, <1>2, <1>3

\* Among the other statements, only appointing an administrator, listing and returning the
\* market are steps of a launch.
LEMMA LaunchPlain ==
  ASSUME DeploymentInv, script \in WholeScripts, PlainAction
  PROVE  Launch!Next \/ UNCHANGED Launch!vars
<1>0. TypeInv /\ ProcessInv /\ CustodyInv /\ \E K : Supplied(K)
  BY DEF DeploymentInv, WholeInv
<1>1. PICK K : Supplied(K)
  BY <1>0
<1>2. program # <<>> /\ configured' = configured /\ Op # "lend"
  BY PlainActions
<1>3. PICK m \in Runs : m = run
  BY <1>0, <1>2, RunningProcess
<1>4. \A p \in Runs :
        addresses'[p]["POOL_ADMIN"]
          = IF p = Market /\ Op = "appoint" THEN Deployer
            ELSE IF p = Market /\ Op = "return" THEN admin
            ELSE addresses[p]["POOL_ADMIN"]
  BY <1>0, <1>2, PoolAdminStep
<1>5. CASE InitReserves
  <2>1. /\ Op = "initReserves" /\ Configurator.market # 0
        /\ addresses[Configurator.market]["POOL_ADMIN"] = Deployer
        /\ DOMAIN chunkedInitInputParams[Arg] \cap listed[Configurator.market] = {}
        /\ addresses' = addresses
    BY <1>5 DEF InitReserves, Statement, Running, Succeeds
  <2>2. Configurator.market = m
    BY <1>0, <1>1, <1>2, <1>3, <2>1, WholeContext
  <2>3. /\ TypeInv' /\ Arg \in 1 .. 5
        /\ \A p \in Runs : p # m => listed'[p] = listed[p]
        /\ listed'[m] = listed[m] \cup DOMAIN chunkedInitInputParams[Arg]
    BY <1>0, <1>5, <2>2, ListTypes
  <2>4. DOMAIN chunkedInitInputParams[Arg] # {}
    BY <2>3 DEF chunkedInitInputParams, InitChunk1, InitChunk2, InitChunk3, InitChunk4, InitChunk5
  <2>5. Custody(m) = "deployer"
    BY <2>1, <2>2, CustodyValues
  <2>6. /\ listed' \in [Runs -> SUBSET Literals]
        /\ \A q \in Runs \ {m} : listed'[q] = listed[q]
        /\ listed[m] \subseteq listed'[m] /\ listed'[m] # listed[m]
    BY <2>1, <2>2, <2>3, <2>4 DEF TypeInv
  <2>7. [p \in Runs |-> Custody(p)]' = [p \in Runs |-> Custody(p)]
    BY <2>1 DEF Custody
  <2>8. Launch!List(m)
    BY <1>2, <2>5, <2>6, <2>7 DEF Launch!List
  <2> QED
    BY <2>8 DEF Launch!Next
<1>6. CASE Op = "appoint"
  <2>1. Market = m /\ listed' = listed /\ ~Lent
    <3>1. SetProviderAddress
      BY <1>6 DEF PlainAction, Require, ReadAdmin, Deploy, SaveProxy, Register,
                  RateOracle, InitReserves, SendAuthorization, Return, Statement, Running
    <3> QED
      BY <1>0, <1>1, <1>2, <1>3, <1>6, <3>1, WholeContext DEF SetProviderAddress, Lent
  <2>2. \A p \in Runs : addresses'[p]["POOL_ADMIN"]
                          = IF p = m THEN Deployer ELSE addresses[p]["POOL_ADMIN"]
    BY <1>4, <1>6, <2>1
  <2>3. CASE addresses[m]["POOL_ADMIN"] = None
    <3>1. Custody(m) = "nobody"
      BY <2>3, CustodyValues
    <3>2. [p \in Runs |-> Custody(p)]'
            = [[p \in Runs |-> Custody(p)] EXCEPT ![m] = "deployer"]
      BY <2>2, CustodyMoves
    <3>3. Launch!Appoint(m)
      BY <1>2, <2>1, <3>1, <3>2 DEF Launch!Appoint
    <3> QED
      BY <3>3 DEF Launch!Next
  <2>4. CASE addresses[m]["POOL_ADMIN"] = Deployer
    BY <1>2, <2>1, <2>2, <2>4, LaunchStutters
  <2> QED
    BY <1>0, <1>3, <2>1, <2>3, <2>4 DEF CustodyInv
<1>7. CASE Op = "return"
  <2>1. Lent /\ Running("return") /\ listed' = listed
    <3>1. Return
      BY <1>7 DEF PlainAction, Require, ReadAdmin, Deploy, SaveProxy, Register,
                  SetProviderAddress, RateOracle, InitReserves, SendAuthorization, Statement, Running
    <3> QED
      BY <1>2, <1>7, <3>1 DEF Return, Lent, Running
  <2>2. /\ Market = m /\ admin = Deployer /\ configured[m] # {}
        /\ addresses[m]["POOL_ADMIN"] = Contract("ATokensAndRatesHelper", m, m)
    BY <1>0, <1>3, <2>1 DEF CustodyInv
  <2>3. \A p \in Runs : addresses'[p]["POOL_ADMIN"]
                          = IF p = m THEN Deployer ELSE addresses[p]["POOL_ADMIN"]
    BY <1>4, <1>7, <2>2
  <2>4. Custody(m) = "helper"
    BY <2>2, CustodyValues, ContractTypes
  <2>5. [p \in Runs |-> Custody(p)]'
          = [[p \in Runs |-> Custody(p)] EXCEPT ![m] = "deployer"]
    BY <2>3, CustodyMoves
  <2>6. Launch!Return(m)
    BY <1>2, <2>1, <2>2, <2>4, <2>5 DEF Launch!Return
  <2> QED
    BY <2>6 DEF Launch!Next
<1>8. CASE ~InitReserves /\ Op \notin {"appoint", "return"}
  <2>1. listed' = listed
    BY <1>8 DEF PlainAction, Require, ReadAdmin, Deploy, SaveProxy, SetProviderAddress,
                Register, RateOracle, SendAuthorization, Return, chainVars
  <2> QED
    BY <1>2, <1>4, <1>8, <2>1, LaunchStutters
<1> QED
  BY <1>5, <1>6, <1>7, <1>8

\* Lending gives a market whose administrator is the deployer and whose reserves are listed to
\* its helper.
LEMMA LaunchLend ==
  ASSUME DeploymentInv, script \in WholeScripts, Lend
  PROVE  Launch!Next
<1>0. TypeInv /\ ProcessInv /\ CustodyInv /\ \E K : Supplied(K)
  BY DEF DeploymentInv, WholeInv
<1>1. PICK K : Supplied(K)
  BY <1>0
<1>2. program # <<>> /\ Op = "lend" /\ UNCHANGED <<listed, configured>>
  BY DEF Lend, Statement, Running
<1>3. PICK m \in Runs : m = run
  BY <1>0, <1>2, RunningProcess
<1>4. /\ Market = m /\ Helper = Contract("ATokensAndRatesHelper", m, m)
      /\ addresses[m]["POOL_ADMIN"] = Deployer
      /\ \A i \in 1 .. 5 : DOMAIN chunkedInitInputParams[i] \subseteq listed[m]
  BY <1>0, <1>1, <1>2, <1>3, WholeContext
<1>5. Helper \notin {None, Deployer}
  BY <1>4, ContractTypes
<1>6. \A p \in Runs : addresses'[p]["POOL_ADMIN"]
                        = IF p = m THEN Helper ELSE addresses[p]["POOL_ADMIN"]
  BY <1>0, <1>2, <1>4, PoolAdminStep
<1>7. [p \in Runs |-> Custody(p)]' = [[p \in Runs |-> Custody(p)] EXCEPT ![m] = "helper"]
  BY <1>5, <1>6, CustodyMoves
<1>8. Custody(m) = "deployer"
  BY <1>4, CustodyValues
<1>9. listed[m] = Literals
  <2>1. DOMAIN chunkedInitInputParams = 1 .. 5
    BY DEF chunkedInitInputParams
  <2>2. listed[m] \subseteq Literals
    BY <1>0 DEF TypeInv
  <2> QED
    BY <1>4, <2>1, <2>2 DEF Literals
<1>10. configured[m] = {}
  <2>1. 1 \in DOMAIN program
    BY <1>0, <1>2, RunningProcess
  <2>2. ~NeverLends(program)
    BY <1>2, <2>1 DEF NeverLends, Op
  <2> QED
    BY <1>0, <1>3, <2>2 DEF CustodyInv
<1>11. Launch!Lend(m)
  BY <1>2, <1>7, <1>8, <1>9, <1>10 DEF Launch!Lend
<1> QED
  BY <1>11 DEF Launch!Next

\* Configuring adds parameters to the market its helper administers.
LEMMA LaunchConfigure ==
  ASSUME DeploymentInv, script \in WholeScripts, Configure
  PROVE  Launch!Next
<1>0. TypeInv /\ ProcessInv /\ CustodyInv
  BY DEF DeploymentInv, WholeInv
<1>1. Lent /\ program # <<>> /\ UNCHANGED <<addresses, listed>>
  BY DEF Configure, Statement, Running, Lent
<1>2. PICK m \in Runs : m = run
  BY <1>0, <1>1, RunningProcess
<1>3. /\ Helper = Contract("ATokensAndRatesHelper", m, m)
      /\ addresses[m]["POOL_ADMIN"] = Helper
  BY <1>0, <1>1, <1>2 DEF CustodyInv
<1>4. Helper.market = m /\ Helper \notin {None, Deployer}
  BY <1>3, ContractTypes
<1>5. Custody(m) = "helper"
  BY <1>3, <1>4, CustodyValues
<1>6. /\ TypeInv' /\ \A p \in Runs : p # m => configured'[p] = configured[p]
      /\ configured'[m] = configured[m] \cup Head(inputs)
  BY <1>0, <1>4, ConfigureTypes
<1>7. /\ configured' \in [Runs -> SUBSET AllTokens]
      /\ \A q \in Runs \ {m} : configured'[q] = configured[q]
      /\ configured[m] \subseteq configured'[m]
  BY <1>6 DEF TypeInv
<1>8. [p \in Runs |-> Custody(p)]' = [p \in Runs |-> Custody(p)]
  BY <1>1 DEF Custody
<1>9. Launch!Configure(m)
  BY <1>1, <1>5, <1>7, <1>8 DEF Launch!Configure
<1> QED
  BY <1>9 DEF Launch!Next

(***************************************************************************)
(* Whatever scripts that deploy a market of their own run, wherever they   *)
(* stop, every market is launched as MarketLaunch says.                    *)
(***************************************************************************)
THEOREM WholeScriptsImplementLaunch ==
  ASSUME Scripts \subseteq WholeScripts
  PROVE  Spec => ImplementsLaunch
<1>1. ASSUME DeploymentInv, [Next]_vars
      PROVE  Launch!Next \/ UNCHANGED Launch!vars
  <2>1. program # <<>> => script \in WholeScripts
    BY <1>1, RunningProcess DEF DeploymentInv
  <2>2. CASE PlainAction
    BY <1>1, <2>1, <2>2, LaunchPlain, PlainActions
  <2>3. CASE Lend
    BY <1>1, <2>1, <2>3, LaunchLend DEF Lend, Statement, Running
  <2>4. CASE Configure
    BY <1>1, <2>1, <2>4, LaunchConfigure DEF Configure, Statement, Running
  <2>5. CASE ReadInputs \/ Finish \/ Throw \/ Crash \/ Start \/ Mine \/ Deposit \/ UNCHANGED vars
    <3>1. UNCHANGED <<addresses, listed, configured>>
      BY <2>5, Endings DEF ReadInputs, Ends, Start, Mine, Deposit, vars, chainVars
    <3> QED
      BY <3>1, LaunchStutters
  <2> QED
    BY <1>1, <2>2, <2>3, <2>4, <2>5 DEF Next, Step, PlainAction
<1>2. DeploymentInv /\ [Next]_vars => [Launch!Next]_(Launch!vars)
  BY <1>1
<1> QED
  BY LaunchInit, <1>2, DeploymentInvariant, PTL DEF Spec, ImplementsLaunch, Launch!Spec

=============================================================================
