---------------------------- MODULE Access_proofs ----------------------------
(* Proofs about the settings and the access to sources, for any commands,  *)
(* files, environments, answers and links.                                 *)
EXTENDS AccessProperties, FiniteSetTheorems, NaturalsInduction, WellFoundedInduction, TLAPS

(* The variables of the environment, applied one after the other.          *)
LEMMA LeastNumber ==
  ASSUME NEW S \in SUBSET Nat, S # {}
  PROVE  \E x \in S : \A y \in S : x =< y
<1> DEFINE R == {p \in Nat \X Nat : p[1] < p[2]}
<1>1. IsWellFoundedOn(R, Nat)
  BY NatLessThanWellFounded, Zenon DEF OpToRel
<1>2. \A x, y \in Nat : <<y, x>> \in R <=> y < x
  OBVIOUS
<1> HIDE DEF R
<1>3. PICK x \in S : \A y \in S : ~(<<y, x>> \in R)
  BY <1>1, WFMin
<1>4. ASSUME NEW y \in S PROVE x =< y
  <2>1. x \in Nat /\ y \in Nat /\ ~(y < x)
    BY <1>2, <1>3
  <2> QED BY <2>1
<1> QED BY <1>4

(* The configuration after the first n variables, for every n up to m.     *)
Sets(after, cfg, e, order, m) ==
  after = [n \in 0..m |-> IF n = 0 THEN cfg
                          ELSE SetFromEnv(after[n - 1], e, order[n])]

LEMMA OverridesExist ==
  ASSUME NEW cfg, NEW e, NEW order, NEW m \in Nat
  PROVE  \E after : Sets(after, cfg, e, order, m)
<1> DEFINE Bad == {n \in Nat : ~\E after : Sets(after, cfg, e, order, n)}
<1>1. SUFFICES ASSUME Bad # {} PROVE FALSE
  OBVIOUS
<1>2. PICK n \in Bad : \A k \in Bad : n =< k
  BY <1>1, LeastNumber, Bad \in SUBSET Nat
<1>3. n \in Nat /\ ~\E after : Sets(after, cfg, e, order, n)
  OBVIOUS
<1>4. CASE n = 0
  <2> DEFINE f == [k \in 0..0 |-> cfg]
             h == [k \in 0..0 |-> IF k = 0 THEN cfg ELSE SetFromEnv(f[k - 1], e, order[k])]
  <2>1. \A k \in 0..0 : k = 0
    OBVIOUS
  <2>2. f = h
    BY <2>1
  <2>3. h = [k \in 0..0 |-> IF k = 0 THEN cfg ELSE SetFromEnv(f[k - 1], e, order[k])]
    OBVIOUS
  <2> HIDE DEF f, h
  <2>4. Sets(f, cfg, e, order, 0)
    BY <2>2, <2>3 DEF Sets
  <2> QED BY <1>3, <1>4, <2>4
<1>5. CASE n # 0
  <2>1. n - 1 \in Nat /\ n - 1 \notin Bad
    BY <1>2, <1>3, <1>5
  <2>2. PICK g : Sets(g, cfg, e, order, n - 1)
    BY <2>1
  <2> DEFINE last == SetFromEnv(g[n - 1], e, order[n])
             f == [k \in 0..n |-> IF k = n THEN last ELSE g[k]]
             h == [k \in 0..n |-> IF k = 0 THEN cfg ELSE SetFromEnv(f[k - 1], e, order[k])]
  <2>3. \A k \in 0..n : h[k] = IF k = 0 THEN cfg ELSE SetFromEnv(f[k - 1], e, order[k])
    OBVIOUS
  <2>4. \A k \in 0..n : f[k] = IF k = n THEN last ELSE g[k]
    OBVIOUS
  <2>5. f = [k \in 0..n |-> f[k]] /\ h = [k \in 0..n |-> h[k]]
    OBVIOUS
  <2>6. h = [k \in 0..n |-> IF k = 0 THEN cfg ELSE SetFromEnv(f[k - 1], e, order[k])]
    OBVIOUS
  <2> HIDE DEF f, h
  <2>7. ASSUME NEW k \in 0..n PROVE f[k] = h[k]
    <3>1. CASE k = n
      <4>1. n \in 0..n /\ n - 1 \in 0..n /\ n - 1 # n
        BY <1>3, <2>1
      <4>2. f[n - 1] = g[n - 1] /\ f[n] = last
        BY <2>4, <4>1
      <4>3. h[n] = SetFromEnv(f[n - 1], e, order[n])
        BY <1>5, <2>3, <4>1
      <4> QED BY <3>1, <4>2, <4>3
    <3>2. CASE k # n /\ k = 0
      <4>1. g[0] = cfg
        BY <2>1, <2>2 DEF Sets
      <4> QED BY <1>3, <2>3, <2>4, <3>2, <4>1
    <3>3. CASE k # n /\ k # 0
      <4>1. k \in 0..n - 1 /\ k - 1 \in 0..n /\ k - 1 # n
        BY <1>3, <3>3
      <4>2. g[k] = SetFromEnv(g[k - 1], e, order[k])
        BY <2>2, <3>3, <4>1 DEF Sets
      <4>3. f[k] = g[k] /\ f[k - 1] = g[k - 1]
        BY <2>4, <3>3, <4>1
      <4>4. h[k] = SetFromEnv(f[k - 1], e, order[k])
        BY <2>3, <3>3
      <4> QED BY <4>2, <4>3, <4>4
    <3> QED BY <3>1, <3>2, <3>3
  <2>8. f = h
    BY <2>5, <2>7
  <2>9. Sets(f, cfg, e, order, n)
    BY <2>6, <2>8 DEF Sets
  <2> QED BY <1>3, <2>9
<1> QED BY <1>4, <1>5

(* After n variables a field has its first value, or that of the last of   *)
(* them that sets it.                                                      *)
LastOf(c, cfg, e, order, n, g) ==
  \/ c[g] = cfg[g] /\ \A i \in 1..n : VariableOf[order[i]] # g
  \/ \E i \in 1..n :
       /\ VariableOf[order[i]] = g /\ c[g] = EnvValue(g, e[order[i]])
       /\ \A j \in 1..n : VariableOf[order[j]] = g => j =< i

LEMMA SetOne ==
  ASSUME NEW cfg, NEW e, NEW order, NEW c, NEW n \in Nat, n # 0, NEW g \in Fields,
         DOMAIN c = Fields, LastOf(c, cfg, e, order, n - 1, g)
  PROVE  LastOf(SetFromEnv(c, e, order[n]), cfg, e, order, n, g)
<1> DEFINE v == order[n]
           d == SetFromEnv(c, e, v)
<1>1. n \in 1..n /\ \A i : i \in 1..n <=> (i \in 1..n - 1 \/ i = n)
  OBVIOUS
<1>2. d[g] = IF VariableOf[v] = g THEN EnvValue(g, e[v]) ELSE c[g]
  BY DEF SetFromEnv
<1> HIDE DEF d
<1>3. CASE VariableOf[v] = g
  <2>1. \A j \in 1..n : j =< n
    OBVIOUS
  <2> QED BY <1>1, <1>2, <1>3, <2>1 DEF LastOf, d
<1>4. CASE VariableOf[v] # g
  <2>1. d[g] = c[g]
    BY <1>2, <1>4
  <2>2. CASE c[g] = cfg[g] /\ \A i \in 1..n - 1 : VariableOf[order[i]] # g
    BY <1>1, <1>4, <2>1, <2>2 DEF LastOf, d
  <2>3. CASE \E i \in 1..n - 1 :
               /\ VariableOf[order[i]] = g /\ c[g] = EnvValue(g, e[order[i]])
               /\ \A j \in 1..n - 1 : VariableOf[order[j]] = g => j =< i
    BY <1>1, <1>4, <2>1, <2>3 DEF LastOf, d
  <2> QED BY <2>2, <2>3 DEF LastOf
<1> QED BY <1>3, <1>4

LEMMA OverridesHold ==
  ASSUME NEW cfg, DOMAIN cfg = Fields, NEW e, NEW order, Len(order) \in Nat
  PROVE  \A g \in Fields :
           LastOf(ApplyEnvOverrides(cfg, e, order), cfg, e, order, Len(order), g)
<1> DEFINE m == Len(order)
           f == CHOOSE after : Sets(after, cfg, e, order, m)
           Good(n) == /\ DOMAIN f[n] = Fields
                      /\ \A g \in Fields : LastOf(f[n], cfg, e, order, n, g)
           Bad == {n \in 0..m : ~Good(n)}
<1>1. ApplyEnvOverrides(cfg, e, order) = f[m]
  BY Zenon DEF ApplyEnvOverrides, Sets
<1>2. Sets(f, cfg, e, order, m)
  BY OverridesExist, Zenon
<1>3. m \in Nat
  OBVIOUS
<1> HIDE DEF m, f
<1>4. f[0] = cfg /\ \A n \in 1..m : f[n] = SetFromEnv(f[n - 1], e, order[n])
  <2>1. \A n \in 0..m : f[n] = IF n = 0 THEN cfg ELSE SetFromEnv(f[n - 1], e, order[n])
    BY <1>2 DEF Sets
  <2>2. 0 \in 0..m /\ \A n \in 1..m : n \in 0..m /\ n # 0
    BY <1>3
  <2> QED BY <2>1, <2>2
<1>5. Good(0)
  BY <1>4 DEF LastOf
<1>6. ASSUME NEW n \in 1..m, Good(n - 1) PROVE Good(n)
  <2>1. n \in Nat /\ n # 0
    BY <1>3
  <2>2. f[n] = SetFromEnv(f[n - 1], e, order[n])
    BY <1>4
  <2>3. DOMAIN f[n] = Fields
    BY <1>6, <2>2 DEF SetFromEnv
  <2>4. \A g \in Fields : LastOf(f[n], cfg, e, order, n, g)
    BY <1>6, <2>1, <2>2, SetOne
  <2> QED BY <2>3, <2>4
<1>7. Good(m)
  <2> SUFFICES ASSUME ~Good(m) PROVE FALSE
    OBVIOUS
  <2> HIDE DEF Good
  <2>1. Bad \in SUBSET Nat /\ m \in Bad
    BY <1>3
  <2>2. PICK n \in Bad : \A k \in Bad : n =< k
    BY <2>1, LeastNumber
  <2>3. n \in 0..m /\ ~Good(n)
    OBVIOUS
  <2>4. n # 0
    BY <1>5, <2>3
  <2>5. n \in 1..m /\ n - 1 \in 0..m /\ ~(n =< n - 1)
    BY <1>3, <2>3, <2>4
  <2>6. n - 1 \notin Bad
    BY <2>2, <2>5
  <2>7. Good(n - 1)
    BY <2>5, <2>6
  <2> QED BY <1>6, <2>3, <2>5, <2>7
<1> QED BY <1>1, <1>7 DEF m

-----------------------------------------------------------------------------
(* An order lists every variable, the more specific of two later.          *)
LEMMA OrderListsAll ==
  ASSUME NEW S, IsFiniteSet(S), NEW order \in ByPrecedence(S)
  PROVE  /\ Len(order) \in Nat /\ DOMAIN order = 1..Len(order)
         /\ \A i \in 1..Len(order) : order[i] \in S
         /\ \A v \in S : \E i \in 1..Len(order) : order[i] = v
         /\ \A i, j \in 1..Len(order) :
              i < j => EnvPrecedence(order[i]) <= EnvPrecedence(order[j])
<1> DEFINE n == Cardinality(S)
<1>1. n \in Nat
  BY FS_CardinalityType
<1>2. /\ order \in [1..n -> S]
      /\ \A i, j \in 1..n : i # j => order[i] # order[j]
      /\ \A i, j \in DOMAIN order :
           i < j => EnvPrecedence(order[i]) <= EnvPrecedence(order[j])
  BY DEF ByPrecedence, SetToSeqs
<1> HIDE DEF n
<1>3. DOMAIN order = 1..n /\ Len(order) = n
  BY <1>1, <1>2
<1>4. order \in Injection(1..n, S)
  BY <1>2 DEF Injection, IsInjective
<1>5. IsFiniteSet(1..n) /\ Cardinality(1..n) = Cardinality(S)
  BY <1>1, FS_Interval DEF n
<1>6. order \in Surjection(1..n, S)
  BY <1>4, <1>5, FS_Injection
<1>7. \A v \in S : \E i \in 1..n : order[i] = v
  BY <1>6 DEF Surjection
<1> QED BY <1>1, <1>2, <1>3, <1>7

(* What RunsByPrecedence says of one command, in an environment.           *)
RunsWith(x, e) ==
  \A f \in Fields :
    LET set == {v \in DOMAIN e : VariableOf[v] = f} IN
    IF set = {} THEN x.cfg[f] = Applied(x.raw)[f]
    ELSE \E v \in set :
           /\ x.cfg[f] = EnvValue(f, e[v])
           /\ \A w \in set : EnvPrecedence(w) <= EnvPrecedence(v)

LEMMA VariablesAreFew == IsFiniteSet(DOMAIN VariableOf)
<1> DEFINE L == <<"PAPERBRIDGE_CLOUD_API_BASE", "PAPERBRIDGE_API_BASE", "ZOTERO_MCP_API_BASE",
                  "PAPERBRIDGE_LOCAL_API_BASE", "PAPERBRIDGE_BACKEND_MODE",
                  "PAPERBRIDGE_API_KEY", "ZOTERO_MCP_API_KEY", "PAPERBRIDGE_HF_TOKEN", "HF_TOKEN", "PAPERBRIDGE_LIBRARY_TYPE",
                  "PAPERBRIDGE_USER_ID", "PAPERBRIDGE_INSTITUTION_ACCESS_MODE",
                  "PAPERBRIDGE_INSTITUTION_GATEWAY_URL">>
<1>1. L \in Seq(DOMAIN VariableOf) /\ \A v \in DOMAIN VariableOf : \E n \in 1..Len(L) : L[n] = v
  BY DEF VariableOf
<1> QED BY <1>1 DEF IsFiniteSet

LEMMA LoadedFields ==
  ASSUME NEW content
  PROVE  /\ DOMAIN LoadFileOrDefault(content) = Fields
         /\ \A f \in Fields : LoadFileOrDefault(content)[f]
              = Applied(IF content = NONE THEN Empty ELSE content)[f]
<1>1. CASE content = NONE
  <2>1. DOMAIN Empty = {}
    BY DEF Empty
  <2>2. \A f \in Fields : Applied(Empty)[f] = DefaultConfig[f]
    BY <2>1 DEF Applied
  <2> QED BY <1>1, <2>2 DEF LoadFileOrDefault, DefaultConfig
<1>2. CASE content # NONE
  BY <1>2 DEF LoadFileOrDefault, Applied
<1> QED BY <1>1, <1>2

(* What a command loads has each field from its most specific source.      *)
LEMMA LoadRunsWith ==
  ASSUME NEW content, NEW e, DOMAIN e \subseteq DOMAIN VariableOf,
         NEW order \in ByPrecedence(DOMAIN e), NEW x,
         x.cfg = ApplyEnvOverrides(LoadFileOrDefault(content), e, order),
         x.raw = IF content = NONE THEN Empty ELSE content
  PROVE  RunsWith(x, e)
<1> DEFINE cfg == LoadFileOrDefault(content)
           m == Len(order)
<1>1. IsFiniteSet(DOMAIN e)
  BY VariablesAreFew, FS_Subset
<1>2. /\ m \in Nat
      /\ \A i \in 1..m : order[i] \in DOMAIN e
      /\ \A v \in DOMAIN e : \E i \in 1..m : order[i] = v
      /\ \A i, j \in 1..m : i < j => EnvPrecedence(order[i]) <= EnvPrecedence(order[j])
  BY <1>1, OrderListsAll
<1>3. DOMAIN cfg = Fields /\ \A f \in Fields : cfg[f] = Applied(x.raw)[f]
  BY LoadedFields
<1> HIDE DEF cfg
<1>4. \A f \in Fields : LastOf(x.cfg, cfg, e, order, m, f)
  <2>1. x.cfg = ApplyEnvOverrides(cfg, e, order)
    BY DEF cfg
  <2> QED BY <1>2, <1>3, <2>1, OverridesHold
<1> HIDE DEF m
<1> SUFFICES ASSUME NEW f \in Fields
             PROVE  LET set == {v \in DOMAIN e : VariableOf[v] = f} IN
                    IF set = {} THEN x.cfg[f] = Applied(x.raw)[f]
                    ELSE \E v \in set :
                           /\ x.cfg[f] = EnvValue(f, e[v])
                           /\ \A w \in set : EnvPrecedence(w) <= EnvPrecedence(v)
  BY DEF RunsWith
<1> DEFINE set == {v \in DOMAIN e : VariableOf[v] = f}
<1>5. CASE x.cfg[f] = cfg[f] /\ \A i \in 1..m : VariableOf[order[i]] # f
  <2>1. set = {}
    BY <1>2, <1>5
  <2> QED BY <1>3, <1>5, <2>1
<1>6. ASSUME NEW i \in 1..m, VariableOf[order[i]] = f, x.cfg[f] = EnvValue(f, e[order[i]]),
             \A j \in 1..m : VariableOf[order[j]] = f => j =< i
      PROVE  \E v \in set :
               /\ x.cfg[f] = EnvValue(f, e[v])
               /\ \A w \in set : EnvPrecedence(w) <= EnvPrecedence(v)
  <2>1. order[i] \in set
    BY <1>2, <1>6
  <2>2. ASSUME NEW w \in set PROVE EnvPrecedence(w) <= EnvPrecedence(order[i])
    <3>1. PICK j \in 1..m : order[j] = w
      BY <1>2
    <3>2. j =< i
      BY <1>6, <3>1
    <3>3. CASE j = i
      BY <3>1, <3>3 DEF EnvPrecedence
    <3>4. CASE j # i
      <4>1. j < i
        BY <3>2, <3>4
      <4> QED BY <1>2, <3>1, <4>1
    <3> QED BY <3>3, <3>4
  <2> QED BY <1>6, <2>1, <2>2
<1>7. CASE \E i \in 1..m :
             /\ VariableOf[order[i]] = f /\ x.cfg[f] = EnvValue(f, e[order[i]])
             /\ \A j \in 1..m : VariableOf[order[j]] = f => j =< i
  BY <1>6, <1>7
<1> QED BY <1>4, <1>5, <1>7 DEF LastOf

-----------------------------------------------------------------------------
(* A command is a record of its fields, and so is a request.               *)
CommandFields == {"at", "kind", "word", "answers", "raw", "cfg"}
IsCommand(x) == x = [f \in CommandFields |-> x[f]]

RequestFields ==
  {"at", "by", "doi", "free", "target", "asked", "hop", "selected", "options",
   "holdings", "allowed", "opened"}
IsRequest(x) == x = [f \in RequestFields |-> x[f]]

Commanding == /\ cmd = [c \in Commands |-> cmd[c]]
              /\ \A c \in Commands : IsCommand(cmd[c])

(* A command that runs has loaded a valid configuration, each field from   *)
(* its most specific source.                                               *)
Loads(x) == x.at = "running" => Valid(x.cfg) /\ RunsWith(x, env)

Loaded == /\ DOMAIN env \subseteq DOMAIN VariableOf
          /\ \A c \in Commands : Loads(cmd[c])

CommandInv == Commanding /\ Loaded

-----------------------------------------------------------------------------
(* validate in config.rs asks for what new_profile in access.rs needs: an  *)
(* old endpoint is of one kind, and fills the place of that kind. It does  *)
(* not ask for what a backend with a key needs.                            *)
LEMMA ValidBuilds ==
  ASSUME NEW cfg, Valid(cfg)
  PROVE  Builds(cfg) <=> ~KeyAtRisk(cfg)
<1> DEFINE legacy == cfg["institution_access_url"]
           r == cfg["institution_resolver_url"]
           g == cfg["institution_gateway_url"]
           m == cfg["institution_access_mode"]
<1>1. /\ legacy = "unset" \/ legacy \in Resolvers \cup Gateways
      /\ r = "unset" \/ r \in Resolvers
      /\ g = "unset" \/ g \in Gateways
      /\ m # "off" => legacy # "unset" \/ r # "unset" \/ g # "unset"
      /\ LibraryHasId(cfg)
  BY DEF Valid, IsUrl, IsResolver, IsGateway
<1>2. ProfileOf(cfg).mode = m
  BY DEF ProfileOf
<1>3. ProfileOf(cfg).resolver = IF r = "unset" /\ legacy \in Resolvers THEN legacy ELSE r
  BY DEF ProfileOf
<1>4. ProfileOf(cfg).gateway = IF g = "unset" /\ legacy \in Gateways THEN legacy ELSE g
  BY DEF ProfileOf
<1>5. "unset" \notin Resolvers \cup Gateways
  BY AddressAssumption
<1>6. ProfileAccepted(ProfileOf(cfg))
  <2>1. IsResolver(ProfileOf(cfg).resolver) /\ IsGateway(ProfileOf(cfg).gateway)
    BY <1>1, <1>3, <1>4 DEF IsResolver, IsGateway
  <2>2. m # "off" => ProfileOf(cfg).resolver # "unset" \/ ProfileOf(cfg).gateway # "unset"
    BY <1>1, <1>3, <1>4, <1>5
  <2> QED BY <2>1, <2>2, <1>2 DEF ProfileAccepted
<1>7. BackendBuilds(cfg) <=> ~KeyAtRisk(cfg)
  BY DEF BackendBuilds, KeyAtRisk
<1> QED BY <1>1, <1>6, <1>7 DEF Builds, IsUrl

LEMMA IdleCommand == IsCommand(Idle) /\ Idle.at # "running"
BY DEF IsCommand, CommandFields, Idle

(* A command that becomes another one keeps the invariant of all.          *)
LEMMA ChangeCommands ==
  ASSUME CommandInv, NEW c \in Commands, NEW next, IsCommand(next),
         cmd' = [cmd EXCEPT ![c] = next], Loads(next), UNCHANGED env
  PROVE  CommandInv'
<1>1. \A d \in Commands : cmd'[d] = IF d = c THEN next ELSE cmd[d]
  BY DEF CommandInv, Commanding
<1>2. \A d \in Commands : Loads(cmd[d])'
  BY <1>1 DEF CommandInv, Loaded, Loads
<1> QED BY <1>1, <1>2 DEF CommandInv, Commanding, Loaded

LEMMA EndCommands ==
  ASSUME CommandInv, NEW c \in Commands, End(c), UNCHANGED env
  PROVE  CommandInv'
BY ChangeCommands, IdleCommand DEF End, Loads

LEMMA WriteCommands ==
  ASSUME CommandInv, NEW c \in Commands, NEW cfg, NEW a, WriteOrEnd(c, cfg, a),
         UNCHANGED env
  PROVE  CommandInv'
<1>1. CASE End(c)
  BY <1>1, EndCommands
<1>2. CASE cmd' = [cmd EXCEPT ![c].at = "write", ![c].cfg = cfg, ![c].answers = a]
  <2> DEFINE next == [cmd[c] EXCEPT !.at = "write", !.cfg = cfg, !.answers = a]
  <2>1. cmd' = [cmd EXCEPT ![c] = next]
    BY <1>2
  <2>2. IsCommand(next) /\ next.at = "write"
    BY DEF CommandInv, Commanding, IsCommand, CommandFields
  <2> QED BY <2>1, <2>2, ChangeCommands DEF Loads
<1> QED BY <1>1, <1>2 DEF WriteOrEnd

(* Each step of a command; only Load makes one run, with a configuration   *)
(* that validate accepted.                                                 *)
LEMMA CommandSteps ==
  ASSUME CommandInv, NEW c \in Commands, Command(c)
  PROVE  CommandInv'
<1>0. UNCHANGED env
  BY DEF Command, BeginSet, LoadAndSet, BeginInit, BeginInteractive, AnswerInit, BeginSetup,
     LoadForSetup, AnswerSetup, Truncate, Write, BeginRun, Load, Kill
<1>1. CASE BeginSet(c)
  <2>1. PICK w \in Words : Start(c, [Idle EXCEPT !.at = "load", !.kind = "set", !.word = w])
    BY <1>1 DEF BeginSet
  <2> DEFINE next == [Idle EXCEPT !.at = "load", !.kind = "set", !.word = w]
  <2>2. IsCommand(next) /\ next.at = "load"
    BY IdleCommand DEF IsCommand, CommandFields
  <2> QED BY <1>0, <2>1, <2>2, ChangeCommands DEF Start, Loads
<1>2. CASE LoadAndSet(c)
  BY <1>0, <1>2, WriteCommands DEF LoadAndSet
<1>3. CASE BeginInit(c)
  <2> DEFINE next == [Idle EXCEPT !.at = "write", !.kind = "init", !.cfg = DefaultConfig]
  <2>1. IsCommand(next) /\ next.at = "write"
    BY IdleCommand DEF IsCommand, CommandFields
  <2>2. Start(c, Idle) \/ Start(c, next)
    BY <1>3 DEF BeginInit
  <2> QED BY <1>0, <2>1, <2>2, ChangeCommands, IdleCommand DEF Start, Loads
<1>4. CASE BeginInteractive(c)
  <2> DEFINE next == [Idle EXCEPT !.at = "ask", !.kind = "interactive",
                        !.cfg = LoadFileOrDefault(file)]
  <2>1. IsCommand(next) /\ next.at = "ask"
    BY IdleCommand DEF IsCommand, CommandFields
  <2>2. Start(c, Idle) \/ Start(c, next)
    BY <1>4 DEF BeginInteractive
  <2> QED BY <1>0, <2>1, <2>2, ChangeCommands, IdleCommand DEF Start, Loads
<1>5. CASE AnswerInit(c)
  BY <1>0, <1>5, WriteCommands DEF AnswerInit
<1>6. CASE BeginSetup(c)
  <2> DEFINE next == [Idle EXCEPT !.at = "load", !.kind = "setup",
                        !.raw = IF file = NONE THEN Empty ELSE file]
  <2>1. IsCommand(next) /\ next.at = "load"
    BY IdleCommand DEF IsCommand, CommandFields
  <2> QED BY <1>0, <1>6, <2>1, ChangeCommands DEF BeginSetup, Start, Loads
<1>7. CASE LoadForSetup(c)
  <2> DEFINE next == [cmd[c] EXCEPT !.at = "ask", !.cfg = LoadFileOrDefault(file)]
  <2>1. cmd' = [cmd EXCEPT ![c] = next]
    BY <1>7 DEF LoadForSetup
  <2>2. IsCommand(next) /\ next.at = "ask"
    BY DEF CommandInv, Commanding, IsCommand, CommandFields
  <2> QED BY <1>0, <2>1, <2>2, ChangeCommands DEF Loads
<1>8. CASE AnswerSetup(c)
  BY <1>0, <1>8, WriteCommands DEF AnswerSetup
<1>9. CASE Truncate(c)
  <2> DEFINE next == [cmd[c] EXCEPT !.at = "writing"]
  <2>1. cmd' = [cmd EXCEPT ![c] = next]
    BY <1>9 DEF Truncate
  <2>2. IsCommand(next) /\ next.at = "writing"
    BY DEF CommandInv, Commanding, IsCommand, CommandFields
  <2> QED BY <1>0, <2>1, <2>2, ChangeCommands DEF Loads
<1>10. CASE Write(c)
  BY <1>0, <1>10, EndCommands DEF Write
<1>11. CASE BeginRun(c)
  <2> DEFINE next == [Idle EXCEPT !.at = "load", !.kind = "run"]
  <2>1. IsCommand(next) /\ next.at = "load"
    BY IdleCommand DEF IsCommand, CommandFields
  <2> QED BY <1>0, <1>11, <2>1, ChangeCommands DEF BeginRun, Start, Loads
<1>12. CASE Load(c)
  <2>1. PICK order \in ByPrecedence(DOMAIN env) :
          LET cfg == ApplyEnvOverrides(LoadFileOrDefault(file), env, order) IN
          IF EnvIsReadable(env) /\ Valid(cfg)
          THEN cmd' = [cmd EXCEPT ![c].at = "running", ![c].cfg = cfg,
                         ![c].raw = IF file = NONE THEN Empty ELSE file]
          ELSE End(c)
    BY <1>12 DEF Load
  <2> DEFINE cfg == ApplyEnvOverrides(LoadFileOrDefault(file), env, order)
             raw == IF file = NONE THEN Empty ELSE file
             next == [cmd[c] EXCEPT !.at = "running", !.cfg = cfg, !.raw = raw]
  <2>2. CASE Valid(cfg) /\ cmd' = [cmd EXCEPT ![c].at = "running", ![c].cfg = cfg, ![c].raw = raw]
    <3> HIDE DEF cfg, raw
    <3>1. cmd' = [cmd EXCEPT ![c] = next]
      BY <2>2
    <3>2. IsCommand(next) /\ next.at = "running" /\ next.cfg = cfg /\ next.raw = raw
      BY DEF CommandInv, Commanding, IsCommand, CommandFields
    <3>3. RunsWith(next, env)
      BY <2>1, <3>2, LoadRunsWith DEF cfg, raw, CommandInv, Loaded
    <3> QED BY <1>0, <2>2, <3>1, <3>2, <3>3, ChangeCommands DEF Loads
  <2>3. CASE End(c)
    BY <1>0, <2>3, EndCommands
  <2> QED BY <2>1, <2>2, <2>3
<1>13. CASE Kill(c)
  BY <1>0, <1>13, EndCommands DEF Kill
<1> QED BY <1>1, <1>2, <1>3, <1>4, <1>5, <1>6, <1>7, <1>8, <1>9, <1>10, <1>11, <1>12, <1>13
        DEF Command

LEMMA CommandInvInit == Init => CommandInv
<1> SUFFICES ASSUME Init PROVE CommandInv
  OBVIOUS
<1>1. cmd = [c \in Commands |-> Idle]
  BY DEF Init, SettingsInit
<1>2. DOMAIN env \subseteq DOMAIN VariableOf
  BY EnvironmentsAssumption DEF Init, SettingsInit
<1> QED BY <1>1, <1>2, IdleCommand DEF CommandInv, Commanding, Loaded, Loads

LEMMA CommandInvNext == CommandInv /\ [Next]_accessVars => CommandInv'
<1> SUFFICES ASSUME CommandInv, [Next]_accessVars PROVE CommandInv'
  OBVIOUS
<1>1. CASE UNCHANGED <<cmd, env>>
  BY <1>1 DEF CommandInv, Commanding, Loaded, Loads
<1>2. CASE Edit
  BY <1>1, <1>2 DEF Edit
<1>3. ASSUME NEW c \in Commands, Command(c) PROVE CommandInv'
  BY <1>3, CommandSteps
<1>4. ASSUME NEW c \in Commands, AccessPage(c) \/ AccessDoi(c) PROVE CommandInv'
  BY <1>1, <1>4 DEF AccessPage, AccessDoi, settingsVars
<1>5. ASSUME NEW c \in Commands, Other(c) PROVE CommandInv'
  BY <1>5, EndCommands DEF Other, Stop, End
<1>6. CASE Ask
  BY <1>1, <1>6 DEF Ask, WorkFound, WorkNotFound, Redirected, Unanswered, AnsweredPdf,
       AnsweredPage, OpenInBrowser, AnswerOnly, settingsVars
<1>7. CASE Leave
  <2>1. cmd' = [cmd EXCEPT ![access.by] = Idle] /\ UNCHANGED env
    BY <1>7 DEF Leave, Stop, End
  <2>2. CASE access.by \in Commands
    BY <2>1, <2>2, ChangeCommands, IdleCommand DEF Loads
  <2>3. CASE access.by \notin Commands
    BY <1>1, <2>1, <2>3 DEF CommandInv, Commanding
  <2> QED BY <2>2, <2>3
<1>8. CASE UNCHANGED accessVars
  BY <1>1, <1>8 DEF accessVars
<1> QED BY <1>2, <1>3, <1>4, <1>5, <1>6, <1>7, <1>8 DEF Next

(* Every configuration that a command runs with makes a service, but one   *)
(* with a key that would go to an insecure address: the two places that    *)
(* classify the addresses of an institution never disagree.                *)
THEOREM ConfigurationBuilds == Spec => []ProfileBuilds
<1>1. CommandInv => ProfileBuilds
  BY ValidBuilds DEF CommandInv, Loaded, Loads, ProfileBuilds
<1> QED BY <1>1, CommandInvInit, CommandInvNext, PTL DEF Spec

(* Every command runs with each field from its most specific source: the   *)
(* environment before the file, and of several variables that set it, the  *)
(* most specific, however the system lists them.                           *)
THEOREM SourcesTakePrecedence == Spec => []RunsByPrecedence
<1>1. CommandInv => RunsByPrecedence
  BY DEF CommandInv, Loaded, Loads, RunsWith, RunsByPrecedence
<1> QED BY <1>1, CommandInvInit, CommandInvNext, PTL DEF Spec

-----------------------------------------------------------------------------
(* A request and the profile of the command that makes it.                 *)

Offers(a, p) ==
  /\ UseResolver(p, a.doi, a.free)
  /\ \A o \in a.options :
       /\ o.auto_open \in BOOLEAN
       /\ o.auto_open => o.url.host \in {p.resolver, p.gateway}
  /\ \E o \in First(a.options) : a.selected = o.url /\ a.allowed = o.auto_open

Selects(a, p) ==
  \/ a.options = {} /\ a.selected = BuildUrl(p, a.target, a.doi, a.free)
  \/ Offers(a, p)

Asks(a, p) == UseResolver(p, a.doi, a.free) /\ Selects(a, p) /\ a.options = {}

RequestInv ==
  /\ IsRequest(access)
  /\ access.at # "idle" => access.by \in Commands
  /\ access.at = "doi" => access.options = {}
  /\ access.at = "asking" => Asks(access, Profile)
  /\ access.at \in {"resolved", "done"} => Selects(access, Profile)
  /\ access.opened # NONE => /\ access.at = "done"
                             /\ access.opened = access.selected
                             /\ access.allowed

LEMMA IdleRequest ==
  /\ IsRequest(NoAccess)
  /\ NoAccess.at = "idle" /\ NoAccess.options = {} /\ NoAccess.opened = NONE
BY DEF IsRequest, RequestFields, NoAccess

(* A resolution asks the resolver or is final.                             *)
LEMMA ResolveRequests ==
  ASSUME NEW a, NEW target, NEW free \in BOOLEAN,
         IsRequest(a), a.by \in Commands, a.options = {}, a.opened = NONE,
         access' = Resolve(a, target, free), UNCHANGED settingsVars
  PROVE  RequestInv'
<1> DEFINE p == ProfileOf(cmd[a.by].cfg)
           url == BuildUrl(p, target, a.doi, free)
           asks == UseResolver(p, a.doi, free)
<1> HIDE DEF p, url, asks
<1>1. access' = [a EXCEPT !.at = IF asks THEN "asking" ELSE "resolved",
                   !.free = free, !.target = target, !.selected = url,
                   !.asked = IF asks THEN url ELSE NONE]
  BY DEF Resolve, p, url, asks
<1>2. /\ IsRequest(access')
      /\ access'.at = IF asks THEN "asking" ELSE "resolved"
      /\ access'.free = free /\ access'.target = target /\ access'.selected = url
      /\ access'.by = a.by /\ access'.doi = a.doi
      /\ access'.options = {} /\ access'.opened = NONE
  BY <1>1 DEF IsRequest, RequestFields
<1>3. Profile' = p
  BY <1>2 DEF Profile, p, settingsVars
<1>4. Selects(access', p) /\ (asks <=> UseResolver(p, access'.doi, access'.free))
  BY <1>2 DEF Selects, url, asks
<1> QED BY <1>2, <1>3, <1>4 DEF RequestInv, Asks

(* What the resolver answers is among what may be selected.                *)
LEMMA HoldingsSelect ==
  ASSUME RequestInv, access.at = "asking", UNCHANGED settingsVars,
         NEW status, NEW options,
         \A o \in options : /\ o.auto_open \in BOOLEAN
                            /\ o.auto_open => o.url.host \in {Profile.resolver, Profile.gateway},
         ApplyHoldings(status, options)
  PROVE  RequestInv'
<1>0. IsRequest(access) /\ Asks(access, Profile) /\ access.opened = NONE /\ access.by \in Commands
  BY DEF RequestInv
<1>1. CASE options = {}
  <2>1. access' = [access EXCEPT !.at = "resolved", !.holdings = status,
                                 !.options = options]
    BY <1>1 DEF ApplyHoldings
  <2>2. /\ IsRequest(access') /\ access'.at = "resolved"
        /\ access'.by = access.by /\ access'.doi = access.doi /\ access'.free = access.free
        /\ access'.target = access.target /\ access'.selected = access.selected
        /\ access'.options = {} /\ access'.allowed = access.allowed
        /\ access'.opened = NONE
    BY <2>1, <1>0, <1>1 DEF IsRequest, RequestFields
  <2>3. Profile' = Profile
    BY <2>2 DEF Profile, settingsVars
  <2>4. Selects(access', Profile)
    BY <1>0, <2>2 DEF Selects, Asks, Offers, First
  <2> QED BY <1>0, <2>2, <2>3, <2>4 DEF RequestInv
<1>2. CASE options # {}
  <2>1. PICK o \in First(options) :
          access' = [access EXCEPT !.at = "resolved", !.holdings = status,
                      !.options = options, !.selected = o.url, !.allowed = o.auto_open]
    BY <1>2 DEF ApplyHoldings, ApplySelectedOption
  <2>2. /\ IsRequest(access') /\ access'.at = "resolved"
        /\ access'.by = access.by /\ access'.doi = access.doi /\ access'.free = access.free
        /\ access'.selected = o.url /\ access'.options = options
        /\ access'.allowed = o.auto_open /\ access'.opened = NONE
    BY <2>1, <1>0 DEF IsRequest, RequestFields
  <2>3. Profile' = Profile
    BY <2>2 DEF Profile, settingsVars
  <2>4. Offers(access', Profile)
    BY <1>0, <2>2 DEF Offers, Asks
  <2> QED BY <1>0, <2>2, <2>3, <2>4 DEF RequestInv, Selects
<1> QED BY <1>1, <1>2

LEMMA LookupSelects ==
  ASSUME RequestInv, access.at = "asking", UNCHANGED settingsVars, LookupFailed
  PROVE  RequestInv'
<1>0. IsRequest(access) /\ Asks(access, Profile) /\ access.opened = NONE /\ access.by \in Commands
  BY DEF RequestInv
<1>1. access' = [access EXCEPT !.at = "resolved", !.holdings = "error", !.allowed = FALSE]
  BY DEF LookupFailed
<1>2. /\ IsRequest(access') /\ access'.at = "resolved"
      /\ access'.by = access.by /\ access'.doi = access.doi /\ access'.free = access.free
      /\ access'.target = access.target /\ access'.selected = access.selected
      /\ access'.options = access.options /\ access'.opened = NONE
  BY <1>0, <1>1 DEF IsRequest, RequestFields
<1>3. Profile' = Profile
  BY <1>2 DEF Profile, settingsVars
<1>4. Selects(access', Profile)
  BY <1>0, <1>2 DEF Selects, Asks, Offers, First
<1> QED BY <1>0, <1>2, <1>3, <1>4 DEF RequestInv

LEMMA AccessOptionTrusted ==
  ASSUME NEW url, NEW own
  PROVE  /\ AccessOption(url, own).auto_open \in BOOLEAN
         /\ AccessOption(url, own).auto_open =>
              AccessOption(url, own).url.host \in {Profile.resolver, Profile.gateway}
BY DEF AccessOption, SameOrigin

(* A redirect or a PDF is the one holding.                                 *)
LEMMA OneHolding ==
  ASSUME RequestInv, access.at = "asking", UNCHANGED settingsVars, NEW url, NEW own,
         ApplyHoldings("available", {AccessOption(url, own)})
  PROVE  RequestInv'
<1> DEFINE options == {AccessOption(url, own)}
<1>1. \A o \in options :
        /\ o.auto_open \in BOOLEAN
        /\ o.auto_open => o.url.host \in {Profile.resolver, Profile.gateway}
  BY AccessOptionTrusted
<1> HIDE DEF options
<1>2. ApplyHoldings("available", options)
  BY DEF options
<1> QED BY <1>1, <1>2, HoldingsSelect

LEMMA FailKeeps ==
  ASSUME RequestInv, access.opened = NONE, access.at # "idle", Fail, UNCHANGED settingsVars
  PROVE  RequestInv'
<1>1. /\ IsRequest(access') /\ access'.at = "failed" /\ access'.opened = NONE
      /\ access'.by = access.by
  BY DEF Fail, RequestInv, IsRequest, RequestFields
<1> QED BY <1>1 DEF RequestInv

LEMMA RequestInvInit == Init => RequestInv
BY IdleRequest DEF Init, RequestInv

(* Only Ask changes a request that is under way.                           *)
LEMMA AskKeeps ==
  ASSUME RequestInv, Ask
  PROVE  RequestInv'
<1> USE DEF Ask
<1>0. UNCHANGED settingsVars /\ IsRequest(access) /\ (access.at = "idle" \/ access.by \in Commands)
  BY DEF RequestInv, WorkFound, WorkNotFound, Redirected, Unanswered, AnsweredPdf,
         AnsweredPage, OpenInBrowser, AnswerOnly
<1>1. CASE WorkFound
  <2>1. access.options = {} /\ access.opened = NONE /\ access.by \in Commands
    BY <1>1 DEF WorkFound, RequestInv
  <2> QED BY <1>0, <1>1, <2>1, ResolveRequests DEF WorkFound
<1>2. CASE WorkNotFound
  BY <1>0, <1>2, FailKeeps DEF WorkNotFound, RequestInv
<1>3. CASE Redirected
  <2>1. PICK url \in Links : Follow(url)
    BY <1>3 DEF Redirected
  <2>2. access.at = "asking"
    BY <1>3 DEF Redirected
  <2>3. CASE LookupFailed
    BY <1>0, <2>2, <2>3, LookupSelects
  <2>4. CASE access' = [access EXCEPT !.asked = url, !.hop = @ + 1]
    <3>1. /\ IsRequest(access') /\ access'.at = "asking" /\ access'.opened = access.opened
          /\ access'.by = access.by /\ access'.doi = access.doi /\ access'.free = access.free
          /\ access'.target = access.target /\ access'.selected = access.selected
          /\ access'.options = access.options
      BY <1>0, <2>2, <2>4 DEF IsRequest, RequestFields
    <3>2. Profile' = Profile
      BY <1>0, <3>1 DEF Profile, settingsVars
    <3>3. Asks(access', Profile)
      BY <2>2, <3>1 DEF RequestInv, Asks, Selects, Offers, First
    <3> QED BY <2>2, <3>1, <3>2, <3>3 DEF RequestInv
  <2>5. CASE ApplyHoldings("available", {AccessOption(url, FALSE)})
    BY <1>0, <2>2, <2>5, OneHolding
  <2>6. \/ LookupFailed
        \/ access' = [access EXCEPT !.asked = url, !.hop = @ + 1]
        \/ ApplyHoldings("available", {AccessOption(url, FALSE)})
    BY <2>1 DEF Follow
  <2> QED BY <2>3, <2>4, <2>5, <2>6
<1>4. CASE Unanswered
  BY <1>0, <1>4, LookupSelects DEF Unanswered
<1>5. CASE AnsweredPdf
  <2>1. access.at = "asking" /\ ApplyHoldings("available", {AccessOption(access.asked, TRUE)})
    BY <1>5 DEF AnsweredPdf
  <2> QED BY <1>0, <2>1, OneHolding
<1>6. CASE AnsweredPage
  <2>1. PICK links \in SUBSET Links :
          IF links = {} THEN \E s \in {"unavailable", "unparsed"} : ApplyHoldings(s, {})
          ELSE ApplyHoldings("available", Listed(links))
    BY <1>6 DEF AnsweredPage, FulltextLinks
  <2>2. access.at = "asking"
    BY <1>6 DEF AnsweredPage
  <2>3. CASE links = {}
    BY <1>0, <2>1, <2>2, <2>3, HoldingsSelect
  <2>4. CASE links # {}
    <3>1. \A o \in Listed(links) :
            /\ o.auto_open \in BOOLEAN
            /\ o.auto_open => o.url.host \in {Profile.resolver, Profile.gateway}
      BY AccessOptionTrusted DEF Listed
    <3>2. ApplyHoldings("available", Listed(links))
      BY <2>1, <2>4
    <3> QED BY <1>0, <2>2, <3>1, <3>2, HoldingsSelect
  <2> QED BY <2>3, <2>4
<1>7. CASE OpenInBrowser
  <2>0. access.at = "resolved" /\ access.opened = NONE
    BY <1>7 DEF OpenInBrowser, RequestInv
  <2>1. CASE access.allowed
    <3>1. access' = [access EXCEPT !.at = "done", !.opened = access.selected]
      BY <1>7, <2>1 DEF OpenInBrowser
    <3>2. /\ IsRequest(access') /\ access'.at = "done" /\ access'.opened = access.selected
          /\ access'.by = access.by /\ access'.doi = access.doi /\ access'.free = access.free
          /\ access'.target = access.target /\ access'.selected = access.selected
          /\ access'.options = access.options /\ access'.allowed = access.allowed
      BY <1>0, <3>1 DEF IsRequest, RequestFields
    <3>3. Profile' = Profile
      BY <1>0, <3>2 DEF Profile, settingsVars
    <3>4. Selects(access', Profile)
      BY <2>0, <3>2 DEF RequestInv, Selects, Offers
    <3> QED BY <1>0, <2>0, <2>1, <3>2, <3>3, <3>4 DEF RequestInv
  <2>2. CASE ~access.allowed
    BY <1>0, <1>7, <2>0, <2>2, FailKeeps DEF OpenInBrowser
  <2> QED BY <2>1, <2>2
<1>8. CASE AnswerOnly
  <2>1. access' = [access EXCEPT !.at = "done"] /\ access.at = "resolved" /\ access.opened = NONE
    BY <1>8 DEF AnswerOnly, RequestInv
  <2>2. /\ IsRequest(access') /\ access'.at = "done" /\ access'.opened = NONE
        /\ access'.by = access.by /\ access'.doi = access.doi /\ access'.free = access.free
        /\ access'.target = access.target /\ access'.selected = access.selected
        /\ access'.options = access.options /\ access'.allowed = access.allowed
    BY <1>0, <2>1 DEF IsRequest, RequestFields
  <2>3. Profile' = Profile
    BY <1>0, <2>2 DEF Profile, settingsVars
  <2>4. Selects(access', Profile)
    BY <2>1, <2>2 DEF RequestInv, Selects, Offers
  <2> QED BY <1>0, <2>1, <2>2, <2>3, <2>4 DEF RequestInv
<1> QED BY <1>1, <1>2, <1>3, <1>4, <1>5, <1>6, <1>7, <1>8 DEF Ask

LEMMA RequestInvNext == CommandInv /\ RequestInv /\ [Next]_accessVars => RequestInv'
<1> SUFFICES ASSUME CommandInv, RequestInv, [Next]_accessVars PROVE RequestInv'
  OBVIOUS
<1>1. CASE access.at = "idle" /\ UNCHANGED access
  BY <1>1 DEF RequestInv
<1>2. ASSUME NEW c \in Commands, AccessPage(c) PROVE RequestInv'
  <2> DEFINE a == [NoAccess EXCEPT !.by = c]
  <2>1. IsRequest(a) /\ a.by = c /\ a.options = {} /\ a.opened = NONE
    BY IdleRequest DEF IsRequest, RequestFields
  <2>2. access' = Resolve(a, Publisher, FALSE) /\ UNCHANGED settingsVars
    BY <1>2 DEF AccessPage
  <2> HIDE DEF a
  <2> QED BY <2>1, <2>2, ResolveRequests
<1>3. ASSUME NEW c \in Commands, AccessDoi(c) PROVE RequestInv'
  <2>1. /\ IsRequest(access') /\ access'.by = c /\ access'.at = "doi"
        /\ access'.options = {} /\ access'.opened = NONE
    BY <1>3, IdleRequest DEF AccessDoi, IsRequest, RequestFields
  <2> QED BY <2>1 DEF RequestInv
<1>4. ASSUME NEW c \in Commands, Other(c) PROVE RequestInv'
  <2>1. UNCHANGED access /\ access.by # c /\ cmd' = [cmd EXCEPT ![c] = Idle]
    BY <1>4 DEF Other, Stop, End
  <2>2. CASE access.at = "idle"
    BY <1>1, <2>1, <2>2
  <2>3. CASE access.at # "idle"
    <3>1. cmd'[access.by] = cmd[access.by]
      BY <2>1, <2>3 DEF RequestInv, CommandInv, Commanding
    <3>2. Profile' = Profile
      BY <2>1, <3>1 DEF Profile
    <3> QED BY <2>1, <3>2 DEF RequestInv
  <2> QED BY <2>2, <2>3
<1>5. CASE Leave
  BY <1>5, IdleRequest DEF Leave, RequestInv
<1>6. CASE UNCHANGED accessVars
  <2>1. UNCHANGED access /\ Profile' = Profile
    BY <1>6 DEF accessVars, Profile
  <2> QED BY <2>1 DEF RequestInv
<1> QED BY <1>1, <1>2, <1>3, <1>4, <1>5, <1>6, AskKeeps DEF Next

(* What the selection of a request may be, when it may be opened.          *)
LEMMA SelectedIsTrusted == RequestInv => OpensTrusted
<1> SUFFICES ASSUME RequestInv, access.opened # NONE PROVE OpensTrusted
  BY DEF OpensTrusted
<1> DEFINE p == Profile
<1>1. Selects(access, p) /\ access.opened = access.selected /\ access.allowed
  BY DEF RequestInv
<1> HIDE DEF p
<1>2. CASE access.options = {} /\ access.selected = BuildUrl(p, access.target, access.doi, access.free)
  BY <1>1, <1>2 DEF OpensTrusted, BuildUrl, BuildOpenUrl, BuildGatewayUrl,
       UseResolver, InstitutionEnabled, Url, p
<1>3. CASE Offers(access, p)
  <2>1. PICK o \in First(access.options) : access.selected = o.url /\ access.allowed = o.auto_open
    BY <1>3 DEF Offers
  <2>2. o \in access.options /\ \A q \in access.options : ~RankedBefore(q, o)
    BY <2>1 DEF First
  <2>3. o.auto_open = TRUE /\ o.url = access.opened
    BY <1>1, <1>3, <2>1, <2>2 DEF Offers
  <2>4. access.opened.host \in {p.resolver, p.gateway}
    BY <1>3, <2>2, <2>3 DEF Offers
  <2>5. ASSUME NEW q \in access.options, q.auto_open, Aggregator(o) PROVE Aggregator(q)
    <3>1. q.auto_open = TRUE
      BY <1>3, <2>5 DEF Offers
    <3> QED BY <2>2, <2>3, <2>5, <3>1 DEF RankedBefore
  <2>6. p.mode # "off" /\ (~access.free \/ p.mode = "prefer")
    BY <1>3 DEF Offers, UseResolver, InstitutionEnabled
  <2> QED BY <2>2, <2>3, <2>4, <2>5, <2>6 DEF OpensTrusted, p
<1> QED BY <1>1, <1>2, <1>3 DEF Selects

(* Whatever a resolver redirects to or offers, the address that opens is   *)
(* the one asked for or one that the user's own resolver or gateway serves.*)
THEOREM OnlyTrustedOpens == Spec => []OpensTrusted
<1>1. CommandInv /\ RequestInv /\ [Next]_accessVars => (CommandInv /\ RequestInv)'
  BY CommandInvNext, RequestInvNext
<1> QED BY <1>1, CommandInvInit, RequestInvInit, SelectedIsTrusted, PTL DEF Spec

-----------------------------------------------------------------------------
(* What is set stays set. Configurations and files are functions to texts. *)

Config == [Fields -> Texts]

FileContents == UNION {[S -> Texts] : S \in SUBSET (Fields \cup {"api_base"})}

LEMMA ContentsAreFiles == Files \subseteq FileContents /\ NONE \notin FileContents
<1>1. \A content : IsContent(content) <=> content \in FileContents
  BY DEF IsContent, FileContents
<1> QED BY <1>1, TextsAssumption

LEMMA DefaultOptional == \A f \in Optional : DefaultConfig[f] = "unset"
BY DEF DefaultConfig, Optional, Fields

LEMMA DefaultIsConfig == DefaultConfig \in Config
<1>1. ASSUME NEW f \in Fields PROVE DefaultConfig[f] \in Texts
  <2>1. CASE f \in Optional
    BY <2>1, TextsAssumption DEF DefaultConfig
  <2>2. CASE f \in {"cloud_api_base", "library_type", "timeout_secs"}
    BY <2>2, TextsAssumption DEF DefaultConfig, Optional
  <2>5. CASE f \in {"backend_mode", "local_api_base"}
    BY <2>5, TextsAssumption DEF DefaultConfig, Optional
  <2>3. CASE f = "paperseed_enabled"
    <3>1. DefaultConfig[f] = "false"
      BY <2>3 DEF DefaultConfig, Optional
    <3> QED BY <3>1, TextsAssumption
  <2>4. CASE f = "institution_access_mode"
    <3>1. DefaultConfig[f] = "off"
      BY <2>4 DEF DefaultConfig, Optional
    <3> QED BY <3>1, TextsAssumption
  <2> QED BY <2>1, <2>2, <2>3, <2>4, <2>5 DEF Fields, Optional
<1>2. (\A f \in Fields : DefaultConfig[f] \in Texts) => DefaultConfig \in [Fields -> Texts]
  BY Zenon DEF DefaultConfig
<1> QED BY <1>1, <1>2 DEF Config

LEMMA LoadedIsConfig ==
  ASSUME NEW content \in FileContents \cup {NONE}
  PROVE  LoadFileOrDefault(content) \in Config
<1>1. CASE content = NONE
  BY <1>1, DefaultIsConfig DEF LoadFileOrDefault
<1>2. CASE content # NONE
  <2>1. PICK S \in SUBSET (Fields \cup {"api_base"}) : content \in [S -> Texts]
    BY <1>2 DEF FileContents
  <2>2. ASSUME NEW f \in Fields PROVE Applied(content)[f] \in Texts
    <3>1. DefaultConfig[f] \in Texts
      BY DefaultIsConfig DEF Config
    <3> QED BY <2>1, <3>1 DEF Applied
  <2>3. Applied(content) = [f \in Fields |-> Applied(content)[f]]
    BY DEF Applied
  <2> QED BY <1>2, <2>2, <2>3 DEF LoadFileOrDefault, Config
<1> QED BY <1>1, <1>2

(* Reading what was written gives the configuration back: an optional      *)
(* field that is left out is read as unset, which is its default.          *)
LEMMA RoundTrip ==
  ASSUME NEW cfg \in Config
  PROVE  /\ Serialized(cfg) \in FileContents
         /\ \A f \in Fields : LoadFileOrDefault(Serialized(cfg))[f] = cfg[f]
<1> DEFINE S == {g \in Fields : g \notin Optional \/ cfg[g] # "unset"}
           written == Serialized(cfg)
<1>1. written = [f \in S |-> cfg[f]]
  BY DEF Serialized
<1>2. S \subseteq Fields /\ \A f \in S : cfg[f] \in Texts
  BY DEF Config
<1> HIDE DEF S, written
<1>3. written \in [S -> Texts]
  BY <1>1, <1>2
<1>4. written \in FileContents
  BY <1>2, <1>3 DEF FileContents
<1>5. written # NONE
  BY <1>4, ContentsAreFiles
<1>6. ASSUME NEW f \in Fields PROVE LoadFileOrDefault(written)[f] = cfg[f]
  <2>1. LoadFileOrDefault(written)[f] = Applied(written)[f] /\ DOMAIN written = S
    BY <1>1, <1>5 DEF LoadFileOrDefault
  <2>2. CASE f \in S
    BY <1>1, <2>1, <2>2 DEF Applied
  <2>3. CASE f \notin S
    <3>1. f \in Optional /\ cfg[f] = "unset" /\ f # "cloud_api_base"
      BY <2>3 DEF S, Optional
    <3>2. Applied(written)[f] = DefaultConfig[f]
      BY <2>1, <2>3, <3>1 DEF Applied
    <3>3. DefaultConfig[f] = "unset"
      BY <3>1, DefaultOptional
    <3> QED BY <2>1, <3>1, <3>2, <3>3
  <2> QED BY <2>2, <2>3
<1> QED BY <1>4, <1>6 DEF written

LEMMA SetValueIsText ==
  ASSUME NEW f \in Fields, NEW text \in Texts
  PROVE  SetValue(f, text) \in Texts
<1> USE TextsAssumption DEF SetValue
<1>1. CASE f \in {"cloud_api_base", "local_api_base", "api_key", "hf_token"}
  BY <1>1
<1>6. CASE f = "backend_mode"
  BY <1>6
<1>2. CASE f \in {"user_id", "group_id"}
  <2>1. SetValue(f, text) = IF Unset(text) THEN "unset"
                            ELSE IF Number(text) THEN text ELSE "error"
    BY <1>2
  <2> QED BY <2>1
<1>3. CASE f \in {"timeout_secs", "library_type", "paperseed_enabled"}
  BY <1>3
<1>4. CASE f \in {"institution_access_mode", "institution_access_url"}
  BY <1>4
<1>5. CASE f \in {"institution_resolver_url", "institution_gateway_url"}
  BY <1>5
<1> QED BY <1>1, <1>2, <1>3, <1>4, <1>5, <1>6 DEF Fields

LEMMA SetIsConfig ==
  ASSUME NEW cfg \in Config, NEW f \in Fields, NEW text \in Texts
  PROVE  /\ [cfg EXCEPT ![f] = text] \in Config
         /\ [cfg EXCEPT ![f] = text][f] = text
         /\ \A g \in Fields : g # f => [cfg EXCEPT ![f] = text][g] = cfg[g]
<1>1. cfg = [g \in Fields |-> cfg[g]] /\ \A g \in Fields : cfg[g] \in Texts
  BY DEF Config
<1>2. [cfg EXCEPT ![f] = text] = [g \in Fields |-> IF g = f THEN text ELSE cfg[g]]
  BY <1>1
<1> QED BY <1>1, <1>2 DEF Config

(* The questions about an institution keep a configuration one, and touch  *)
(* the fields of the institution alone.                                    *)
LEMMA EndpointIsText ==
  ASSUME NEW answer \in Texts, NEW current \in Texts, NEW fits
  PROVE  Endpoint(answer, current, fits) \in Texts
BY TextsAssumption DEF Endpoint

LEMMA PromptIsConfig ==
  ASSUME NEW cfg \in Config, NEW a, a.resolver \in Texts, a.gateway \in Texts
  PROVE  /\ PromptInstitutionAccess(cfg, a) \in Config
         /\ \A f \in Fields \ InstitutionFields :
              PromptInstitutionAccess(cfg, a)[f] = cfg[f]
<1> DEFINE r == Endpoint(a.resolver, Offered(cfg).resolver, Resolvers)
           g == Endpoint(a.gateway, Offered(cfg).gateway, Gateways)
           m == ModeFor(cfg, r, g)
<1>1. \A f \in Fields : cfg[f] \in Texts
  BY DEF Config
<1>2. InstitutionFields \subseteq Fields
  BY DEF InstitutionFields, Fields
<1>3. Offered(cfg).resolver \in Texts /\ Offered(cfg).gateway \in Texts
  BY <1>1, <1>2 DEF Offered, ProfileOf, InstitutionFields
<1>4. r \in Texts /\ g \in Texts
  BY <1>3, EndpointIsText
<1>5. m \in Texts
  BY <1>1, <1>2, TextsAssumption DEF ModeFor, InstitutionFields
<1>6. PromptInstitutionAccess(cfg, a)
        = [cfg EXCEPT !["institution_access_url"] = "unset",
                      !["institution_resolver_url"] = r,
                      !["institution_gateway_url"] = g,
                      !["institution_access_mode"] = m]
  BY DEF PromptInstitutionAccess
<1> HIDE DEF r, g, m
<1>7. [cfg EXCEPT !["institution_access_url"] = "unset",
                  !["institution_resolver_url"] = r,
                  !["institution_gateway_url"] = g,
                  !["institution_access_mode"] = m]
        = [f \in Fields |-> CASE f = "institution_access_mode" -> m
                              [] f = "institution_gateway_url" -> g
                              [] f = "institution_resolver_url" -> r
                              [] f = "institution_access_url" -> "unset"
                              [] OTHER -> cfg[f]]
  BY <1>2 DEF Config, InstitutionFields
<1>8. \A f \in Fields \ InstitutionFields : PromptInstitutionAccess(cfg, a)[f] = cfg[f]
  BY <1>6, <1>7 DEF InstitutionFields
<1>9. PromptInstitutionAccess(cfg, a) \in Config
  BY <1>1, <1>4, <1>5, <1>6, <1>7, TextsAssumption DEF Config
<1> QED BY <1>8, <1>9

LEMMA SetupIsConfig ==
  ASSUME NEW cfg \in Config, NEW content, NEW a \in SetupAnswers
  PROVE  /\ RunDoctorSetup(cfg, content, a) \in Config
         /\ \A f \in Fields :
              \/ AsksAccess(content) /\ f \in InstitutionFields
              \/ AsksPaperseed(content) /\ f = "paperseed_enabled"
              \/ RunDoctorSetup(cfg, content, a)[f] = cfg[f]
<1> DEFINE c == IF AsksAccess(content) THEN PromptInstitutionAccess(cfg, a) ELSE cfg
<1>1. a.resolver \in Texts /\ a.gateway \in Texts /\ a.paperseed \in Texts
  BY TextsAssumption
<1>2. /\ c \in Config
      /\ \A f \in Fields : (AsksAccess(content) /\ f \in InstitutionFields) \/ c[f] = cfg[f]
  BY <1>1, PromptIsConfig
<1> DEFINE v == SetValue("paperseed_enabled", a.paperseed)
           d == [c EXCEPT !["paperseed_enabled"] = v]
<1>3. "paperseed_enabled" \in Fields
  BY DEF Fields
<1> HIDE DEF c
<1>4. d \in Config /\ \A f \in Fields : f # "paperseed_enabled" => d[f] = c[f]
  BY <1>1, <1>2, <1>3, SetValueIsText, SetIsConfig
<1>5. RunDoctorSetup(cfg, content, a)
        = IF AsksPaperseed(content) /\ a.paperseed # "" THEN d ELSE c
  BY DEF RunDoctorSetup, c
<1> HIDE DEF d
<1> QED BY <1>2, <1>4, <1>5

LEMMA OrKeptIsText ==
  ASSUME NEW f \in Fields, NEW cfg \in Config, NEW text \in Texts
  PROVE  Prompted(f, cfg, text) \in Texts /\ OrKept(f, cfg, text) \in Texts
<1>1. Prompted(f, cfg, text) \in Texts
  BY DEF Prompted, Config
<1> QED BY <1>1, SetValueIsText DEF OrKept

(* The library that the answers name, field by field.                      *)
LibraryFields ==
  {"backend_mode", "cloud_api_base", "local_api_base", "api_key", "library_type",
   "user_id", "group_id"}

LEMMA LocalFields ==
  ASSUME NEW cfg \in Config, NEW a \in InitAnswers, NEW c \in LocalLibrary(cfg, a)
  PROVE  /\ c \in Config
         /\ c["backend_mode"] = "local" /\ c["api_key"] = "unset"
         /\ c["library_type"] = "user" /\ c["user_id"] = "0" /\ c["group_id"] = "unset"
         /\ c["local_api_base"] = Prompted("local_api_base", cfg, a.local)
         /\ c["cloud_api_base"] = cfg["cloud_api_base"]
         /\ \A f \in Fields \ LibraryFields : c[f] = cfg[f]
<1> DEFINE l == Prompted("local_api_base", cfg, a.local)
<1>1. LibraryFields \subseteq Fields
  BY DEF LibraryFields, Fields
<1>2. l \in Texts
  BY <1>1, OrKeptIsText, TextsAssumption DEF LibraryFields
<1>3. c = [cfg EXCEPT !["backend_mode"] = "local", !["local_api_base"] = l,
                      !["api_key"] = "unset", !["library_type"] = "user",
                      !["user_id"] = "0", !["group_id"] = "unset"]
  BY DEF LocalLibrary
<1> HIDE DEF l
<1>4. c = [f \in Fields |-> CASE f = "backend_mode" -> "local"
                               [] f = "local_api_base" -> l
                               [] f = "api_key" -> "unset"
                               [] f = "library_type" -> "user"
                               [] f = "user_id" -> "0"
                               [] f = "group_id" -> "unset"
                               [] OTHER -> cfg[f]]
  BY <1>1, <1>3 DEF Config, LibraryFields
<1>5. \A f \in Fields : cfg[f] \in Texts
  BY DEF Config
<1>6. \A f \in Fields : c[f] \in Texts
  BY <1>2, <1>4, <1>5, TextsAssumption
<1>7. c \in Config
  BY <1>4, <1>6 DEF Config
<1> QED BY <1>1, <1>4, <1>7 DEF LibraryFields, l

(* What the answers make of the API of a cloud or hybrid library.          *)
IsApi(api, cfg, a, source) ==
  /\ api \in Config
  /\ api["backend_mode"] = source
  /\ api["cloud_api_base"] = Prompted("cloud_api_base", cfg, a.base)
  /\ api["local_api_base"] = Prompted("local_api_base", cfg,
                                      IF source = "hybrid" THEN a.local ELSE "")
  /\ api["api_key"] = IF a.key = "" THEN cfg["api_key"] ELSE SetValue("api_key", a.key)
  /\ api["library_type"] = OrKept("library_type", cfg, a.library)
  /\ \A f \in Fields \ LibraryFields : api[f] = cfg[f]

LEMMA ApiFields ==
  ASSUME NEW cfg \in Config, NEW a \in InitAnswers, NEW source \in Texts
  PROVE  IsApi(CloudApi(cfg, a, source), cfg, a, source)
<1>0. PICK c : c = CloudApi(cfg, a, source)
  OBVIOUS
<1> DEFINE b == Prompted("cloud_api_base", cfg, a.base)
           l == Prompted("local_api_base", cfg, IF source = "hybrid" THEN a.local ELSE "")
           k == IF a.key = "" THEN cfg["api_key"] ELSE SetValue("api_key", a.key)
           t == OrKept("library_type", cfg, a.library)
<1>1. /\ "backend_mode" \in Fields /\ "cloud_api_base" \in Fields
      /\ "local_api_base" \in Fields /\ "api_key" \in Fields /\ "library_type" \in Fields
  BY DEF Fields
<1>2. /\ a.base \in Texts /\ a.local \in Texts /\ a.key \in Texts /\ a.library \in Texts
      /\ \A f \in Fields : cfg[f] \in Texts
  BY TextsAssumption DEF Config
<1>3. b \in Texts /\ t \in Texts
  BY <1>1, <1>2, OrKeptIsText
<1>4. l \in Texts
  BY <1>1, <1>2 DEF Prompted
<1>5. k \in Texts
  BY <1>1, <1>2, SetValueIsText
<1>6. c = [cfg EXCEPT !["backend_mode"] = source, !["cloud_api_base"] = b,
                      !["local_api_base"] = l, !["api_key"] = k, !["library_type"] = t]
  BY <1>0 DEF CloudApi
<1> HIDE DEF b, l, k, t
<1>7. c = [f \in Fields |-> CASE f = "backend_mode" -> source
                               [] f = "cloud_api_base" -> b
                               [] f = "local_api_base" -> l
                               [] f = "api_key" -> k
                               [] f = "library_type" -> t
                               [] OTHER -> cfg[f]]
  BY <1>1, <1>6 DEF Config
<1>8. \A f \in Fields : c[f] \in Texts
  BY <1>2, <1>3, <1>4, <1>5, <1>7
<1>9. c \in Config
  BY <1>7, <1>8 DEF Config
<1>10. IsApi(c, cfg, a, source)
  BY <1>1, <1>7, <1>9 DEF IsApi, LibraryFields, b, l, k, t
<1> QED BY <1>0, <1>10

(* Whose library it is, a user's or a group's.                             *)
LEMMA TwoFields ==
  ASSUME NEW api \in Config, NEW x \in Texts, NEW y \in Texts, NEW c,
         c = [f \in Fields |-> CASE f = "user_id" -> x [] f = "group_id" -> y
                                 [] OTHER -> api[f]]
  PROVE  /\ c \in Config /\ c["user_id"] = x /\ c["group_id"] = y
         /\ \A f \in Fields \ {"user_id", "group_id"} : c[f] = api[f]
<1>1. "user_id" \in Fields /\ "group_id" \in Fields
  BY DEF Fields
<1>2. \A f \in Fields : c[f] \in Texts
  BY DEF Config
<1>3. c \in Config
  BY <1>2 DEF Config
<1> QED BY <1>1, <1>3

LEMMA CloudFields ==
  ASSUME NEW cfg \in Config, NEW a \in InitAnswers, NEW source \in Texts,
         NEW c \in CloudLibrary(cfg, a, source), NEW api, api = CloudApi(cfg, a, source)
  PROVE  /\ c \in Config
         /\ \A f \in Fields \ {"user_id", "group_id"} : c[f] = api[f]
         /\ IF c["library_type"] = "group"
            THEN /\ c["group_id"] = OrKept("group_id", cfg, a.login)
                 /\ c["user_id"] = "unset"
            ELSE c["user_id"] \in LoginIds(cfg, a.login) /\ c["group_id"] = "unset"
<1>1. "user_id" \in Fields /\ "group_id" \in Fields /\ "library_type" \in Fields
  BY DEF Fields
<1>2. api \in Config
  BY ApiFields DEF IsApi
<1>3. a.login \in Texts /\ "unset" \in Texts
  BY TextsAssumption
<1>4. OrKept("group_id", cfg, a.login) \in Texts /\ Prompted("user_id", cfg, a.login) \in Texts
  BY <1>1, <1>3, OrKeptIsText
<1>5. LoginIds(cfg, a.login) \subseteq Texts
  BY <1>4, TextsAssumption DEF LoginIds
<1>7. CASE api["library_type"] = "group"
  <2>0. PICK y \in Texts : y = OrKept("group_id", cfg, a.login)
    BY <1>4
  <2>1. c = [api EXCEPT !["group_id"] = y, !["user_id"] = "unset"]
    BY <1>7, <2>0 DEF CloudLibrary
  <2>2. c = [f \in Fields |-> CASE f = "user_id" -> "unset" [] f = "group_id" -> y
                                [] OTHER -> api[f]]
    BY <1>1, <1>2, <2>1 DEF Config
  <2>3. /\ c \in Config /\ c["user_id"] = "unset" /\ c["group_id"] = y
        /\ \A f \in Fields \ {"user_id", "group_id"} : c[f] = api[f]
    BY <1>2, <1>3, <2>2, TwoFields
  <2> QED BY <1>1, <1>7, <2>0, <2>3
<1>8. CASE api["library_type"] # "group"
  <2>1. PICK x \in LoginIds(cfg, a.login) :
          c = [api EXCEPT !["user_id"] = x, !["group_id"] = "unset"]
    BY <1>8 DEF CloudLibrary
  <2>2. c = [f \in Fields |-> CASE f = "user_id" -> x [] f = "group_id" -> "unset"
                                [] OTHER -> api[f]]
    BY <1>1, <1>2, <2>1 DEF Config
  <2>4. x \in Texts
    BY <1>5
  <2>3. /\ c \in Config /\ c["user_id"] = x /\ c["group_id"] = "unset"
        /\ \A f \in Fields \ {"user_id", "group_id"} : c[f] = api[f]
    BY <1>2, <1>3, <2>2, <2>4, TwoFields
  <2> QED BY <1>1, <1>8, <2>1, <2>3
<1> QED BY <1>7, <1>8

(* The library, the timeout and the institution.                           *)
LEMMA InteractiveFields ==
  ASSUME NEW cfg \in Config, NEW a \in InitAnswers, NEW d \in Interactive(cfg, a)
  PROVE  LET source == OrKept("backend_mode", cfg, a.source) IN
         \E c \in Config :
           /\ IF source = "local" THEN c \in LocalLibrary(cfg, a)
              ELSE c \in CloudLibrary(cfg, a, source)
           /\ \A f \in Fields \ (InstitutionFields \cup {"timeout_secs"}) : d[f] = c[f]
           /\ d["timeout_secs"] = OrKept("timeout_secs", cfg, a.timeout)
           /\ \E e \in Config : /\ d = PromptInstitutionAccess(e, a)
                               /\ \A f \in InstitutionFields : e[f] = cfg[f]
           /\ d \in Config /\ source \in Texts
<1> DEFINE source == OrKept("backend_mode", cfg, a.source)
           t == OrKept("timeout_secs", cfg, a.timeout)
<1>1. /\ "timeout_secs" \in Fields /\ "backend_mode" \in Fields
      /\ InstitutionFields \subseteq Fields /\ "timeout_secs" \notin InstitutionFields
      /\ InstitutionFields \cap LibraryFields = {}
      /\ InstitutionFields \cap {"user_id", "group_id"} = {}
  BY DEF Fields, InstitutionFields, LibraryFields
<1>2. a.source \in Texts /\ a.timeout \in Texts /\ a.resolver \in Texts /\ a.gateway \in Texts
  BY TextsAssumption
<1>3. source \in Texts /\ t \in Texts
  BY <1>1, <1>2, OrKeptIsText
<1>4. PICK c : /\ IF source = "local" THEN c \in LocalLibrary(cfg, a)
                  ELSE c \in CloudLibrary(cfg, a, source)
               /\ d = PromptInstitutionAccess([c EXCEPT !["timeout_secs"] = t], a)
  BY DEF Interactive
<1> HIDE DEF source, t
<1>5. c \in Config
  BY <1>3, <1>4, LocalFields, CloudFields
<1>6. \A f \in InstitutionFields : c[f] = cfg[f]
  <2>1. CASE source = "local"
    BY <1>1, <1>4, <2>1, LocalFields
  <2>2. CASE source # "local"
    <3>0. PICK api : api = CloudApi(cfg, a, source)
      OBVIOUS
    <3>1. \A f \in InstitutionFields : c[f] = api[f]
      BY <1>1, <1>3, <1>4, <2>2, <3>0, CloudFields
    <3>2. IsApi(api, cfg, a, source)
      BY <1>3, <3>0, ApiFields
    <3> QED BY <1>1, <3>1, <3>2 DEF IsApi
  <2> QED BY <2>1, <2>2
<1> DEFINE e == [c EXCEPT !["timeout_secs"] = t]
<1>7. /\ e \in Config /\ e["timeout_secs"] = t
      /\ \A f \in Fields : f # "timeout_secs" => e[f] = c[f]
  BY <1>1, <1>3, <1>5, SetIsConfig
<1>8. d = PromptInstitutionAccess(e, a)
  BY <1>4
<1> HIDE DEF e
<1>9. d \in Config /\ \A f \in Fields \ InstitutionFields : d[f] = e[f]
  BY <1>2, <1>7, <1>8, PromptIsConfig
<1>10. \A f \in InstitutionFields : e[f] = cfg[f]
  BY <1>1, <1>6, <1>7
<1>11. d["timeout_secs"] = t
  BY <1>1, <1>7, <1>9
<1>12. \A f \in Fields \ (InstitutionFields \cup {"timeout_secs"}) : d[f] = c[f]
  BY <1>7, <1>9
<1> QED BY <1>3, <1>4, <1>5, <1>8, <1>7, <1>9, <1>10, <1>11, <1>12 DEF source, t

LEMMA InteractiveIsConfig ==
  ASSUME NEW cfg \in Config, NEW a \in InitAnswers, NEW d \in Interactive(cfg, a)
  PROVE  d \in Config
BY InteractiveFields

-----------------------------------------------------------------------------
(* While commands take turns, the file holds what was set, and so does the *)
(* configuration that a command is about to write.                         *)

Fitting(x) ==
  /\ x.at = "load" /\ x.kind = "set" => x.word \in Words
  /\ x.at \in {"ask", "write", "writing"} => x.cfg \in Config

(* Of the id of a user who was looked up nothing is said.                  *)
Agreeing(cfg, s) == \A f \in Fields : cfg[f] = s[f] \/ (f = "user_id" /\ s[f] = NONE)

Saved == Agreeing(LoadFileOrDefault(file), said)

Keeps(x) == Agreeing(x.cfg, Expected(x))

Promised(c) ==
  /\ cmd[c].at \in {"write", "writing"} => Keeps(cmd[c])
  /\ cmd[c].at = "ask" => Agreeing(cmd[c].cfg, said)

TurnsInv ==
  calm => /\ \A c, d \in Active : c = d
          /\ \A c \in Commands : Promised(c)
          /\ (\A c \in Commands : cmd[c].at # "writing") => Saved

SettingsInv ==
  /\ file \in FileContents \cup {NONE}
  /\ \A c \in Commands : Fitting(cmd[c])
  /\ TurnsInv

LEMMA IdleFits == Fitting(Idle) /\ Idle.at = "idle"
BY DEF Fitting, Idle

(* A step of one command.                                                  *)
LEMMA ChangeFile ==
  ASSUME CommandInv, SettingsInv, NEW c \in Commands, NEW next,
         cmd' = [cmd EXCEPT ![c] = next], Fitting(next),
         file' \in FileContents \cup {NONE},
         calm' => /\ Active \subseteq {c} /\ Promised(c)'
                  /\ next.at = "writing" \/ Saved'
  PROVE  SettingsInv'
<1>1. \A d \in Commands : cmd'[d] = IF d = c THEN next ELSE cmd[d]
  BY DEF CommandInv, Commanding
<1>2. \A d \in Commands : Fitting(cmd'[d])
  BY <1>1 DEF SettingsInv
<1>3. ASSUME calm' PROVE /\ \A d, e \in Active' : d = e
                         /\ \A d \in Commands : Promised(d)'
                         /\ (\A d \in Commands : cmd'[d].at # "writing") => Saved'
  <2>1. \A d \in Commands : d # c => cmd'[d].at = "idle"
    BY <1>1, <1>3 DEF Active
  <2>2. Active' \subseteq {c}
    BY <2>1 DEF Active
  <2>3. \A d \in Commands : Promised(d)'
    BY <1>3, <2>1 DEF Promised, Goes
  <2> QED BY <1>1, <1>3, <2>2, <2>3
<1> QED BY <1>2, <1>3 DEF SettingsInv, TurnsInv

(* A step of one command that leaves the file alone.                       *)
LEMMA ChangeSettings ==
  ASSUME CommandInv, SettingsInv, NEW c \in Commands, NEW next,
         cmd' = [cmd EXCEPT ![c] = next], Fitting(next), UNCHANGED <<file, said>>,
         calm' => /\ calm /\ Active \subseteq {c} /\ Promised(c)'
                  /\ cmd[c].at # "writing"
  PROVE  SettingsInv'
<1>1. file' \in FileContents \cup {NONE}
  BY DEF SettingsInv
<1>2. ASSUME calm' PROVE Saved'
  <2>1. \A d \in Commands : cmd[d].at # "writing"
    BY <1>2 DEF Active
  <2> QED BY <1>2, <2>1 DEF SettingsInv, TurnsInv, Saved
<1> QED BY <1>1, <1>2, ChangeFile

(* The command under way is the only one.                                  *)
LEMMA OnlyOne ==
  ASSUME SettingsInv, calm, NEW c \in Commands, cmd[c].at # "idle"
  PROVE  /\ Active \subseteq {c} /\ Promised(c)
         /\ cmd[c].at # "writing" => Saved
<1>1. c \in Active
  BY DEF Active
<1>2. Active \subseteq {c}
  BY <1>1 DEF SettingsInv, TurnsInv
<1>3. cmd[c].at # "writing" => \A d \in Commands : cmd[d].at # "writing"
  BY <1>2 DEF Active
<1> QED BY <1>2, <1>3 DEF SettingsInv, TurnsInv

LEMMA StartSettings ==
  ASSUME CommandInv, SettingsInv, NEW c \in Commands, NEW next, Start(c, next),
         Fitting(next), UNCHANGED <<file, said>>, calm' => Promised(c)'
  PROVE  SettingsInv'
<1>1. /\ cmd' = [cmd EXCEPT ![c] = next] /\ cmd[c].at = "idle"
      /\ calm' => calm /\ Active \subseteq {c}
  BY DEF Start
<1> QED BY <1>1, ChangeSettings

LEMMA EndSettings ==
  ASSUME CommandInv, SettingsInv, NEW c \in Commands, End(c), UNCHANGED <<file, said>>,
         calm' => calm /\ cmd[c].at \notin {"idle", "writing"}
  PROVE  SettingsInv'
<1>1. cmd' = [cmd EXCEPT ![c] = Idle] /\ cmd'[c] = Idle
  BY DEF End, CommandInv, Commanding
<1>2. Promised(c)'
  BY <1>1, IdleFits DEF Promised, Goes
<1> QED BY <1>1, <1>2, IdleFits, OnlyOne, ChangeSettings

(* What is expected depends on the command and on what was expected.       *)
LEMMA ExpectsTheSame ==
  ASSUME NEW x, UNCHANGED said
  PROVE  Expected(x)' = Expected(x)
<1>1. ASSUME NEW b PROVE ExpectedAccess(b)' = ExpectedAccess(b)
  <2> QED BY DEF ExpectedAccess, ExpectedAddress
<1>2. ASSUME NEW b PROVE ExpectedAnswers(b)' = ExpectedAnswers(b)
  <2>1. \A f, text : Answered(f, text)' = Answered(f, text)
    BY DEF Answered
  <2>2. ExpectedUser(b)' = ExpectedUser(b)
    BY DEF ExpectedUser
  <2> QED BY <1>1, <2>1, <2>2 DEF ExpectedAnswers
<1>3. ASSUME NEW raw, NEW b PROVE ExpectedSetup(raw, b)' = ExpectedSetup(raw, b)
  <2>1. \A f, text : Answered(f, text)' = Answered(f, text)
    BY DEF Answered
  <2> QED BY <1>1, <2>1 DEF ExpectedSetup
<1> QED BY <1>2, <1>3 DEF Expected

(* The changed configuration keeps what the user expects of it.            *)
LEMMA WriteSettings ==
  ASSUME CommandInv, SettingsInv, NEW c \in Commands, NEW cfg \in Config, NEW a,
         WriteOrEnd(c, cfg, a), cmd[c].at \notin {"idle", "writing"},
         UNCHANGED <<file, said, calm>>,
         calm /\ "error" \notin {cfg[f] : f \in Fields} =>
           Keeps([cmd[c] EXCEPT !.at = "write", !.cfg = cfg, !.answers = a])
  PROVE  SettingsInv'
<1>0. PICK next : next = [cmd[c] EXCEPT !.at = "write", !.cfg = cfg, !.answers = a]
  OBVIOUS
<1>1. CASE End(c)
  BY <1>1, EndSettings
<1>2. CASE /\ "error" \notin {cfg[f] : f \in Fields}
           /\ cmd' = [cmd EXCEPT ![c].at = "write", ![c].cfg = cfg, ![c].answers = a]
  <2>1. cmd' = [cmd EXCEPT ![c] = next] /\ cmd'[c] = next
    BY <1>0, <1>2 DEF CommandInv, Commanding
  <2>2. next.at = "write" /\ next.cfg = cfg
    BY <1>0 DEF CommandInv, Commanding, IsCommand, CommandFields
  <2>3. calm => Keeps(next)
    BY <1>0, <1>2
  <2>4. Fitting(next)
    BY <2>2 DEF Fitting
  <2>5. calm => Keeps(cmd[c])'
    <3>1. Expected(next)' = Expected(next)
      BY ExpectsTheSame
    <3> QED BY <2>1, <2>3, <3>1 DEF Keeps, Agreeing
  <2>6. calm => Promised(c)'
    BY <2>1, <2>2, <2>5 DEF Promised, Goes
  <2> QED BY <2>1, <2>2, <2>4, <2>6, OnlyOne, ChangeSettings
<1> QED BY <1>1, <1>2 DEF WriteOrEnd

(* A text that is accepted is what it says, and a blank one unsets.        *)
LEMMA ValueIsMeant ==
  ASSUME NEW f \in Fields, NEW text, SetValue(f, text) # "error"
  PROVE  SetValue(f, text) = Meant(text)
<1> USE DEF SetValue, Meant
<1>1. CASE f \in {"backend_mode", "library_type", "paperseed_enabled", "timeout_secs"}
  BY <1>1 DEF Unset, Number
<1>2. CASE f \in {"cloud_api_base", "local_api_base", "api_key", "hf_token"}
  BY <1>2 DEF Unset
<1>3. CASE f \in {"user_id", "group_id"}
  <2>1. SetValue(f, text) = IF Unset(text) THEN "unset"
                            ELSE IF Number(text) THEN text ELSE "error"
    BY <1>3
  <2> QED BY <2>1
<1>4. CASE f \in {"institution_access_mode", "institution_access_url"}
  BY <1>4 DEF Unset
<1>5. CASE f \in {"institution_resolver_url", "institution_gateway_url"}
  BY <1>5
<1> QED BY <1>1, <1>2, <1>3, <1>4, <1>5 DEF Fields

LEMMA NoErrors ==
  ASSUME NEW cfg, "error" \notin {cfg[f] : f \in Fields}
  PROVE  \A f \in Fields : cfg[f] # "error"
OBVIOUS

(* What the file says goes into what is set.                               *)
LEMMA SetKeeps ==
  ASSUME NEW x, x.kind = "set", NEW base \in Config,
         x.word.field \in Fields,
         x.cfg = [base EXCEPT ![x.word.field] = SetValue(x.word.field, x.word.text)],
         "error" \notin {x.cfg[f] : f \in Fields}, Agreeing(base, said)
  PROVE  Keeps(x)
<1> DEFINE w == x.word
           v == SetValue(w.field, w.text)
<1>1. DOMAIN base = Fields
  BY DEF Config
<1>2. x.cfg[w.field] = v /\ \A f \in Fields : f # w.field => x.cfg[f] = base[f]
  BY <1>1
<1>3. v # "error"
  BY <1>2
<1>4. v = Meant(w.text)
  BY <1>3, ValueIsMeant
<1>5. \A f \in Fields :
        Expected(x)[f] = IF f = w.field THEN Meant(w.text) ELSE said[f]
  BY DEF Expected
<1> HIDE DEF v, w
<1> QED BY <1>2, <1>4, <1>5 DEF Keeps, Agreeing, w

(* The questions about an institution are answered as expected.            *)
LEMMA PromptKeeps ==
  ASSUME NEW cfg \in Config, NEW a,
         \A f \in InstitutionFields : cfg[f] = said[f],
         \A f \in InstitutionFields : PromptInstitutionAccess(cfg, a)[f] # "error"
  PROVE  \A f \in InstitutionFields :
           PromptInstitutionAccess(cfg, a)[f] = ExpectedAccess(a)[f]
<1> DEFINE r == Endpoint(a.resolver, Offered(cfg).resolver, Resolvers)
           g == Endpoint(a.gateway, Offered(cfg).gateway, Gateways)
           m == ModeFor(cfg, r, g)
           d == PromptInstitutionAccess(cfg, a)
           er == ExpectedAddress("institution_resolver_url", a.resolver, Resolvers)
           eg == ExpectedAddress("institution_gateway_url", a.gateway, Gateways)
           em == said["institution_access_mode"]
<1>1. /\ InstitutionFields \subseteq Fields
      /\ cfg["institution_access_mode"] = em
      /\ cfg["institution_access_url"] = said["institution_access_url"]
      /\ cfg["institution_resolver_url"] = said["institution_resolver_url"]
      /\ cfg["institution_gateway_url"] = said["institution_gateway_url"]
  BY DEF InstitutionFields, Fields
<1>2. d = [cfg EXCEPT !["institution_access_url"] = "unset",
                      !["institution_resolver_url"] = r,
                      !["institution_gateway_url"] = g,
                      !["institution_access_mode"] = m]
  BY DEF PromptInstitutionAccess
<1> HIDE DEF r, g, m, d
<1>3. /\ d["institution_resolver_url"] = r /\ d["institution_gateway_url"] = g
      /\ d["institution_access_mode"] = m /\ d["institution_access_url"] = "unset"
  BY <1>1, <1>2 DEF Config, InstitutionFields
<1>4. r # "error" /\ g # "error"
  BY <1>1, <1>3 DEF d, InstitutionFields
<1>5. r = er
  <2>1. CASE a.resolver # ""
    BY <1>4, <2>1 DEF r, Endpoint, ExpectedAddress
  <2>2. CASE a.resolver = ""
    BY <1>1, <2>2 DEF r, Endpoint, ExpectedAddress, Offered, ProfileOf
  <2> QED BY <2>1, <2>2
<1>6. g = eg
  <2>1. CASE a.gateway # ""
    BY <1>4, <2>1 DEF g, Endpoint, ExpectedAddress
  <2>2. CASE a.gateway = ""
    BY <1>1, <2>2 DEF g, Endpoint, ExpectedAddress, Offered, ProfileOf
  <2> QED BY <2>1, <2>2
<1> HIDE DEF er, eg
<1>7. m = CASE {er, eg} = {"unset"} -> "off"
            [] {er, eg} # {"unset"} /\ em = "off" -> "fallback"
            [] OTHER -> em
  <2>1. {er, eg} = {"unset"} <=> r = "unset" /\ g = "unset"
    BY <1>5, <1>6
  <2> QED BY <1>1, <2>1 DEF m, ModeFor
<1>8. /\ ExpectedAccess(a)["institution_resolver_url"] = er
      /\ ExpectedAccess(a)["institution_gateway_url"] = eg
      /\ ExpectedAccess(a)["institution_access_url"] = "unset"
      /\ ExpectedAccess(a)["institution_access_mode"] =
           CASE {er, eg} = {"unset"} -> "off"
             [] {er, eg} # {"unset"} /\ em = "off" -> "fallback"
             [] OTHER -> em
  BY DEF ExpectedAccess, InstitutionFields, er, eg
<1> QED BY <1>3, <1>5, <1>6, <1>7, <1>8 DEF InstitutionFields, d

(* What is answered to a question is kept, and what is there if nothing is.*)
LEMMA AnswerIsKept ==
  ASSUME NEW f \in {"backend_mode", "library_type", "timeout_secs"}, NEW cfg, NEW text,
         cfg[f] = said[f], OrKept(f, cfg, text) # "error"
  PROVE  /\ OrKept(f, cfg, text) = Answered(f, text)
         /\ f = "backend_mode" => Answered(f, text) \in {"local", "cloud", "hybrid"}
<1>1. f \in Fields
  BY DEF Fields
<1>2. OrKept(f, cfg, text) = Prompted(f, cfg, text)
  BY DEF OrKept, SetValue
<1>3. OrKept(f, cfg, text) = Meant(Prompted(f, cfg, text))
  BY <1>1, ValueIsMeant DEF OrKept
<1>4. OrKept(f, cfg, text) = Answered(f, text)
  BY <1>2, <1>3 DEF Prompted, Answered
<1> QED BY <1>4 DEF OrKept, SetValue

(* A text that is taken as it is.                                          *)
LEMMA PromptedIsAnswered ==
  ASSUME NEW f, NEW cfg, NEW text, cfg[f] = said[f]
  PROVE  Prompted(f, cfg, text) = Answered(f, text)
BY DEF Prompted, Answered, Meant, Unset

LEMMA InteractiveKeeps ==
  ASSUME NEW cfg \in Config, NEW a \in InitAnswers, NEW d \in Interactive(cfg, a),
         "error" \notin {d[f] : f \in Fields}, Agreeing(cfg, said)
  PROVE  Agreeing(d, ExpectedAnswers(a))
<1> DEFINE source == OrKept("backend_mode", cfg, a.source)
           x == ExpectedAnswers(a)
           es == Answered("backend_mode", a.source)
           library == Answered("library_type", a.library)
<1>0. \A f \in Fields : d[f] # "error"
  BY NoErrors
<1>1. PICK c \in Config :
        /\ IF source = "local" THEN c \in LocalLibrary(cfg, a)
           ELSE c \in CloudLibrary(cfg, a, source)
        /\ \A f \in Fields \ (InstitutionFields \cup {"timeout_secs"}) : d[f] = c[f]
        /\ d["timeout_secs"] = OrKept("timeout_secs", cfg, a.timeout)
        /\ \E e \in Config : /\ d = PromptInstitutionAccess(e, a)
                            /\ \A f \in InstitutionFields : e[f] = cfg[f]
        /\ source \in Texts
  BY InteractiveFields
<1>2. \A f \in Fields \ {"user_id"} : cfg[f] = said[f]
  BY DEF Agreeing
<1>3. /\ LibraryFields \subseteq Fields \ (InstitutionFields \cup {"timeout_secs"})
      /\ InstitutionFields \subseteq Fields \ {"user_id", "timeout_secs"}
      /\ "timeout_secs" \in Fields
  BY DEF LibraryFields, InstitutionFields, Fields
<1>4. ASSUME NEW f \in InstitutionFields PROVE d[f] = x[f]
  <2>1. PICK e \in Config : /\ d = PromptInstitutionAccess(e, a)
                            /\ \A h \in InstitutionFields : e[h] = cfg[h]
    BY <1>1
  <2>2. \A h \in InstitutionFields : e[h] = said[h]
    BY <1>2, <1>3, <2>1
  <2>3. d[f] = ExpectedAccess(a)[f]
    <3>1. \A h \in InstitutionFields : d[h] # "error"
      BY <1>0, <1>3
    <3> QED BY <2>1, <2>2, <3>1, PromptKeeps
  <2>4. x[f] = ExpectedAccess(a)[f]
    BY <1>3 DEF ExpectedAnswers, x, InstitutionFields
  <2> QED BY <2>3, <2>4
<1>5. d["timeout_secs"] = x["timeout_secs"]
  <2>1. OrKept("timeout_secs", cfg, a.timeout) # "error"
    BY <1>0, <1>1, <1>3
  <2>2. OrKept("timeout_secs", cfg, a.timeout) = Answered("timeout_secs", a.timeout)
    BY <1>2, <1>3, <2>1, AnswerIsKept
  <2>3. x["timeout_secs"] = Answered("timeout_secs", a.timeout)
    BY DEF ExpectedAnswers, InstitutionFields, Fields
  <2> QED BY <1>1, <2>2, <2>3
<1>6. c["backend_mode"] = source
  <2>1. CASE source = "local"
    BY <1>1, <2>1, LocalFields
  <2>2. CASE source # "local"
    <3>1. PICK api : api = CloudApi(cfg, a, source)
      OBVIOUS
    <3>2. c["backend_mode"] = api["backend_mode"]
      BY <1>1, <2>2, <3>1, CloudFields DEF Fields
    <3>3. api["backend_mode"] = source
      BY <1>1, <3>1, ApiFields DEF IsApi
    <3> QED BY <3>2, <3>3
  <2> QED BY <2>1, <2>2
<1>7. source = es /\ es \in {"local", "cloud", "hybrid"}
  <2>1. c["backend_mode"] # "error"
    BY <1>0, <1>1, <1>3 DEF LibraryFields
  <2>2. cfg["backend_mode"] = said["backend_mode"]
    BY <1>2 DEF Fields
  <2> QED BY <1>6, <2>1, <2>2, AnswerIsKept
<1> HIDE DEF source, es, library
<1>8. \A f \in LibraryFields : d[f] = c[f] /\ c[f] # "error"
  BY <1>0, <1>1, <1>3
<1>9. \A f \in Fields \ {"user_id"} : f \in LibraryFields => cfg[f] = said[f]
  BY <1>2
<1>10. ASSUME NEW f \in Fields, f \notin LibraryFields, f \notin InstitutionFields,
              f # "timeout_secs"
       PROVE  d[f] = x[f]
  <2>1. x[f] = said[f]
    BY <1>10 DEF ExpectedAnswers, LibraryFields
  <2>2. c[f] = cfg[f]
    <3>1. CASE source = "local"
      BY <1>1, <1>10, <3>1, LocalFields
    <3>2. CASE source # "local"
      <4>1. PICK api : api = CloudApi(cfg, a, source)
        OBVIOUS
      <4>2. c[f] = api[f]
        BY <1>1, <1>10, <3>2, <4>1, CloudFields DEF LibraryFields
      <4>3. IsApi(api, cfg, a, source)
        BY <1>1, <4>1, ApiFields
      <4> QED BY <1>10, <4>2, <4>3 DEF IsApi
    <3> QED BY <3>1, <3>2
  <2>3. f # "user_id"
    BY <1>10 DEF LibraryFields
  <2> QED BY <1>1, <1>2, <1>10, <2>1, <2>2, <2>3
<1>11. ASSUME NEW f \in LibraryFields, source = "local" PROVE d[f] = x[f]
  <2>1. /\ x["backend_mode"] = "local" /\ x["api_key"] = "unset" /\ x["group_id"] = "unset"
        /\ x["library_type"] = "user" /\ x["user_id"] = "0"
        /\ x["local_api_base"] = Answered("local_api_base", a.local)
        /\ x["cloud_api_base"] = said["cloud_api_base"]
    BY <1>7, <1>11 DEF ExpectedAnswers, InstitutionFields, Fields, es
  <2> HIDE DEF x
  <2>2. c \in LocalLibrary(cfg, a)
    BY <1>1, <1>11
  <2>3. cfg["local_api_base"] = said["local_api_base"] /\ cfg["cloud_api_base"] = said["cloud_api_base"]
    BY <1>2 DEF Fields
  <2>4. Prompted("local_api_base", cfg, a.local) = Answered("local_api_base", a.local)
    BY <2>3, PromptedIsAnswered
  <2>5. c[f] = x[f]
    BY <2>1, <2>2, <2>3, <2>4, LocalFields DEF LibraryFields
  <2> QED BY <1>8, <2>5
<1>12. ASSUME NEW f \in LibraryFields, source # "local"
       PROVE  d[f] = x[f] \/ (f = "user_id" /\ x[f] = NONE)
  <2>0. PICK api : api = CloudApi(cfg, a, source)
    OBVIOUS
  <2>1. /\ x["backend_mode"] = es
        /\ x["api_key"] = Answered("api_key", a.key)
        /\ x["library_type"] = library
        /\ x["cloud_api_base"] = Answered("cloud_api_base", a.base)
        /\ x["local_api_base"] = IF es = "cloud" THEN said["local_api_base"]
                                 ELSE Answered("local_api_base", a.local)
        /\ x["user_id"] = IF library = "group" THEN "unset" ELSE ExpectedUser(a)
        /\ x["group_id"] = IF library = "group" THEN Meant(Answered("group_id", a.login))
                           ELSE "unset"
    BY <1>7, <1>12 DEF ExpectedAnswers, InstitutionFields, Fields, es, library
  <2> HIDE DEF x
  <2>2. c \in CloudLibrary(cfg, a, source)
    BY <1>1, <1>12
  <2>3. \A h \in Fields \ {"user_id", "group_id"} : c[h] = api[h]
    BY <1>1, <2>0, <2>2, CloudFields
  <2>4. /\ api["backend_mode"] = source
        /\ api["cloud_api_base"] = Prompted("cloud_api_base", cfg, a.base)
        /\ api["local_api_base"] = Prompted("local_api_base", cfg,
                                            IF source = "hybrid" THEN a.local ELSE "")
        /\ api["api_key"] = IF a.key = "" THEN cfg["api_key"] ELSE SetValue("api_key", a.key)
        /\ api["library_type"] = OrKept("library_type", cfg, a.library)
    BY <1>1, <2>0, ApiFields DEF IsApi
  <2>5. \A h \in LibraryFields : h # "user_id" => cfg[h] = said[h]
    BY <1>2, <1>3
  <2>6. c["library_type"] = library
    <3>1. c["library_type"] = OrKept("library_type", cfg, a.library)
      BY <2>3, <2>4 DEF Fields
    <3>2. OrKept("library_type", cfg, a.library) # "error"
      BY <1>8, <3>1 DEF LibraryFields
    <3>3. cfg["library_type"] = said["library_type"]
      BY <2>5 DEF LibraryFields
    <3> QED BY <3>1, <3>2, <3>3, AnswerIsKept DEF library
  <2>7. CASE f = "backend_mode"
    BY <1>7, <1>8, <1>6, <2>1, <2>7
  <2>8. CASE f = "library_type"
    BY <1>8, <2>1, <2>6, <2>8
  <2>9. CASE f = "cloud_api_base"
    <3>1. cfg[f] = said[f] /\ f \in Fields
      BY <2>5, <2>9 DEF Fields
    <3>2. c[f] = Prompted(f, cfg, a.base)
      BY <2>3, <2>4, <2>9, <3>1
    <3>3. Prompted(f, cfg, a.base) = Answered(f, a.base)
      BY <3>1, PromptedIsAnswered
    <3> QED BY <1>8, <2>1, <2>9, <3>2, <3>3
  <2>10. CASE f = "local_api_base"
    <3>1. cfg[f] = said[f] /\ f \in Fields
      BY <2>5, <2>10 DEF Fields
    <3>2. c[f] = Prompted(f, cfg, IF source = "hybrid" THEN a.local ELSE "")
      BY <2>3, <2>4, <2>10, <3>1
    <3>3. CASE source = "hybrid"
      BY <1>7, <1>8, <2>1, <2>10, <3>1, <3>2, <3>3, PromptedIsAnswered
    <3>4. CASE source # "hybrid"
      <4>1. es = "cloud"
        BY <1>7, <1>12, <3>4
      <4>2. c[f] = cfg[f]
        BY <3>2, <3>4 DEF Prompted
      <4> QED BY <1>8, <2>1, <2>10, <3>1, <4>1, <4>2
    <3> QED BY <3>3, <3>4
  <2>11. CASE f = "api_key"
    <3>1. cfg[f] = said[f] /\ f \in Fields
      BY <2>5, <2>11 DEF Fields
    <3>2. c[f] = IF a.key = "" THEN cfg[f] ELSE SetValue(f, a.key)
      BY <2>3, <2>4, <2>11, <3>1
    <3>3. SetValue(f, a.key) = Meant(a.key)
      BY <2>11 DEF SetValue, Meant
    <3> QED BY <1>8, <2>1, <2>11, <3>1, <3>2, <3>3 DEF Answered
  <2>12. IF library = "group"
         THEN c["group_id"] = OrKept("group_id", cfg, a.login) /\ c["user_id"] = "unset"
         ELSE c["user_id"] \in LoginIds(cfg, a.login) /\ c["group_id"] = "unset"
    BY <1>1, <2>0, <2>2, <2>6, CloudFields
  <2>13. CASE f = "group_id"
    <3>1. CASE library # "group"
      BY <1>8, <2>1, <2>12, <2>13, <3>1
    <3>2. CASE library = "group"
      <4>1. c[f] = SetValue(f, Prompted(f, cfg, a.login)) /\ c[f] # "error" /\ f \in Fields
        BY <1>3, <1>8, <2>12, <2>13, <3>2 DEF OrKept
      <4>2. c[f] = Meant(Prompted(f, cfg, a.login))
        BY <4>1, ValueIsMeant
      <4>3. cfg[f] = said[f]
        BY <2>5, <2>13
      <4>4. Prompted(f, cfg, a.login) = Answered(f, a.login)
        BY <4>3, PromptedIsAnswered
      <4> QED BY <1>8, <2>1, <2>13, <3>2, <4>2, <4>4
    <3> QED BY <3>1, <3>2
  <2>14. CASE f = "user_id"
    <3>1. CASE library = "group"
      BY <1>8, <2>1, <2>12, <2>14, <3>1
    <3>2. CASE library # "group"
      <4> DEFINE text == IF a.login = "" THEN said["user_id"] ELSE a.login
      <4>1. x[f] = IF Number(text) THEN text ELSE NONE
        BY <2>1, <2>14, <3>2 DEF ExpectedUser
      <4>2. CASE ~Number(text) \/ text = NONE
        BY <2>14, <4>1, <4>2
      <4>3. CASE Number(text) /\ text # NONE
        <5>1. Prompted("user_id", cfg, a.login) = text
          BY <4>3 DEF Prompted, Agreeing, Fields
        <5>2. text # "unset"
          BY <4>3 DEF Number
        <5>3. LoginIds(cfg, a.login) = {text}
          BY <4>3, <5>1, <5>2 DEF LoginIds
        <5> QED BY <1>8, <2>12, <2>14, <3>2, <4>1, <4>3, <5>3
      <4> QED BY <4>2, <4>3
    <3> QED BY <3>1, <3>2
  <2> QED BY <2>7, <2>8, <2>9, <2>10, <2>11, <2>13, <2>14 DEF LibraryFields
<1> QED BY <1>4, <1>5, <1>10, <1>11, <1>12 DEF Agreeing

LEMMA SetupKeeps ==
  ASSUME NEW x, x.kind = "setup", NEW base \in Config, NEW a \in SetupAnswers,
         x.cfg = RunDoctorSetup(base, x.raw, a), x.answers = a,
         "error" \notin {x.cfg[f] : f \in Fields}, Agreeing(base, said)
  PROVE  Keeps(x)
<1> DEFINE c == IF AsksAccess(x.raw) THEN PromptInstitutionAccess(base, a) ELSE base
           asks == AsksPaperseed(x.raw) /\ a.paperseed # ""
           v == SetValue("paperseed_enabled", a.paperseed)
           e == ExpectedSetup(x.raw, a)
<1>1. x.cfg = IF asks THEN [c EXCEPT !["paperseed_enabled"] = v] ELSE c
  BY DEF RunDoctorSetup
<1>2. a.resolver \in Texts /\ a.gateway \in Texts
  BY TextsAssumption
<1>3. /\ c \in Config
      /\ \A f \in Fields : (AsksAccess(x.raw) /\ f \in InstitutionFields) \/ c[f] = base[f]
  BY <1>2, PromptIsConfig
<1>4. /\ InstitutionFields \subseteq Fields \ {"user_id", "paperseed_enabled"}
      /\ "paperseed_enabled" \in Fields
  BY DEF InstitutionFields, Fields
<1>5. /\ \A f \in Fields : f # "paperseed_enabled" => x.cfg[f] = c[f]
      /\ x.cfg["paperseed_enabled"] = IF asks THEN v ELSE c["paperseed_enabled"]
  <2> HIDE DEF c, v, asks
  <2>1. DOMAIN c = Fields
    BY <1>3 DEF Config
  <2> QED BY <1>1, <1>4, <2>1
<1>6. \A f \in Fields : x.cfg[f] # "error"
  BY NoErrors
<1>7. \A f \in Fields \ {"user_id"} : base[f] = said[f]
  BY DEF Agreeing
<1>8. Expected(x) = e
  BY DEF Expected
<1>9. ASSUME NEW f \in InstitutionFields, AsksAccess(x.raw) PROVE x.cfg[f] = e[f]
  <2>1. e[f] = ExpectedAccess(a)[f]
    BY <1>4, <1>9 DEF ExpectedSetup
  <2>2. \A h \in InstitutionFields : x.cfg[h] = PromptInstitutionAccess(base, a)[h]
    BY <1>4, <1>5, <1>9
  <2>3. \A h \in InstitutionFields : PromptInstitutionAccess(base, a)[h] # "error"
    BY <1>4, <1>6, <2>2
  <2>4. \A h \in InstitutionFields : base[h] = said[h]
    BY <1>4, <1>7
  <2> QED BY <2>1, <2>2, <2>3, <2>4, <1>9, PromptKeeps
<1>10. ASSUME NEW f \in InstitutionFields, ~AsksAccess(x.raw) PROVE x.cfg[f] = e[f]
  <2>1. e[f] = said[f] /\ f # "paperseed_enabled"
    BY <1>4, <1>10 DEF ExpectedSetup, InstitutionFields
  <2> QED BY <1>3, <1>4, <1>5, <1>7, <1>10, <2>1
<1>11. x.cfg["paperseed_enabled"] = e["paperseed_enabled"]
  <2>1. e["paperseed_enabled"] = IF AsksPaperseed(x.raw)
                                 THEN Answered("paperseed_enabled", a.paperseed)
                                 ELSE said["paperseed_enabled"]
    BY <1>4 DEF ExpectedSetup, InstitutionFields
  <2>2. c["paperseed_enabled"] = said["paperseed_enabled"]
    BY <1>3, <1>4, <1>7 DEF Fields, InstitutionFields
  <2>3. asks => v = Meant(a.paperseed)
    BY <1>4, <1>5, <1>6, ValueIsMeant
  <2> QED BY <1>5, <2>1, <2>2, <2>3 DEF Answered
<1>12. ASSUME NEW f \in Fields, f \notin InstitutionFields, f # "paperseed_enabled"
       PROVE  x.cfg[f] = e[f] \/ (f = "user_id" /\ e[f] = NONE)
  <2>1. e[f] = said[f]
    BY <1>12 DEF ExpectedSetup
  <2>2. x.cfg[f] = base[f]
    BY <1>3, <1>5, <1>12
  <2> QED BY <2>1, <2>2, <1>12 DEF Agreeing
<1> HIDE DEF e
<1> QED BY <1>8, <1>9, <1>10, <1>11, <1>12 DEF Keeps, Agreeing

LEMMA SettingsSteps ==
  ASSUME CommandInv, SettingsInv, NEW c \in Commands, Command(c)
  PROVE  SettingsInv'
<1> USE DEF Goes
<1>0. IsCommand(cmd[c]) /\ Fitting(cmd[c]) /\ LoadFileOrDefault(file) \in Config
  BY LoadedIsConfig DEF CommandInv, Commanding, SettingsInv
<1>1. CASE BeginSet(c)
  <2>1. PICK w \in Words : Start(c, [Idle EXCEPT !.at = "load", !.kind = "set", !.word = w])
    BY <1>1 DEF BeginSet
  <2>2. PICK next : next = [Idle EXCEPT !.at = "load", !.kind = "set", !.word = w]
    OBVIOUS
  <2>3. next.at = "load" /\ next.word = w
    BY <2>2 DEF Idle
  <2>4. Fitting(next) /\ Start(c, next)
    BY <2>1, <2>2, <2>3 DEF Fitting
  <2>5. Promised(c)'
    BY <2>3, <2>4 DEF Promised, Start, CommandInv, Commanding
  <2> QED BY <1>1, <2>3, <2>4, <2>5, StartSettings DEF BeginSet
<1>2. CASE LoadAndSet(c)
  <2> DEFINE w == cmd[c].word
             v == SetValue(w.field, w.text)
             base == LoadFileOrDefault(file)
             cfg == [base EXCEPT ![w.field] = v]
             next == [cmd[c] EXCEPT !.at = "write", !.cfg = cfg, !.answers = NONE]
  <2>1. w \in [field : Fields, text : Texts]
    BY <1>0, <1>2, TextsAssumption DEF LoadAndSet, Fitting
  <2>2. cfg \in Config
    BY <1>0, <2>1, SetValueIsText, SetIsConfig
  <2>3. WriteOrEnd(c, cfg, NONE) /\ cmd[c].at = "load" /\ cmd[c].kind = "set"
    BY <1>2 DEF LoadAndSet
  <2>4. UNCHANGED <<file, said, calm>>
    BY <1>2 DEF LoadAndSet
  <2> HIDE DEF base
  <2>5. /\ next.kind = "set" /\ next.word = w /\ next.cfg = cfg
        /\ next.word.field \in Fields
    BY <1>0, <2>1, <2>3 DEF IsCommand, CommandFields
  <2>6. calm => Agreeing(base, said)
    BY <2>3, OnlyOne DEF Saved, base
  <2>7. base \in Config
    BY <1>0 DEF base
  <2> HIDE DEF next
  <2>8. calm /\ "error" \notin {cfg[f] : f \in Fields} => Keeps(next)
    BY <2>5, <2>6, <2>7, SetKeeps
  <2> QED BY <2>2, <2>3, <2>4, <2>8, WriteSettings DEF next
<1>3. CASE BeginInit(c)
  <2>1. PICK next : next = [Idle EXCEPT !.at = "write", !.kind = "init", !.cfg = DefaultConfig]
    OBVIOUS
  <2>2. next.at = "write" /\ next.kind = "init" /\ next.cfg = DefaultConfig
    BY <2>1 DEF Idle
  <2>3. Fitting(next) /\ Keeps(next)'
    BY <2>2, DefaultIsConfig DEF Fitting, Keeps, Agreeing, Expected
  <2>4. Start(c, Idle) \/ Start(c, next)
    BY <1>3, <2>1 DEF BeginInit
  <2>5. Promised(c)'
    BY <2>2, <2>3, <2>4, IdleFits DEF Promised, Start, CommandInv, Commanding
  <2> QED BY <1>3, <2>2, <2>3, <2>4, <2>5, IdleFits, StartSettings DEF BeginInit
<1>4. CASE BeginInteractive(c)
  <2>1. PICK next : next = [Idle EXCEPT !.at = "ask", !.kind = "interactive",
                              !.cfg = LoadFileOrDefault(file)]
    OBVIOUS
  <2>2. next.at = "ask" /\ next.cfg = LoadFileOrDefault(file)
    BY <2>1 DEF Idle
  <2>3. Fitting(next)
    BY <1>0, <2>2 DEF Fitting
  <2>4. Start(c, Idle) \/ Start(c, next)
    BY <1>4, <2>1 DEF BeginInteractive
  <2>5. UNCHANGED <<file, said>>
    BY <1>4 DEF BeginInteractive
  <2>6. calm' => Saved
    <3>1. calm' => calm /\ Active = {}
      BY <2>4 DEF Start
    <3> QED BY <3>1 DEF SettingsInv, TurnsInv, Active
  <2>7. calm' => Promised(c)'
    BY <2>2, <2>4, <2>5, <2>6, IdleFits DEF Promised, Start, CommandInv, Commanding, Saved, Agreeing
  <2> QED BY <2>2, <2>3, <2>4, <2>5, <2>7, IdleFits, StartSettings
<1>5. CASE AnswerInit(c)
  <2>0. PICK a \in InitAnswers :
          \E cfg \in Interactive(cmd[c].cfg, a) : WriteOrEnd(c, cfg, a)
    BY <1>5 DEF AnswerInit
  <2>1. PICK cfg \in Interactive(cmd[c].cfg, a) : WriteOrEnd(c, cfg, a)
    BY <2>0
  <2>2. cmd[c].at = "ask" /\ cmd[c].kind = "interactive" /\ UNCHANGED <<file, said, calm>>
    BY <1>5 DEF AnswerInit, Goes
  <2>3. cmd[c].cfg \in Config
    BY <1>0, <2>2 DEF Fitting
  <2>4. cfg \in Config
    BY <2>1, <2>3, InteractiveIsConfig
  <2>5. PICK next : next = [cmd[c] EXCEPT !.at = "write", !.cfg = cfg, !.answers = a]
    OBVIOUS
  <2>6. next.kind = "interactive" /\ next.cfg = cfg /\ next.answers = a
    BY <1>0, <2>2, <2>5 DEF IsCommand, CommandFields
  <2>7. calm => Agreeing(cmd[c].cfg, said)
    BY <2>2, OnlyOne DEF Promised
  <2>8. calm /\ "error" \notin {cfg[f] : f \in Fields} => Agreeing(cfg, ExpectedAnswers(a))
    BY <2>1, <2>3, <2>7, InteractiveKeeps
  <2>9. calm /\ "error" \notin {cfg[f] : f \in Fields} => Keeps(next)
    BY <2>6, <2>8 DEF Keeps, Expected
  <2> QED BY <2>1, <2>2, <2>4, <2>5, <2>9, WriteSettings
<1>6. CASE BeginSetup(c)
  <2>1. PICK next : next = [Idle EXCEPT !.at = "load", !.kind = "setup",
                              !.raw = IF file = NONE THEN Empty ELSE file]
    OBVIOUS
  <2>2. next.at = "load" /\ next.kind = "setup" /\ Start(c, next)
    BY <1>6, <2>1 DEF Idle, BeginSetup
  <2>3. Fitting(next) /\ Promised(c)'
    BY <2>2 DEF Fitting, Promised, Start, CommandInv, Commanding
  <2> QED BY <1>6, <2>2, <2>3, StartSettings DEF BeginSetup
<1>7. CASE LoadForSetup(c)
  <2>1. PICK next : next = [cmd[c] EXCEPT !.at = "ask", !.cfg = LoadFileOrDefault(file)]
    OBVIOUS
  <2>2. /\ next.at = "ask" /\ next.cfg = LoadFileOrDefault(file)
        /\ cmd' = [cmd EXCEPT ![c] = next] /\ cmd'[c] = next
    BY <1>0, <1>7, <2>1 DEF LoadForSetup, IsCommand, CommandFields, CommandInv, Commanding
  <2>3. cmd[c].at = "load" /\ UNCHANGED <<file, said, calm>>
    BY <1>7 DEF LoadForSetup
  <2>4. Fitting(next)
    BY <1>0, <2>2 DEF Fitting
  <2>5. calm => Promised(c)'
    BY <2>2, <2>3, OnlyOne DEF Promised, Saved, Agreeing
  <2> QED BY <2>2, <2>3, <2>4, <2>5, OnlyOne, ChangeSettings
<1>8. CASE AnswerSetup(c)
  <2>1. PICK a \in SetupAnswers : WriteOrEnd(c, RunDoctorSetup(cmd[c].cfg, cmd[c].raw, a), a)
    BY <1>8 DEF AnswerSetup
  <2>2. cmd[c].at = "ask" /\ cmd[c].kind = "setup" /\ UNCHANGED <<file, said, calm>>
    BY <1>8 DEF AnswerSetup, Goes
  <2>3. cmd[c].cfg \in Config
    BY <1>0, <2>2 DEF Fitting
  <2>4. PICK cfg : cfg = RunDoctorSetup(cmd[c].cfg, cmd[c].raw, a)
    OBVIOUS
  <2>5. cfg \in Config
    BY <2>3, <2>4, SetupIsConfig
  <2>6. PICK next : next = [cmd[c] EXCEPT !.at = "write", !.cfg = cfg, !.answers = a]
    OBVIOUS
  <2>7. next.kind = "setup" /\ next.cfg = cfg /\ next.raw = cmd[c].raw /\ next.answers = a
    BY <1>0, <2>2, <2>6 DEF IsCommand, CommandFields
  <2>8. calm => Agreeing(cmd[c].cfg, said)
    BY <2>2, OnlyOne DEF Promised
  <2>9. calm /\ "error" \notin {cfg[f] : f \in Fields} => Keeps(next)
    BY <2>3, <2>4, <2>7, <2>8, SetupKeeps
  <2> QED BY <2>1, <2>2, <2>4, <2>5, <2>6, <2>9, WriteSettings
<1>9. CASE Truncate(c)
  <2>1. PICK next : next = [cmd[c] EXCEPT !.at = "writing"]
    OBVIOUS
  <2>2. /\ cmd[c].at = "write" /\ next.at = "writing" /\ next.cfg = cmd[c].cfg
        /\ next.kind = cmd[c].kind /\ next.word = cmd[c].word /\ next.raw = cmd[c].raw
        /\ next.answers = cmd[c].answers
        /\ cmd' = [cmd EXCEPT ![c] = next] /\ cmd'[c] = next
    BY <1>0, <1>9, <2>1 DEF Truncate, IsCommand, CommandFields, CommandInv, Commanding
  <2>3. file' = Empty /\ UNCHANGED <<said, calm>>
    BY <1>9 DEF Truncate
  <2>4. Fitting(next)
    BY <1>0, <2>2 DEF Fitting
  <2>5. Empty \in FileContents
    <3>1. Empty \in [{} -> Texts]
      BY DEF Empty
    <3> QED BY <3>1 DEF FileContents
  <2>6. calm => Keeps(cmd[c])
    BY <2>2, OnlyOne DEF Promised
  <2>7. Expected(next)' = Expected(cmd[c])
    <3>1. Expected(next)' = Expected(next)
      BY <2>3, ExpectsTheSame
    <3> QED BY <2>2, <3>1 DEF Expected
  <2>8. calm => Promised(c)'
    BY <2>2, <2>3, <2>6, <2>7 DEF Promised, Keeps, Agreeing
  <2> QED BY <2>2, <2>3, <2>4, <2>5, <2>8, OnlyOne, ChangeFile
<1>10. CASE Write(c)
  <2>1. /\ cmd[c].at = "writing" /\ file' = Serialized(cmd[c].cfg)
        /\ said' = Expected(cmd[c]) /\ End(c) /\ UNCHANGED calm
    BY <1>10 DEF Write
  <2>2. cmd[c].cfg \in Config
    BY <1>0, <2>1 DEF Fitting
  <2>3. /\ file' \in FileContents
        /\ \A f \in Fields : LoadFileOrDefault(file')[f] = cmd[c].cfg[f]
    BY <2>1, <2>2, RoundTrip
  <2>4. calm => Keeps(cmd[c])
    BY <2>1, OnlyOne DEF Promised
  <2>5. calm' => Saved'
    BY <2>1, <2>3, <2>4 DEF Saved, Keeps, Agreeing
  <2>6. cmd' = [cmd EXCEPT ![c] = Idle] /\ cmd'[c] = Idle
    BY <2>1 DEF End, CommandInv, Commanding
  <2>7. Promised(c)'
    BY <2>6, IdleFits DEF Promised
  <2> QED BY <2>1, <2>3, <2>5, <2>6, <2>7, IdleFits, OnlyOne, ChangeFile
<1>11. CASE BeginRun(c)
  <2>1. PICK next : next = [Idle EXCEPT !.at = "load", !.kind = "run"]
    OBVIOUS
  <2>2. next.at = "load" /\ next.kind = "run" /\ Start(c, next)
    BY <1>11, <2>1 DEF Idle, BeginRun
  <2>3. Fitting(next) /\ Promised(c)'
    BY <2>2 DEF Fitting, Promised, Start, CommandInv, Commanding
  <2> QED BY <1>11, <2>2, <2>3, StartSettings DEF BeginRun
<1>12. CASE Load(c)
  <2>1. cmd[c].at = "load" /\ UNCHANGED <<file, said, calm>>
    BY <1>12 DEF Load
  <2>2. CASE End(c)
    BY <2>1, <2>2, EndSettings
  <2>3. CASE ~End(c)
    <3>1. PICK order \in ByPrecedence(DOMAIN env) :
            LET cfg == ApplyEnvOverrides(LoadFileOrDefault(file), env, order) IN
            IF EnvIsReadable(env) /\ Valid(cfg)
            THEN cmd' = [cmd EXCEPT ![c].at = "running", ![c].cfg = cfg,
                           ![c].raw = IF file = NONE THEN Empty ELSE file]
            ELSE End(c)
      BY <1>12 DEF Load
    <3> DEFINE cfg == ApplyEnvOverrides(LoadFileOrDefault(file), env, order)
               raw == IF file = NONE THEN Empty ELSE file
    <3>2. cmd' = [cmd EXCEPT ![c].at = "running", ![c].cfg = cfg, ![c].raw = raw]
      BY <2>3, <3>1
    <3> HIDE DEF cfg, raw
    <3>3. PICK next : next = [cmd[c] EXCEPT !.at = "running", !.cfg = cfg, !.raw = raw]
      OBVIOUS
    <3>4. /\ next.at = "running" /\ cmd' = [cmd EXCEPT ![c] = next] /\ cmd'[c] = next
      BY <1>0, <3>2, <3>3 DEF IsCommand, CommandFields, CommandInv, Commanding
    <3>5. Fitting(next) /\ Promised(c)'
      BY <3>4 DEF Fitting, Promised
    <3> QED BY <2>1, <3>4, <3>5, OnlyOne, ChangeSettings
  <2> QED BY <2>2, <2>3
<1>13. CASE Kill(c)
  BY <1>13, EndSettings DEF Kill
<1> QED BY <1>1, <1>2, <1>3, <1>4, <1>5, <1>6, <1>7, <1>8, <1>9, <1>10, <1>11, <1>12, <1>13
        DEF Command

LEMMA SettingsInvInit == Init => SettingsInv
<1> SUFFICES ASSUME Init PROVE SettingsInv
  OBVIOUS
<1>1. file \in FileContents \cup {NONE} /\ said = LoadFileOrDefault(file)
  BY ContentsAreFiles DEF Init, SettingsInit
<1>2. cmd = [c \in Commands |-> Idle]
  BY DEF Init, SettingsInit
<1>3. Active = {}
  BY <1>2, IdleFits DEF Active
<1>4. \A c \in Commands : Fitting(cmd[c]) /\ Promised(c)
  BY <1>2, IdleFits DEF Promised
<1> QED BY <1>1, <1>3, <1>4 DEF SettingsInv, TurnsInv, Saved, Agreeing

LEMMA SettingsInvNext == CommandInv /\ SettingsInv /\ [Next]_accessVars => SettingsInv'
<1> SUFFICES ASSUME CommandInv, SettingsInv, [Next]_accessVars PROVE SettingsInv'
  OBVIOUS
<1>1. CASE UNCHANGED settingsVars
  BY <1>1, ExpectsTheSame DEF settingsVars, SettingsInv, Fitting, TurnsInv, Active,
       Promised, Keeps, Agreeing, Saved
<1>2. CASE Edit
  <2>1. /\ Active = {} /\ file' \in FileContents /\ said' = LoadFileOrDefault(file')
        /\ UNCHANGED <<cmd, calm>>
    BY <1>2, ContentsAreFiles DEF Edit
  <2>2. \A c \in Commands : Fitting(cmd'[c]) /\ cmd'[c].at = "idle"
    BY <2>1 DEF SettingsInv, Active
  <2> QED BY <2>1, <2>2 DEF SettingsInv, TurnsInv, Active, Promised, Saved, Agreeing
<1>3. ASSUME NEW c \in Commands, Command(c) PROVE SettingsInv'
  BY <1>3, SettingsSteps
<1>4. ASSUME NEW c \in Commands, AccessPage(c) \/ AccessDoi(c) PROVE SettingsInv'
  BY <1>1, <1>4 DEF AccessPage, AccessDoi
<1>5. ASSUME NEW c \in Commands, Stop(c) PROVE SettingsInv'
  BY <1>5, EndSettings DEF Stop, Goes
<1>6. CASE Ask
  BY <1>1, <1>6 DEF Ask, WorkFound, WorkNotFound, Redirected, Unanswered, AnsweredPdf,
       AnsweredPage, OpenInBrowser, AnswerOnly
<1>7. CASE Leave
  <2>1. Stop(access.by)
    BY <1>7 DEF Leave
  <2>2. CASE access.by \notin Commands
    <3>1. UNCHANGED settingsVars
      BY <2>1, <2>2 DEF Stop, End, settingsVars, CommandInv, Commanding
    <3> QED BY <1>1, <3>1
  <2> QED BY <1>5, <2>1, <2>2
<1>8. CASE UNCHANGED accessVars
  BY <1>1, <1>8 DEF accessVars, settingsVars
<1> QED BY <1>2, <1>3, <1>4, <1>5, <1>6, <1>7, <1>8 DEF Next, Other

(* Commands that take turns and are not killed never lose what a user set: *)
(* whatever the words, the answers and the files, a field holds what was   *)
(* set or answered last, and what it held where nothing was. Only the id   *)
(* of a user who was looked up is left open.                               *)
THEOREM SettingsAreKept == Spec => []SettingsKept
<1>1. CommandInv /\ SettingsInv /\ [Next]_accessVars => (CommandInv /\ SettingsInv)'
  BY CommandInvNext, SettingsInvNext
<1>2. SettingsInv => SettingsKept
  BY DEF SettingsInv, TurnsInv, Saved, Agreeing, SettingsKept, Active
<1> QED BY <1>1, <1>2, CommandInvInit, SettingsInvInit, PTL DEF Spec

=============================================================================
