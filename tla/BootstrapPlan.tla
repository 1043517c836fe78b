--------------------------- MODULE BootstrapPlan ---------------------------
(***************************************************************************)
(* scripts/lib/bootstrap-contract.mjs (what a valid configuration is, and  *)
(* the values rendered from it) with the parts of                          *)
(* scripts/realtime-bootstrap.mjs that choose what is checked before a     *)
(* change: assertTarget and, for a rollback, configurationForPlan.  The    *)
(* configuration file is edited between invocations, so what a backup      *)
(* holds need not be what the file says.  The steps of an invocation, its  *)
(* locks and its backup are those of BootstrapLifecycle; here it stops     *)
(* after managed Redis or goes on to the gateway, and no release is left   *)
(* pending.  Names are members of    *)
(* small sets, the empty string is "none", and no port is 0.               *)
(***************************************************************************)
EXTENDS Naturals

CONSTANTS
  MaxEdits, MaxRuns,   \* bounds: edits of the file, and invocations
  None

VARIABLES
  config,         \* the configuration file
  cluster,        \* the values of the installed releases, or None, and whether
                  \* an invocation stopped between Redis and the gateway (torn)
  snapshots,      \* what the backups hold
  put, checked,   \* what the last invocation put there, and what it had checked
  edits, runs

vars == <<config, cluster, snapshots, put, checked, edits, runs>>

\* bootstrap/config.example.json with ingress, metrics and tracing turned on.
Managed ==
  [topology |-> "non-ha", domains |-> 3, storageClass |-> "disk", pull |-> "none",
   mode |-> "managed", endpoint |-> 0, haConfirmed |-> FALSE, cidrs |-> FALSE, tls |-> FALSE,
   secret |-> "redis", userKey |-> "realtime", adminKey |-> "admin", prefix |-> "dev",
   pulls |-> {}, ingress |-> TRUE, path |-> "/ws", fallback |-> "/http", tlsSecret |-> "cert",
   traefik |-> "traefik", direct |-> "none", metalLb |-> "metallb",
   monitor |-> TRUE, scrapers |-> TRUE,
   otlp |-> 4317, headers |-> "otel", headersKey |-> "headers", otlpEgress |-> TRUE,
   otlpPorts |-> {4317}, persistence |-> "off"]
External == [Managed EXCEPT !.mode = "external", !.endpoint = 6380, !.cidrs = TRUE, !.tls = TRUE,
                            !.topology = "ha", !.haConfirmed = TRUE]

\* What an operator may write in each field.  Persistence is off, lacks the name of
\* its connection Secret, or uses PostgreSQL, without and with its API, or SQLite.
Settings ==
  [topology |-> {"ha", "non-ha"}, domains |-> {2, 3}, storageClass |-> {"disk", "ssd"},
   pull |-> {"none", "registry"}, mode |-> {"managed", "external"}, endpoint |-> {0, 6380},
   haConfirmed |-> BOOLEAN, cidrs |-> BOOLEAN, tls |-> BOOLEAN, secret |-> {"redis", "redis2"},
   userKey |-> {"realtime", "admin"}, adminKey |-> {"admin", "root"}, prefix |-> {"dev", "dev2"},
   pulls |-> {{}, {"registry"}}, ingress |-> BOOLEAN, path |-> {"/ws", "/metrics"},
   fallback |-> {"/http", "/ws"}, tlsSecret |-> {"none", "cert", "cert2"},
   traefik |-> {"traefik", "edge"}, direct |-> {"none", "apps"}, metalLb |-> {"metallb", "lb"},
   monitor |-> BOOLEAN, scrapers |-> BOOLEAN, otlp |-> {0, 4317, 4318},
   headers |-> {"none", "otel", "otel2"}, headersKey |-> {"headers", "token"},
   otlpEgress |-> BOOLEAN, otlpPorts |-> {{}, {4317}, {4317, 4318}},
   persistence |-> {"off", "unnamed", "postgres", "api", "sqlite"}]

----------------------------------------------------------------------------
(* validateConfiguration, as far as one field constrains another *)

validatePersistence(c) == c.persistence # "unnamed" /\ (c.persistence = "sqlite" => c.topology = "non-ha")

ValidRedis(c) ==
  IF c.mode = "managed" THEN ~c.tls /\ c.userKey # c.adminKey
  ELSE c.endpoint # 0 /\ c.cidrs

ValidIngress(c) ==
  /\ c.path \notin {c.fallback, "/metrics"}
  /\ c.ingress => c.tlsSecret # "none"

ValidObservability(c) ==
  /\ c.headers # "none" => c.otlp # 0
  /\ c.monitor => c.scrapers
  /\ c.otlpPorts # {}
  /\ c.otlp # 0 => c.otlpEgress /\ c.otlp \in c.otlpPorts

ValidTopology(c) ==
  c.topology = "ha" => c.domains >= 3 /\ (c.mode = "external" => c.haConfirmed)

ValidNetworking(c) == c.ingress \/ c.direct # "none"

validateConfiguration(c) ==
  /\ validatePersistence(c) /\ ValidRedis(c) /\ ValidIngress(c)
  /\ ValidObservability(c) /\ ValidTopology(c) /\ ValidNetworking(c)

----------------------------------------------------------------------------
(* The rendered values *)

renderValues(c) ==
  [topology |-> c.topology, mode |-> c.mode, tls |-> c.tls,
   port |-> IF c.mode = "external" THEN c.endpoint ELSE 6379,
   externalEgress |-> c.mode = "external" /\ c.cidrs,
   secret |-> c.secret, userKey |-> c.userKey, adminKey |-> c.adminKey, prefix |-> c.prefix,
   pull |-> c.pull, ingress |-> c.ingress, path |-> c.path, fallback |-> c.fallback,
   tlsSecret |-> c.tlsSecret, clients |-> IF c.ingress THEN c.traefik ELSE c.direct,
   metalLb |-> c.metalLb, monitor |-> c.monitor, scrapers |-> c.scrapers,
   otlp |-> c.otlp, headers |-> c.headers, headersKey |-> c.headersKey,
   otlpEgress |-> c.otlpEgress, otlpPorts |-> c.otlpPorts, persistence |-> c.persistence]

\* The profile of the topology decides on Sentinel.
renderManagedRedis(c) ==
  IF c.mode # "managed" THEN None
  ELSE [sentinel |-> c.topology = "ha", storageClass |-> c.storageClass, pulls |-> c.pulls,
        secret |-> c.secret, adminKey |-> c.adminKey, userKey |-> c.userKey, prefix |-> c.prefix]

buildPlan(c) == [values |-> renderValues(c), managedRedis |-> renderManagedRedis(c)]

\* A rollback plans what the backup holds when it holds a gateway.
useCapturedDeploymentValues(plan, s) ==
  [plan EXCEPT !.values = s.gateway, !.managedRedis = s.redis]

\* Mutant: a captured Redis is not taken over.
configurationForValues(c, plan) ==
  LET v == plan.values IN
  [c EXCEPT !.pull = v.pull, !.mode = v.mode, !.tls = v.tls, !.secret = v.secret,
            !.userKey = v.userKey, !.adminKey = v.adminKey, !.ingress = v.ingress,
            !.tlsSecret = v.tlsSecret, !.monitor = v.monitor, !.otlp = v.otlp,
            !.headers = v.headers, !.headersKey = v.headersKey, !.metalLb = v.metalLb]

\* The configuration a plan answers to.  The fields it does not name keep
\* what the file says today.
configurationForPlan(c, plan) ==
  LET v == plan.values
      r == plan.managedRedis IN
  [c EXCEPT !.pull = v.pull, !.mode = v.mode, !.tls = v.tls, !.secret = v.secret,
            !.userKey = v.userKey, !.adminKey = v.adminKey, !.ingress = v.ingress,
            !.tlsSecret = v.tlsSecret, !.monitor = v.monitor, !.otlp = v.otlp,
            !.headers = v.headers, !.headersKey = v.headersKey, !.metalLb = v.metalLb,
            !.traefik = IF v.clients = "none" THEN @ ELSE v.clients,
            !.pulls = IF r = None THEN @ ELSE r.pulls,
            !.storageClass = IF r = None THEN @ ELSE r.storageClass]

If(condition, references) == IF condition THEN references ELSE {}

\* The objects assertTarget looks for in the cluster, for the configuration c.
assertTarget(c) ==
  {<<"key", c.secret, c.userKey>>}
  \cup If(c.mode = "managed", {<<"key", c.secret, c.adminKey>>, <<"storageclass", c.storageClass>>}
                              \cup {<<"secret", p>> : p \in c.pulls})
  \cup If(c.ingress, {<<"namespace", c.traefik>>, <<"namespace", c.metalLb>>, <<"secret", c.tlsSecret>>})
  \cup If(c.monitor, {<<"crd", "servicemonitors">>})
  \cup If(c.headers # "none", {<<"key", c.headers, c.headersKey>>})
  \cup If(c.topology = "ha", {<<"zones", "three">>})
  \cup If(c.pull # "none", {<<"secret", c.pull>>})

----------------------------------------------------------------------------
Nothing == [gateway |-> None, redis |-> None, torn |-> FALSE]

Init ==
  /\ config \in {Managed, External}
  /\ cluster = Nothing /\ snapshots = {}
  /\ put = Nothing /\ checked = {}
  /\ edits = 0 /\ runs = 0

\* An operator changes one field of the file.
Edit ==
  /\ edits < MaxEdits /\ edits' = edits + 1
  /\ \E f \in DOMAIN Settings : \E v \in Settings[f] \ {config[f]} :
       config' = [config EXCEPT ![f] = v]
  /\ put' = Nothing /\ checked' = {}
  /\ UNCHANGED <<cluster, snapshots, runs>>

\* loadContract refuses an invalid file; saveState keeps what is installed.
Begin ==
  /\ runs < MaxRuns /\ runs' = runs + 1
  /\ validateConfiguration(config)
  /\ snapshots' = snapshots \cup {cluster}
  /\ UNCHANGED <<config, edits>>

\* installedReleaseState
installedMode == IF cluster.gateway # None THEN cluster.gateway.mode
                 ELSE IF cluster.redis # None THEN "managed" ELSE None

\* A backup, and any other invocation that fails before it changes anything.
Backup ==
  /\ Begin
  /\ put' = Nothing /\ checked' = {}
  /\ UNCHANGED cluster

\* install, update and recover: Redis, when it is managed, then the gateway.
Apply ==
  LET plan == buildPlan(config)
      new == [gateway |-> plan.values, redis |-> plan.managedRedis, torn |-> FALSE] IN
  /\ Begin
  /\ installedMode \in {None, config.mode}
  /\ checked' = assertTarget(config)
  /\ \/ cluster' = new /\ put' = new
     \/ /\ config.mode = "managed"
        /\ cluster' = [cluster EXCEPT !.redis = new.redis, !.torn = TRUE]
        /\ put' = [new EXCEPT !.gateway = None]

\* The topology and the Redis mode of the backup replace those of the file.
\* Rendering an external plan from a file without an endpoint throws.
Rollback ==
  \E s \in snapshots :
    LET c == IF s.gateway = None THEN config
             ELSE [config EXCEPT !.topology = s.gateway.topology, !.mode = s.gateway.mode]
        today == buildPlan(c)
        plan == IF s.gateway = None THEN today ELSE useCapturedDeploymentValues(today, s) IN
    /\ Begin
    /\ s.gateway # None => /\ c.topology = "ha" => c.domains >= 3
                           /\ installedMode \in {None, c.mode}
                           /\ c.mode = "external" => c.endpoint # 0
    /\ checked' = assertTarget(configurationForPlan(c, plan))
    /\ \/ cluster' = s /\ put' = s
       \/ /\ cluster' = [cluster EXCEPT !.redis = s.redis, !.torn = TRUE]
          /\ put' = [s EXCEPT !.gateway = None]

\* teardown: the gateway, then Redis.
Teardown ==
  /\ Begin
  /\ cluster' \in {Nothing, [cluster EXCEPT !.gateway = None, !.torn = @ \/ cluster.redis # None]}
  /\ put' = Nothing /\ checked' = {}

Done == runs = MaxRuns /\ UNCHANGED vars

Next == Edit \/ Backup \/ Apply \/ Rollback \/ Teardown \/ Done

Spec == Init /\ [][Next]_vars

----------------------------------------------------------------------------
\* What the chart's templates refer to, given the gateway's values.
PersistenceReferences(v) ==
  If(v.persistence # "off", {<<"key", "database", "connection">>})
  \cup If(v.persistence = "api", {<<"key", "worker", "token">>})
  \cup If(v.persistence = "sqlite", {<<"claim", "database">>})

GatewayReferences(v) ==
  {<<"key", v.secret, v.userKey>>}
  \cup If(v.mode = "managed" /\ v.topology = "ha", {<<"key", v.secret, v.adminKey>>})
  \cup If(v.ingress, {<<"namespace", v.clients>>, <<"secret", v.tlsSecret>>})
  \cup If(v.monitor, {<<"crd", "servicemonitors">>})
  \cup If(v.otlp # 0 /\ v.headers # "none", {<<"key", v.headers, v.headersKey>>})
  \cup If(v.topology = "ha", {<<"zones", "three">>})
  \cup If(v.pull # "none", {<<"secret", v.pull>>})
  \cup PersistenceReferences(v)

RedisReferences(r) ==
  {<<"key", r.secret, r.adminKey>>, <<"key", r.secret, r.userKey>>, <<"storageclass", r.storageClass>>}
  \cup {<<"secret", p>> : p \in r.pulls}

\* The gateway's credentials and prefix are those the access list of Redis
\* grants, it looks for Sentinel when there is one, and every peer it has is
\* one the network policy lets through.
Fit(v, r) ==
  /\ IF v.mode = "external" THEN v.externalEgress /\ v.port # 0
     ELSE /\ r # None /\ ~v.tls
          /\ r.secret = v.secret /\ r.userKey = v.userKey /\ r.prefix = v.prefix
          /\ r.adminKey = v.adminKey /\ r.adminKey # v.userKey
          /\ r.sentinel = (v.topology = "ha")
  /\ v.clients # "none"
  /\ v.monitor => v.scrapers
  /\ v.otlp # 0 => v.otlpEgress /\ v.otlp \in v.otlpPorts

(***************************************************************************)
(* Whatever the file says by now, the objects the releases refer to were   *)
(* looked for in the cluster by the invocation that put them there, also   *)
(* when it restored a backup of an older file; and unless an invocation    *)
(* stopped between Redis and the gateway, the installed gateway and the    *)
(* installed Redis fit together (realtime-bootstrap.mjs:532-552, 645-665). *)
(* Never looked for are the connection Secret, the worker token and the    *)
(* claim of the persistence service (assertTarget, 140-189), and, after a  *)
(* stop between the two, the Redis of a backup.                            *)
(***************************************************************************)
PlanIsGrounded ==
  /\ put.gateway # None =>
       GatewayReferences(put.gateway) \ PersistenceReferences(put.gateway) \subseteq checked
  /\ put.redis # None /\ ~put.torn => RedisReferences(put.redis) \subseteq checked
  /\ cluster.gateway # None /\ ~cluster.torn => Fit(cluster.gateway, cluster.redis)

=============================================================================
