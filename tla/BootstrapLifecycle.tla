------------------------- MODULE BootstrapLifecycle -------------------------
(***************************************************************************)
(* scripts/realtime-bootstrap.mjs: what one invocation does to the cluster *)
(* (the Helm releases of the gateway and of managed Redis), to the backups *)
(* and to state.json, with scripts/lib/bootstrap-contract.mjs (the plan)   *)
(* and scripts/lib/managed-redis-chart.mjs (the Redis chart).  Commands    *)
(* fail, processes crash, and later invocations go on from what is left.   *)
(* A Helm command that runs into its timeout is killed (command, 114-118)  *)
(* and may leave its release pending.  The locks are taken as BootstrapLock describes, without  *)
(* the race shown there.  A child process is taken to die with its parent. *)
(***************************************************************************)
EXTENDS Naturals

CONSTANTS
  Invocations,   \* one lifecycle command each, numbered as they are started
  Actions,       \* the actions they may run
  None

VARIABLES
  run,       \* the control state and options of each invocation
  naming, target,   \* the holders of the two locks
  cluster,   \* the installed releases
  backup,    \* the backup directory each invocation made
  chart,     \* the chart directory of the target
  state      \* the topology in state.json

vars == <<run, naming, target, cluster, backup, chart, state>>

Topologies == {"ha", "non-ha"}
Modes == {"managed", "external"}
Applying == {"install", "update", "recover"}
Mutations == Applying \cup {"rollback", "teardown"}

Empty == [gateway |-> None, redis |-> None]

\* What helm list shows (targetReleaseListArguments gives no status): not a release
\* whose last operation was interrupted.
Pending(r) == r # None /\ r.pending
Listed(c) == [r \in DOMAIN c |-> IF Pending(c[r]) THEN None ELSE c[r]]

Init ==
  /\ run = [i \in Invocations |-> [pc |-> "start"]]
  /\ naming = None /\ target = None
  /\ cluster = Empty
  /\ backup = [i \in Invocations |-> None]
  /\ chart = [archive |-> "none", source |-> FALSE, directory |-> "none"]
  /\ state = None

Go(i, label) == run' = [run EXCEPT ![i].pc = label]
End(i, how) == run' = [run EXCEPT ![i] = [pc |-> how]]
At(i, label) == run[i].pc = label
Over(i) == run[i].pc \in {"ended", "crashed"}

\* A lock whose owner no longer runs is taken over.
Free(lock) == lock \in {None} \cup {i \in Invocations : Over(i)}

----------------------------------------------------------------------------
(* main, up to the plan *)

\* The command line and the configuration, then the naming lock.
Start(i) ==
  /\ At(i, "start") /\ \A j \in Invocations : j < i => ~At(j, "start")
  /\ \E action \in Actions, topology \in Topologies, mode \in Modes, confirm \in BOOLEAN :
       IF Free(naming)
         THEN /\ naming' = i
              /\ run' = [run EXCEPT ![i] =
                   [pc |-> "target", action |-> action, topology |-> topology, mode |-> mode,
                    confirm |-> confirm, source |-> None, installed |-> None,
                    base |-> Empty, ok |-> FALSE]]
         ELSE UNCHANGED naming /\ End(i, "ended")
  /\ UNCHANGED <<target, cluster, backup, chart, state>>

\* The target lock, then the naming manifest.  When that write fails only
\* the naming lock is released; the other is stale once the process is gone.
AcquireTarget(i) ==
  /\ At(i, "target")
  /\ \/ /\ Free(target) /\ target' = i
        /\ run' = [run EXCEPT ![i].pc = "plan", ![i].base = cluster]
        /\ UNCHANGED naming
     \/ /\ target' = (IF Free(target) THEN i ELSE target)
        /\ naming' = None
        /\ End(i, "ended")
  /\ UNCHANGED <<cluster, backup, chart, state>>

TopologyOf(c) == IF c.gateway # None THEN c.gateway.topology
                 ELSE IF c.redis # None THEN c.redis.topology ELSE None

\* Mutant: a Redis release that an apply left alone is overlooked.
InstalledGateway == LET c == Listed(cluster)
                    IN IF c.gateway # None THEN c.gateway.topology ELSE None

\* installedReleaseState
InstalledTopology == TopologyOf(Listed(cluster))
InstalledMode == LET c == Listed(cluster)
                 IN IF c.gateway # None THEN c.gateway.mode
                    ELSE IF c.redis # None THEN "managed" ELSE None

\* readRollbackSnapshot needs plan.json, the file saveState writes last.
Snapshots == {j \in Invocations : backup[j] # None /\ backup[j].complete}
Taken(i) == backup[run[i].source].taken

Fail(i) == run' = [run EXCEPT ![i].pc = "release", ![i].ok = FALSE]

\* The plan for the options o, with the refusals that follow it.
Refused(o, previous) ==
  \/ /\ o.action \in Applying \/ (o.action = "rollback" /\ backup[o.source].taken.gateway # None)
     /\ o.installed # None /\ o.installed # o.mode
  \/ previous # None /\ previous # o.topology /\ ~o.confirm

AfterPlan(o) ==
  CASE o.action = "plan" -> "release"
    [] o.action = "validate" /\ o.mode = "managed" -> "chart"
    [] o.action = "validate" -> "check"
    [] OTHER -> "check"

Plan(i) ==
  /\ At(i, "plan")
  /\ \E source \in (IF run[i].action = "rollback" THEN Snapshots ELSE {None}) :
       LET gateway == IF source = None THEN None ELSE backup[source].taken.gateway
           aware == run[i].action \in Mutations
           o == [run[i] EXCEPT !.source = source,
                   !.installed = IF aware THEN InstalledMode ELSE None,
                   !.topology = IF gateway = None THEN @ ELSE gateway.topology,
                   !.mode = IF gateway = None THEN @ ELSE gateway.mode]
           previous == IF aware THEN InstalledTopology ELSE state
       IN run' = [run EXCEPT ![i] =
                    IF Refused(o, previous) THEN [o EXCEPT !.pc = "release"]
                    ELSE [o EXCEPT !.pc = AfterPlan(o), !.ok = o.action = "plan"]]
  /\ UNCHANGED <<naming, target, cluster, backup, chart, state>>

\* assertTarget, assertTeardownTarget, assertBackupTarget: checks that only read.
AssertTarget(i) ==
  /\ At(i, "check")
  /\ IF run[i].action = "validate"
       THEN run' = [run EXCEPT ![i].pc = "release", ![i].ok = TRUE]
       ELSE Go(i, "save")
  /\ UNCHANGED <<naming, target, cluster, backup, chart, state>>

----------------------------------------------------------------------------
(* saveState: the inventory and the values, then plan.json. *)

Cached == chart.archive = "good" /\ chart.source

BeginBackup(i) ==
  /\ At(i, "save")
  /\ LET taken == Listed(cluster) IN
     /\ taken.redis # None /\ ~Cached => run[i].action = "rollback"
     /\ backup' = [backup EXCEPT ![i] =
                     [taken |-> taken, complete |-> FALSE,
                      archive |-> taken.redis # None /\ Cached]]
  /\ Go(i, "saving")
  /\ UNCHANGED <<naming, target, cluster, chart, state>>

FirstChange(o) ==
  CASE o.action \in Applying -> IF o.mode = "managed" THEN "chart" ELSE "gateway"
    [] o.action = "rollback" -> "rollbackRedis"
    [] o.action = "teardown" -> "teardownGateway"
    [] OTHER -> "record"

FinishBackup(i) ==
  /\ At(i, "saving")
  /\ backup' = [backup EXCEPT ![i].complete = TRUE]
  /\ Go(i, FirstChange(run[i]))
  /\ UNCHANGED <<naming, target, cluster, chart, state>>

\* A failed capture removes its directory.
BackupFails(i) ==
  /\ run[i].pc \in {"save", "saving"}
  /\ backup' = [backup EXCEPT ![i] = None]
  /\ Fail(i)
  /\ UNCHANGED <<naming, target, cluster, chart, state>>

----------------------------------------------------------------------------
(* prepareRedisChart and prepareManagedRedisChart *)

\* The old chart goes; the archive is copied from the backup, found in the
\* cache and checked there, or pulled.
PrepareChart(i) ==
  /\ At(i, "chart")
  /\ LET given == run[i].action = "rollback" /\ backup[run[i].source].archive
     IN IF Cached /\ ~given
          THEN chart' = [chart EXCEPT !.directory = "none"] /\ Go(i, "extract")
          ELSE chart' = [chart EXCEPT !.directory = "none", !.archive = "partial"]
               /\ Go(i, IF given THEN "copy" ELSE "pull")
  /\ UNCHANGED <<naming, target, cluster, backup, state>>

\* The archive is complete; a pulled one that fails the checksum is removed.
ArchiveArrives(i) ==
  /\ run[i].pc \in {"copy", "pull"}
  /\ \/ chart' = [chart EXCEPT !.archive = "good"] /\ Go(i, "extract")
     \/ At(i, "pull") /\ chart' = [chart EXCEPT !.archive = "none"] /\ Fail(i)
  /\ UNCHANGED <<naming, target, cluster, backup, state>>

\* tar, the patch of the Sentinel service, and chart-source.json.
ExtractChart(i) ==
  /\ At(i, "extract")
  /\ chart' = [chart EXCEPT !.directory = "patched", !.source = TRUE]
  /\ Go(i, CASE run[i].action = "rollback" -> "restoreRedis"
             [] run[i].action = "validate" -> "check"
             [] OTHER -> "redis")
  /\ UNCHANGED <<naming, target, cluster, backup, state>>

----------------------------------------------------------------------------
(* Helm.  A command that fails was rolled back by --atomic, or not; one that is *)
(* killed at its timeout may leave the release pending, with a removed release  *)
(* still there.                                                                 *)

Interrupted(old, new) == {[r EXCEPT !.pending = TRUE] : r \in {old, new} \ {None}}

\* helm uninstall and helm rollback, which take a pending release too.
Change(i, release, value, next) ==
  /\ \/ cluster' = [cluster EXCEPT ![release] = value] /\ Go(i, next)
     \/ /\ \E left \in {cluster[release], value} \cup Interrupted(cluster[release], value) :
             cluster' = [cluster EXCEPT ![release] = left]
        /\ Fail(i)
  /\ UNCHANGED <<naming, target, backup, chart, state>>

\* helm upgrade --install refuses a pending release.
Upgrade(i, release, value, next) ==
  \/ ~Pending(cluster[release]) /\ Change(i, release, value, next)
  \/ /\ Pending(cluster[release]) /\ Fail(i)
     /\ UNCHANGED <<naming, target, cluster, backup, chart, state>>

\* apply
ApplyRedis(i) ==
  /\ At(i, "redis") /\ chart.directory = "patched"
  /\ Upgrade(i, "redis", [topology |-> run[i].topology, by |-> i, pending |-> FALSE],
             IF run[i].action = "recover" THEN "restart" ELSE "gateway")

ApplyGateway(i) ==
  /\ At(i, "gateway")
  /\ Upgrade(i, "gateway", [topology |-> run[i].topology, mode |-> run[i].mode, by |-> i,
                            pending |-> FALSE], "rollout")

\* The rollouts of Redis (recover) and of the gateway are awaited.
Rollout(i) ==
  /\ run[i].pc \in {"restart", "rollout"}
  /\ Go(i, IF At(i, "restart") THEN "gateway" ELSE "record")
  /\ UNCHANGED <<naming, target, cluster, backup, chart, state>>

\* rollback: Redis first, then the gateway; what the backup lacks is removed.
RollbackRedis(i) ==
  /\ At(i, "rollbackRedis")
  /\ IF Taken(i).redis = None THEN Change(i, "redis", None, "rollbackGateway")
     ELSE /\ backup[run[i].source].archive \/ Taken(i).gateway # None \/ run[i].mode = "managed"
          /\ Go(i, "chart")
          /\ UNCHANGED <<naming, target, cluster, backup, chart, state>>

RestoreRedis(i) ==
  /\ At(i, "restoreRedis") /\ chart.directory = "patched"
  /\ Upgrade(i, "redis", Taken(i).redis, "rollbackGateway")

RollbackGateway(i) ==
  /\ At(i, "rollbackGateway")
  /\ Change(i, "gateway", Taken(i).gateway, "record")

TeardownGateway(i) ==
  /\ At(i, "teardownGateway")
  /\ Change(i, "gateway", None,
            IF "managed" \in {run[i].mode, run[i].installed} THEN "teardownRedis" ELSE "record")

TeardownRedis(i) ==
  /\ At(i, "teardownRedis")
  /\ Change(i, "redis", None, "record")

----------------------------------------------------------------------------
\* Mutant: the topology is recorded whatever was left.
RecordAlways(i) ==
  /\ At(i, "record")
  /\ state' = IF run[i].action = "backup" THEN state ELSE run[i].topology
  /\ run' = [run EXCEPT ![i].pc = "release", ![i].ok = TRUE]
  /\ UNCHANGED <<naming, target, cluster, backup, chart>>

\* state.json is removed or written, and the action has completed.
Record(i) ==
  /\ At(i, "record")
  /\ state' = CASE run[i].action = "backup" -> state
                [] run[i].action = "teardown" -> None
                [] run[i].action = "rollback" /\ Taken(i).gateway = None -> None
                [] OTHER -> run[i].topology
  /\ run' = [run EXCEPT ![i].pc = "release", ![i].ok = TRUE]
  /\ UNCHANGED <<naming, target, cluster, backup, chart>>

\* Any other file operation or command throws.
StepFails(i) ==
  /\ run[i].pc \in {"plan", "check", "chart", "copy", "pull", "extract", "restart", "rollout",
                    "rollbackRedis", "record"}
  /\ Fail(i)
  /\ UNCHANGED <<naming, target, cluster, backup, chart, state>>

\* The finally blocks: the target lock, then the naming lock.
Release(i) ==
  /\ At(i, "release")
  /\ IF target = i THEN target' = None /\ UNCHANGED <<naming, run>>
     ELSE target' = target /\ naming' = (IF naming = i THEN None ELSE naming) /\ End(i, "ended")
  /\ UNCHANGED <<cluster, backup, chart, state>>

Crash(i) ==
  /\ ~At(i, "start") /\ ~Over(i)
  /\ End(i, "crashed")
  /\ UNCHANGED <<naming, target, cluster, backup, chart, state>>

Done == (\A i \in Invocations : Over(i)) /\ UNCHANGED vars

Next == \/ \E i \in Invocations :
             \/ Start(i) \/ AcquireTarget(i) \/ Plan(i) \/ AssertTarget(i)
             \/ BeginBackup(i) \/ FinishBackup(i) \/ BackupFails(i)
             \/ PrepareChart(i) \/ ArchiveArrives(i) \/ ExtractChart(i)
             \/ ApplyRedis(i) \/ ApplyGateway(i) \/ Rollout(i)
             \/ RollbackRedis(i) \/ RestoreRedis(i) \/ RollbackGateway(i)
             \/ TeardownGateway(i) \/ TeardownRedis(i)
             \/ Record(i) \/ StepFails(i) \/ Release(i) \/ Crash(i)
        \/ Done

Spec == Init /\ [][Next]_vars

----------------------------------------------------------------------------
Changing == {"redis", "gateway", "restart", "rollout", "rollbackRedis", "restoreRedis",
             "rollbackGateway", "teardownGateway", "teardownRedis"}

(***************************************************************************)
(* Whoever is about to change the cluster has a complete backup of every   *)
(* release Helm lists, exactly as it was when the target lock was taken,   *)
(* and keeps the topology listed then or was told to convert it, whatever  *)
(* crashed, failed or was refused before (realtime-bootstrap.mjs:629-718). *)
(* A release that an interrupted Helm left pending is not listed: no       *)
(* backup has it, and its topology is not looked at (137).                 *)
(***************************************************************************)
ChangeIsGuarded ==
  \A i \in Invocations : run[i].pc \in Changing =>
    LET listed == Listed(run[i].base) IN
    /\ backup[i] # None /\ backup[i].complete /\ backup[i].taken = listed
    /\ run[i].confirm \/ TopologyOf(listed) \in {None, run[i].topology}

\* The Redis a teardown with an external configuration does not see: one left
\* pending, or one beside a gateway that uses an external Redis (731).
Overlooked(c) == /\ c.redis # None
                 /\ c.redis.pending \/ (c.gateway # None /\ c.gateway.mode = "external")

(***************************************************************************)
(* An invocation that reports success has left what it promises, although  *)
(* earlier invocations may have stopped half way: state.json names the     *)
(* topology of the installed gateway, a rollback has restored both         *)
(* releases of its backup, pending ones included, and a teardown leaves no *)
(* gateway, and no Redis but one its configuration made it overlook        *)
(* (realtime-bootstrap.mjs:493-530, 729-739).                              *)
(***************************************************************************)
CompletedActionIsTrue ==
  \A i \in Invocations : At(i, "release") /\ run[i].ok =>
    /\ run[i].action \in Mutations =>
         /\ ~Pending(cluster.gateway)
         /\ state = IF cluster.gateway = None THEN None ELSE cluster.gateway.topology
    /\ run[i].action = "rollback" => cluster = Taken(i)
    /\ run[i].action = "teardown" =>
         /\ cluster.gateway = None
         /\ \/ cluster.redis = None
            \/ /\ run[i].mode = "external" /\ Overlooked(run[i].base)
               /\ cluster.redis = run[i].base.redis

=============================================================================
