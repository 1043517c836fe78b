---------------------------- MODULE MCOperations ----------------------------
(***************************************************************************)
(* One instance of each of the programs an operator, a browser session or  *)
(* CI runs.  They share no state, so a behaviour is a behaviour of the one *)
(* program that part names, and the programs take turns at the variables.  *)
(***************************************************************************)
EXTENDS Naturals, TLC

CONSTANTS None, NoFile, Gone, b1, b2, p1, p2, p3, p4, r1, r2, r3

VARIABLES part, s1, s2, s3, s4, s5, s6, s7, s8

vars == <<part, s1, s2, s3, s4, s5, s6, s7, s8>>

Lock == INSTANCE BootstrapLock WITH
  Invocations <- 1 .. 3, Hosts <- {"h1", "h2"},
  host <- s1, pc <- s2, path <- s3, owner <- s4, aged <- s5, dirAged <- s6

Layout == INSTANCE BootstrapLayout WITH
  Artefacts <- {"a1", "a2"}, MaxRuns <- 2, MaxContents <- 3,
  root <- s1, env <- s2, manifests <- s3, op <- s4, contents <- s5

Lifecycle == INSTANCE BootstrapLifecycle WITH
  Invocations <- 1 .. 3,
  Actions <- {"install", "recover", "rollback", "teardown", "validate", "backup", "plan"},
  run <- s1, naming <- s2, target <- s3, cluster <- s4, backup <- s5, chart <- s6, state <- s7

Plan == INSTANCE BootstrapPlan WITH
  MaxEdits <- 2, MaxRuns <- 3,
  config <- s1, cluster <- s2, snapshots <- s3, put <- s4, checked <- s5, edits <- s6, runs <- s7

Session == INSTANCE NodeSession WITH
  Requests <- {r1, r2, r3},
  records <- s1, sessions <- s2, jar <- s3, req <- s4, named <- s5, overtaken <- s6

Acceptance == INSTANCE FullCircle WITH
  Actions <- {"bootstrap", "validate", "run", "cleanup"}, External <- FALSE, MaxInvocations <- 3,
  run <- s1, redis <- s2, fixtures <- s3, built <- s4, evidence <- s5, stray <- s6, strayed <- s7,
  count <- s8

Sync == INSTANCE BranchSync WITH
  Branches <- {b1, b2}, Pulls <- {p1, p2, p3, p4}, Forks <- {p3},
  HeadOf <- p1 :> b1 @@ p2 :> b1 @@ p3 :> b1 @@ p4 :> b2, MaxCommits <- 2,
  main <- s1, branch <- s2, open <- s3, sync <- s4, result <- s5, rewritten <- s6, fresh <- s7

Repair == INSTANCE CiRepair WITH
  PathClasses <- {"workflow", "unknown", "source", "deploy", "observability", "bootstrap-test",
                  "test", "example", "lock", "docs"}, MaxCommits <- 2, MaxRuns <- 3,
  MaxAttempts <- 1,
  head <- s1, open <- s2, paths <- s3, ci <- s4, waiting <- s5, repair <- s6, comments <- s7,
  runs <- s8

Init ==
  \/ part = "lock" /\ Lock!Init /\ s7 = 0 /\ s8 = 0
  \/ part = "layout" /\ Layout!Init /\ s6 = 0 /\ s7 = 0 /\ s8 = 0
  \/ part = "lifecycle" /\ Lifecycle!Init /\ s8 = 0
  \/ part = "plan" /\ Plan!Init /\ s8 = 0
  \/ part = "session" /\ Session!Init /\ s7 = 0 /\ s8 = 0
  \/ part = "acceptance" /\ Acceptance!Init
  \/ part = "sync" /\ Sync!Init /\ s8 = 0
  \/ part = "repair" /\ Repair!Init

Next ==
  \/ part = "lock" /\ Lock!Next /\ UNCHANGED <<part, s7, s8>>
  \/ part = "layout" /\ Layout!Next /\ UNCHANGED <<part, s6, s7, s8>>
  \/ part = "lifecycle" /\ Lifecycle!Next /\ UNCHANGED <<part, s8>>
  \/ part = "plan" /\ Plan!Next /\ UNCHANGED <<part, s8>>
  \/ part = "session" /\ Session!Next /\ UNCHANGED <<part, s7, s8>>
  \/ part = "acceptance" /\ Acceptance!Next /\ UNCHANGED part
  \/ part = "sync" /\ Sync!Next /\ UNCHANGED <<part, s8>>
  \/ part = "repair" /\ Repair!Next /\ UNCHANGED part

Spec == Init /\ [][Next]_vars

-----------------------------------------------------------------------------
\* While nobody has crashed and no two hours have passed, one bootstrap
\* invocation at most holds the target lock (realtime-bootstrap.mjs:410-447;
\* BootstrapLock).
ExclusiveWithoutTakeover == part = "lock" => Lock!ExclusiveWithoutTakeover

\* An invocation that ended normally has left no lock of its own
\* (realtime-bootstrap.mjs:449-455; BootstrapLock).
NothingLeftBehind == part = "lock" => Lock!NothingLeftBehind

\* Every file that organizing an environment moved away can be put back from
\* what is on disk, whichever step was the last to run
\* (bootstrap-environment.mjs:142-247; BootstrapLayout).
DisplacedIsRestorable == part = "layout" => Layout!DisplacedIsRestorable

\* Whoever changes the cluster holds a complete backup of every release Helm
\* lists and keeps the listed topology or was told to convert it
\* (realtime-bootstrap.mjs:629-718; BootstrapLifecycle).
ChangeIsGuarded == part = "lifecycle" => Lifecycle!ChangeIsGuarded

\* A lifecycle action that reports success has left the releases and the
\* state.json it promises (realtime-bootstrap.mjs:493-530, 729-739;
\* BootstrapLifecycle).
CompletedActionIsTrue == part = "lifecycle" => Lifecycle!CompletedActionIsTrue

\* What an invocation puts in the cluster refers, but for the persistence
\* service, only to objects it had looked for, and the gateway and the Redis
\* installed by completed invocations fit (realtime-bootstrap.mjs:532-552;
\* BootstrapPlan).
PlanIsGrounded == part = "plan" => Plan!PlanIsGrounded

\* A login record the gateway accepts is named by a stored session, unless a
\* later login replaced it or an overlapping request dropped it (app.mjs:167;
\* NodeSession).
LiveLoginIsReachable == part = "session" => Session!LiveLoginIsReachable

\* The evidence file agrees with how the last invocation ended
\* (full-circle.mjs:287; FullCircle).
EvidenceIsTrue == part = "acceptance" => Acceptance!EvidenceIsTrue

\* When a synchronisation ends, no branch of an open pull request was passed
\* over (sync-open-pr-branches.cjs:58-93; BranchSync).
NoBranchPassedOver == part = "sync" => Sync!NoBranchPassedOver

\* A commit is answered at most once and a pull request gets no more repairs
\* than configured (ci-failure-autofix.cjs:157; CiRepair).
RepairsAreBounded == part = "repair" => Repair!RepairsAreBounded

=============================================================================
