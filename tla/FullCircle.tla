------------------------------ MODULE FullCircle ------------------------------
(***************************************************************************)
(* scripts/full-circle.mjs: the actions that build, run, validate and      *)
(* clean up the full-circle example.  An action is a fixed list of child   *)
(* processes; a child that exceeds its time is sent SIGTERM and the script *)
(* goes on without waiting for it to end.  Invocations follow one another; *)
(* an invocation may be killed anywhere.                                   *)
(***************************************************************************)
EXTENDS Naturals, Sequences

CONSTANTS Actions, External, MaxInvocations

VARIABLES
  run,        \* the invocation: its action, the steps left, whether it failed, its exit
  redis,      \* the compose project's Redis is up
  fixtures,   \* keys of the example are in Redis
  built,      \* the build steps whose output is on disk
  evidence,   \* the evidence directory: [exists, status of each action's file]
  stray,      \* children that were timed out and still run
  strayed,    \* ghost: one of them changed something since the invocation began
  count

vars == <<run, redis, fixtures, built, evidence, stray, strayed, count>>

Builds == {"sdk", "contracts", "example", "feed", "consumer"}
NoFiles == [a \in Actions |-> "none"]
NoRun == [action |-> "none", steps |-> <<>>, failed |-> FALSE, exit |-> "none"]

\* ensureDependencies and stopDependencies touch only a Redis of our own.
Up == IF External THEN <<"ping">> ELSE <<"up", "ping">>
Down == IF External THEN <<>> ELSE <<"down">>

\* The children of each action in order; "remove" deletes the evidence
\* directory, and "down" of a cleanup is in a finally block.
StepsOf(action) ==
  CASE action \in {"bootstrap", "update", "recover"} ->
         <<"install">> \o Up \o <<"sdk", "contracts", "example", "feed", "consumer">>
    [] action = "validate" -> <<"install">> \o Up \o <<"test">>
    [] action = "run" -> <<"install">> \o Up \o <<"app">>
    [] action \in {"cleanup", "rollback"} ->
         <<"install">> \o Up \o <<"fixtures", "remove">> \o Down

Init == /\ run = NoRun /\ redis = External /\ fixtures = FALSE /\ built = {}
        /\ evidence = [exists |-> FALSE, status |-> NoFiles]
        /\ stray = {} /\ strayed = FALSE /\ count = 0

\* A valid action that is neither "plan" nor a dry run makes the directory.
Start(action) ==
  /\ run.exit # "running" /\ count < MaxInvocations /\ count' = count + 1
  /\ run' = [action |-> action, steps |-> StepsOf(action), failed |-> FALSE,
             exit |-> "running"]
  /\ evidence' = [evidence EXCEPT !.exists = TRUE]
  /\ strayed' = (stray # {})
  /\ UNCHANGED <<redis, fixtures, built, stray>>

Running == run.exit = "running" /\ run.steps # <<>>
Step == Head(run.steps)

\* What a step changes when it does its work.  The compose project has no
\* volume: taking Redis down drops its keys.
Effect(step) ==
  /\ redis' = CASE step = "up" -> TRUE [] step = "down" -> FALSE [] OTHER -> redis
  /\ fixtures' = CASE step \in {"test", "app"} -> TRUE [] step \in {"fixtures", "down"} -> FALSE
                   [] OTHER -> fixtures
  /\ built' = built \cup ({step} \cap Builds)

\* Steps that need Redis fail without it, and a build step needs those before
\* it: the packages are packed with --no-build.
Works(step) ==
  /\ step \in {"ping", "test", "app", "fixtures"} => redis
  /\ step = "feed" => {"contracts", "example"} \subseteq built
  /\ step = "consumer" => "feed" \in built

\* What a step changes when it does not: building the feed begins with removing
\* the old feed and consumer.
Spoils(step) == /\ built' = IF step = "feed" THEN built \ {"feed", "consumer"} ELSE built
                /\ UNCHANGED <<redis, fixtures>>

\* The steps after a failed one: those of a cleanup's finally block, which
\* guards everything after the installation of the SDK's packages.
Finally(steps) == IF Head(steps) # "install" /\ \E i \in DOMAIN steps : steps[i] = "down" /\ i > 1
                  THEN <<"down">> ELSE <<>>

Succeeds ==
  /\ Running /\ Step # "remove" /\ Works(Step) /\ Effect(Step)
  /\ run' = [run EXCEPT !.steps = Tail(@)]
  /\ UNCHANGED <<evidence, stray, strayed, count>>

Failed == run' = [run EXCEPT !.steps = Finally(@), !.failed = TRUE]

\* A child exits with another code (also after a signal the script passed on),
\* with or without having done its work.
Fails ==
  /\ Running /\ Step # "remove" /\ Failed
  /\ \/ Works(Step) /\ Effect(Step)
     \/ Spoils(Step)
  /\ UNCHANGED <<evidence, stray, strayed, count>>

\* The timer: the application of "run" has none, and a late ping or install
\* changes nothing.
TimesOut ==
  /\ Running /\ Step \notin {"remove", "app", "ping", "install"} /\ Failed
  /\ Spoils(Step) /\ stray' = stray \cup {Step}
  /\ UNCHANGED <<evidence, strayed, count>>

\* A timed-out child ends, having done its work or not; one of the feed's
\* children packs one project only.
StrayEnds(step) ==
  /\ step \in stray /\ stray' = stray \ {step} /\ strayed' = TRUE
  /\ \/ step # "feed" /\ Works(step) /\ Effect(step)
     \/ UNCHANGED <<redis, fixtures, built>>
  /\ UNCHANGED <<run, evidence, count>>

\* The feed and the consumer live in the evidence directory.
RemoveEvidence ==
  /\ Running /\ Step = "remove"
  /\ \/ /\ evidence' = [exists |-> FALSE, status |-> NoFiles]
        /\ built' = built \ {"feed", "consumer"}
        /\ run' = [run EXCEPT !.steps = Tail(@)]
     \/ Failed /\ UNCHANGED <<evidence, built>>
  /\ UNCHANGED <<redis, fixtures, stray, strayed, count>>

\* Mutant: a failure writes no evidence.
EndsPassedOnly ==
  /\ run.exit = "running" /\ run.steps = <<>>
  /\ IF run.failed
     THEN run' = [run EXCEPT !.exit = "failed"] /\ UNCHANGED evidence
     ELSE /\ run' = [run EXCEPT !.exit = "passed"]
          /\ evidence' = [exists |-> TRUE,
                          status |-> [evidence.status EXCEPT ![run.action] = "passed"]]
  /\ UNCHANGED <<redis, fixtures, built, stray, strayed, count>>

\* The evidence file: a passing action makes the directory again, a failing
\* one does not, and then its write fails too.
Ends ==
  /\ run.exit = "running" /\ run.steps = <<>>
  /\ IF run.failed
     THEN /\ run' = [run EXCEPT !.exit = "failed"]
          /\ evidence' = IF evidence.exists
                         THEN [evidence EXCEPT !.status[run.action] = "failed"] ELSE evidence
     ELSE /\ run' = [run EXCEPT !.exit = "passed"]
          /\ evidence' = [exists |-> TRUE,
                          status |-> [evidence.status EXCEPT ![run.action] = "passed"]]
  /\ UNCHANGED <<redis, fixtures, built, stray, strayed, count>>

\* The script is killed; its child runs on.
Killed ==
  /\ run.exit = "running" /\ run' = [run EXCEPT !.exit = "killed"]
  /\ stray' = stray \cup (IF run.steps = <<>> THEN {}
                          ELSE {Step} \ {"remove", "app", "ping", "install"})
  /\ UNCHANGED <<redis, fixtures, built, evidence, strayed, count>>

Next == \/ \E action \in Actions : Start(action)
        \/ Succeeds \/ Fails \/ TimesOut \/ RemoveEvidence \/ Ends \/ Killed
        \/ \E step \in stray : StrayEnds(step)

Spec == Init /\ [][Next]_vars
-----------------------------------------------------------------------------
\* The evidence agrees with how the last invocation ended (full-circle.mjs:287):
\* a failed action never leaves a "passed" file of an earlier run behind, and a
\* passed one left what it promises, a build its outputs and a running Redis, a
\* cleanup neither Redis, fixtures nor other evidence, unless a child that an
\* earlier timeout or kill left running interfered.
EvidenceIsTrue ==
  /\ run.exit = "failed" => evidence.status[run.action] # "passed"
  /\ run.exit = "passed" =>
       /\ evidence.status[run.action] = "passed"
       /\ run.action \in {"cleanup", "rollback"} =>
            \A a \in Actions \ {run.action} : evidence.status[a] = "none"
       /\ strayed \/
            /\ run.action \in {"bootstrap", "update", "recover"} => built = Builds /\ redis
            /\ run.action \in {"cleanup", "rollback"} =>
                 ~fixtures /\ redis = External
=============================================================================
