------------------------------- MODULE CiRepair -------------------------------
(***************************************************************************)
(* The CI of one pull request: which jobs a change needs and the gate that *)
(* requires them (scripts/ci-impact.mjs), and the workflow that asks for a *)
(* repair when the gate fails (scripts/ci-failure-autofix.cjs).  Commits,  *)
(* re-runs and comments arrive between any two calls of the repair script. *)
(***************************************************************************)
EXTENDS Naturals, Sequences, FiniteSets

CONSTANTS PathClasses, MaxCommits, MaxRuns, MaxAttempts, None

\* Jobs that the selection always treats alike stand for one another: "bootstrap"
\* for the two bootstrap jobs, "adapter" for one example's own job and "adapters"
\* for the others.
Jobs == {"helm", "bootstrap", "build", "review", "adapter", "adapters", "full-circle"}

VARIABLES
  head,       \* the newest commit of the branch
  open,       \* the pull request is open
  paths,      \* per commit, the classes of paths the branch changes
  ci,         \* per commit, the latest run of the CI workflow: its gate, and whether a
              \* failed one saw a job cancelled
  waiting,    \* the commit whose failed run waits for the repair workflow, or None
  repair,     \* the repair script
  comments,   \* the comments of the pull request that carry the marker
  runs        \* runs so far

vars == <<head, open, paths, ci, waiting, repair, comments, runs>>

Commits == 1 .. MaxCommits
Outcomes == {"success", "failure", "cancelled"}
NotRun == [gate |-> "none", cancelled |-> FALSE]
Off == [pc |-> "off", sha |-> 0, attempts |-> 0, cancelled |-> FALSE]

Init == /\ head = 1 /\ open = TRUE /\ \E p \in PathClasses : paths = [c \in Commits |-> {p}]
        /\ ci = [c \in Commits |-> NotRun] /\ waiting = None /\ repair = Off
        /\ comments = <<>> /\ runs = 0

\* The jobs one changed path needs.  A "lock" path is a dependency file of an
\* otherwise unaffected place; an unknown path needs every job.
JobsOf(path) ==
  CASE path \in {"workflow", "unknown"} -> Jobs
    [] path = "source" -> {"build", "adapter", "adapters", "full-circle"}
    [] path = "deploy" -> {"helm", "bootstrap", "build", "full-circle"}
    [] path = "observability" -> {"helm", "build"}
    [] path = "bootstrap-test" -> {"helm", "bootstrap"}
    [] path = "test" -> {"build"}
    [] path = "example" -> {"adapter", "build"}
    [] path = "lock" -> {"review"}
    [] path = "docs" -> {}

selectJobs(changed) == UNION {JobsOf(p) : p \in changed}

\* Every job has exactly the result its selection calls for.
checkResults(selected, results) ==
  \A j \in Jobs : results[j] = IF j \in selected THEN "success" ELSE "skipped"

\* A commit by the author, the agent or the branch synchronisation.  The diff is
\* against the base, so the branch keeps its changed paths.
Commit(p) ==
  /\ head < MaxCommits /\ head' = head + 1
  /\ paths' = [c \in Commits |-> IF c > head THEN paths[head] \cup {p} ELSE paths[c]]
  /\ UNCHANGED <<open, ci, waiting, repair, comments, runs>>

\* A run of the CI workflow completes, the first of a commit or a re-run.  If
\* the comparison of the commits fails, every job is selected.  A failed gate
\* queues the repair workflow: one run of it may wait, and a newer one takes its
\* place (external: GitHub's concurrency group).  One job at most fails: the gate
\* and the repair ask whether any did.
CiCompletes(c) ==
  /\ c <= head /\ runs < MaxRuns /\ runs' = runs + 1
  /\ \E selected \in {selectJobs(paths[c]), Jobs}, bad \in Jobs, how \in Outcomes :
       \E results \in {[j \in Jobs |-> IF j \notin selected THEN "skipped"
                                       ELSE IF j = bad THEN how ELSE "success"]} :
         IF checkResults(selected, results)
         THEN ci' = [ci EXCEPT ![c] = [gate |-> "success", cancelled |-> FALSE]] /\ UNCHANGED waiting
         ELSE /\ ci' = [ci EXCEPT ![c] = [gate |-> "failure", cancelled |-> results[bad] = "cancelled"]]
              /\ waiting' = c
  /\ UNCHANGED <<head, open, paths, repair, comments>>

Close == /\ open /\ open' = FALSE
         /\ UNCHANGED <<head, paths, ci, waiting, repair, comments, runs>>

\* Someone outside the team quotes a request, marker included.
Quoted(i) == /\ i \in DOMAIN comments /\ comments[i].trusted
             /\ \A k \in DOMAIN comments : comments[k].trusted
             /\ comments' = Append(comments, [comments[i] EXCEPT !.trusted = FALSE])
             /\ UNCHANGED <<head, open, paths, ci, waiting, repair, runs>>

\* The script starts: the jobs of the latest attempt, then the pull request.
RepairStarts ==
  /\ repair.pc = "off" /\ waiting # None /\ waiting' = None
  /\ repair' = IF ci[waiting].gate = "failure" /\ open /\ head = waiting
               THEN [pc |-> "comments", sha |-> waiting, attempts |-> 0,
                     cancelled |-> ci[waiting].cancelled] ELSE Off
  /\ UNCHANGED <<head, open, paths, ci, comments, runs>>

Markers == {i \in DOMAIN comments : comments[i].trusted}
copilotAttempts == Cardinality({i \in Markers : comments[i].kind = "copilot"})
\* Mutant: forgets requests for input.
handledByAgent(c) ==
  \E i \in Markers : comments[i].sha = c /\ comments[i].kind = "copilot"

handledSha(c) == \E i \in Markers : comments[i].sha = c

ReadsComments ==
  /\ repair.pc = "comments"
  /\ repair' = IF handledSha(repair.sha) THEN Off
               ELSE [repair EXCEPT !.pc = "analyze", !.attempts = copilotAttempts]
  /\ UNCHANGED <<head, open, paths, ci, waiting, comments, runs>>

\* Whether a failed job needs input: its conclusion, its log, or a log that
\* cannot be read.  A gate that failed on nothing else is judged by its own log.
Blocked == {repair.cancelled, TRUE}

Post(kind) == comments' = Append(comments, [kind |-> kind, sha |-> repair.sha, trusted |-> TRUE])

\* The verdict: input is asked for (a comment of the script itself), or the
\* workflow's next step is told to start the agent.  Posting may fail.
Decides(tokenConfigured) ==
  /\ repair.pc = "analyze"
  /\ \E blocked \in Blocked :
       IF blocked \/ repair.attempts >= MaxAttempts \/ ~tokenConfigured
       THEN repair' = Off /\ (Post("input") \/ UNCHANGED comments)
       ELSE repair' = [repair EXCEPT !.pc = "dispatch"] /\ UNCHANGED comments
  /\ UNCHANGED <<head, open, paths, ci, waiting, runs>>

Dispatches == /\ repair.pc = "dispatch" /\ repair' = Off
              /\ Post("copilot") \/ UNCHANGED comments
              /\ UNCHANGED <<head, open, paths, ci, waiting, runs>>

Next == \/ \E p \in PathClasses : Commit(p)
        \/ \E c \in Commits : CiCompletes(c)
        \/ \E i \in DOMAIN comments : Quoted(i)
        \/ \E t \in BOOLEAN : Decides(t)
        \/ Close \/ RepairStarts \/ ReadsComments \/ Dispatches

Spec == Init /\ [][Next]_vars
-----------------------------------------------------------------------------
\* Repairs stay bounded (ci-failure-autofix.cjs:157): a commit is answered at
\* most once, by a repair or by a request for input, and a pull request never
\* gets more than the configured number of repairs, although runs are repeated,
\* the branch moves while the script works, and its comment may fail.
RepairsAreBounded ==
  /\ \A i, k \in Markers : comments[i].sha = comments[k].sha => i = k
  /\ copilotAttempts <= MaxAttempts
=============================================================================
