------------------------------ MODULE BranchSync ------------------------------
(***************************************************************************)
(* scripts/sync-open-pr-branches.cjs: merges main into the branches of the *)
(* open pull requests.  A branch is the set of commits reachable from it.  *)
(* Authors push and rewrite, main moves and pull requests close between    *)
(* any two of the script's calls to GitHub and git.                        *)
(***************************************************************************)
EXTENDS Naturals, FiniteSets

CONSTANTS
  Branches,         \* branches of this repository other than main
  Pulls,            \* pull requests against main
  Forks,            \* those from forks
  HeadOf,           \* the name of a pull request's branch, [Pulls -> Branches]; a fork's
                    \* branch may have the name of one here, and two pull requests of
                    \* a list read page by page may name one branch
  Gone,             \* a branch that was deleted
  None, MaxCommits

VARIABLES
  main,             \* the commits of main
  branch,           \* per branch its commits, or Gone
  open,             \* the open pull requests
  sync,             \* the script: pc, its snapshot of main and of the list, the pull
                    \* requests left, the names done, the pull request it works on
                    \* and the head it fetched
  result,           \* its report per pull request
  rewritten,        \* branches whose author replaced commits since the run began
  fresh             \* commits made so far

vars == <<main, branch, open, sync, result, rewritten, fresh>>

Off == [pc |-> "off", main |-> {}, listed |-> {}, left |-> {}, processed |-> {},
        pr |-> None, head |-> {}]
NoReport == [p \in Pulls |-> "none"]

Init == /\ main = {0} /\ branch = [b \in Branches |-> {0}] /\ open = Pulls
        /\ sync = Off /\ result = NoReport /\ rewritten = {} /\ fresh = 0

\* The world: commits on main and on branches, and merged or closed pull requests.
\* Deleting a branch closes its pull requests.
MainMoves == /\ fresh < MaxCommits /\ fresh' = fresh + 1 /\ main' = main \cup {fresh'}
             /\ UNCHANGED <<branch, open, sync, result, rewritten>>
AuthorPushes(b) ==
  /\ fresh < MaxCommits /\ fresh' = fresh + 1 /\ branch[b] # Gone
  /\ branch' = [branch EXCEPT ![b] = @ \cup {fresh'}]
  /\ UNCHANGED <<main, open, sync, result, rewritten>>
AuthorRewrites(b) ==
  /\ fresh < MaxCommits /\ fresh' = fresh + 1 /\ branch[b] # Gone
  /\ branch' = [branch EXCEPT ![b] = {0, fresh'}]
  /\ rewritten' = rewritten \cup {b}
  /\ UNCHANGED <<main, open, sync, result>>
Closes(p) ==
  /\ p \in open /\ open' = open \ {p}
  /\ UNCHANGED <<main, branch, sync, result, rewritten, fresh>>
BranchDeleted(b) ==
  /\ branch[b] # Gone /\ branch' = [branch EXCEPT ![b] = Gone]
  /\ open' = {p \in open : p \in Forks \/ HeadOf[p] # b}
  /\ UNCHANGED <<main, sync, result, rewritten, fresh>>

\* Fetch main, list the open pull requests.  One run at a time (external: the
\* workflow's concurrency group).
Begin == /\ sync.pc \in {"off", "done"}
         /\ sync' = [Off EXCEPT !.pc = "next", !.main = main, !.listed = open, !.left = open]
         /\ result' = NoReport /\ rewritten' = {}
         /\ UNCHANGED <<main, branch, open, fresh>>

\* Mutant: the names are compared before the repositories.
TakePullByName(p) ==
  /\ sync.pc = "next" /\ p \in sync.left
  /\ IF HeadOf[p] \in sync.processed
       THEN sync' = [sync EXCEPT !.left = @ \ {p}] /\ UNCHANGED result
     ELSE IF p \in Forks
       THEN /\ result' = [result EXCEPT ![p] = "skipped"]
            /\ sync' = [sync EXCEPT !.left = @ \ {p}, !.processed = @ \cup {HeadOf[p]}]
     ELSE /\ sync' = [sync EXCEPT !.left = @ \ {p}, !.processed = @ \cup {HeadOf[p]},
                                  !.pr = p, !.pc = "recheck"]
          /\ UNCHANGED result
  /\ UNCHANGED <<main, branch, open, rewritten, fresh>>

\* The next listed pull request: from a fork, of a branch already done, or one
\* to work on.  The list was read when the run began.
TakePull(p) ==
  /\ sync.pc = "next" /\ p \in sync.left
  /\ \/ /\ p \in Forks /\ result' = [result EXCEPT ![p] = "skipped"]
        /\ sync' = [sync EXCEPT !.left = @ \ {p}]
     \/ /\ p \notin Forks /\ HeadOf[p] \in sync.processed
        /\ sync' = [sync EXCEPT !.left = @ \ {p}]
        /\ UNCHANGED result
     \/ /\ p \notin Forks /\ HeadOf[p] \notin sync.processed
        /\ sync' = [sync EXCEPT !.left = @ \ {p}, !.processed = @ \cup {HeadOf[p]},
                                !.pr = p, !.pc = "recheck"]
        /\ UNCHANGED result
  /\ UNCHANGED <<main, branch, open, rewritten, fresh>>

Report(what) == /\ result' = [result EXCEPT ![sync.pr] = what]
                /\ sync' = [sync EXCEPT !.pc = "next", !.head = {}, !.pr = None]

eligibleBranch(p) == p \in open /\ p \notin Forks

Recheck == /\ sync.pc = "recheck"
           /\ \/ eligibleBranch(sync.pr) /\ sync' = [sync EXCEPT !.pc = "fetch"]
                 /\ UNCHANGED result
              \/ ~eligibleBranch(sync.pr) /\ Report("skipped")
           /\ UNCHANGED <<main, branch, open, rewritten, fresh>>

Mine == branch[HeadOf[sync.pr]]

FetchHead == /\ sync.pc = "fetch" /\ Mine # Gone
             /\ sync' = [sync EXCEPT !.head = Mine, !.pc = "merge"]
             /\ UNCHANGED <<main, branch, open, result, rewritten, fresh>>

\* --no-ff makes a commit unless the head already has all of main.
mergeMain == /\ sync.pc = "merge"
             /\ \/ sync.main \subseteq sync.head /\ Report("current")
                \/ ~(sync.main \subseteq sync.head) /\ sync' = [sync EXCEPT !.pc = "push"]
                   /\ UNCHANGED result
             /\ UNCHANGED <<main, branch, open, rewritten, fresh>>

\* A normal push: only a fast-forward, or a branch that is no longer there.
Pushed == /\ Mine # Gone => Mine \subseteq sync.head \cup sync.main
          /\ branch' = [branch EXCEPT ![HeadOf[sync.pr]] = sync.head \cup sync.main]

Push == /\ sync.pc = "push" /\ Pushed
        /\ Report("updated") /\ UNCHANGED <<main, open, rewritten, fresh>>

\* Any git or GitHub call fails (a structural conflict, a rejected push, no such
\* branch, a push that timed out after it arrived): reported, the work tree reset,
\* the other branches go on.  When resetting fails too, the run ends without a report.
Fails == /\ sync.pc \in {"recheck", "fetch", "merge", "push"}
         /\ \/ UNCHANGED branch
            \/ sync.pc = "push" /\ Pushed
         /\ \/ Report("failed")
            \/ sync' = Off /\ result' = NoReport
         /\ UNCHANGED <<main, open, rewritten, fresh>>

Ends == /\ sync.pc = "next" /\ sync.left = {} /\ sync' = [sync EXCEPT !.pc = "done"]
        /\ UNCHANGED <<main, branch, open, result, rewritten, fresh>>

Script == Begin \/ Recheck \/ FetchHead \/ mergeMain \/ Push \/ Fails \/ Ends
          \/ \E p \in Pulls : TakePull(p)
World == \/ MainMoves
         \/ \E b \in Branches : AuthorPushes(b) \/ AuthorRewrites(b) \/ BranchDeleted(b)
         \/ \E p \in Pulls : Closes(p)
Next == Script \/ World

Spec == Init /\ [][Next]_vars
-----------------------------------------------------------------------------
\* Pull request q has answered for branch b: it was closed or is reported as failed,
\* or b has all of the main the run fetched, unless its author rewrote it.
Answers(q, b) ==
  /\ q \notin Forks /\ HeadOf[q] = b
  /\ \/ q \notin open
     \/ result[q] = "failed"
     \/ result[q] \in {"updated", "current"} /\ (b \in rewritten \/ sync.main \subseteq branch[b])

\* When the summary is written (sync-open-pr-branches.cjs:58-93), no branch was
\* passed over: the branch of every listed pull request of this repository that
\* is still open has the main the run fetched, or a pull request of that branch is
\* reported as failed or was closed meanwhile, although the branch was read calls
\* before it is reported, forks use the same names, and a push may be rejected or
\* take effect without an answer.
NoBranchPassedOver ==
  sync.pc = "done" =>
    \A p \in sync.listed \ Forks : p \in open => \E q \in sync.listed : Answers(q, HeadOf[p])
=============================================================================
