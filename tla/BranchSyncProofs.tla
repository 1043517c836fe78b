-------------------------- MODULE BranchSyncProofs ---------------------------
(***************************************************************************)
(* The branch synchroniser passes no branch over, for any set of branches, *)
(* pull requests and forks and any number of commits.                      *)
(***************************************************************************)
EXTENDS BranchSync, TLAPS

Results == {"none", "skipped", "updated", "current", "failed"}
Runs == [pc : {"off", "next", "recheck", "fetch", "merge", "push", "done"},
         main : SUBSET Nat, listed : SUBSET Pulls, left : SUBSET Pulls,
         processed : SUBSET Branches, pr : Pulls \cup {None}, head : SUBSET Nat]
Contents == [Branches -> (SUBSET Nat) \cup {Gone}]

Types ==
  /\ main \in SUBSET Nat /\ fresh \in Nat /\ open \in SUBSET Pulls /\ sync \in Runs
  /\ branch \in Contents /\ rewritten \in SUBSET Branches
  /\ result \in [Pulls -> Results]

Working == sync.pc \in {"recheck", "fetch", "merge", "push"}

\* Every pull request taken from the list is from a fork or has its branch among
\* the names done, and the script works on one of those.
Books ==
  /\ Working => sync.pr \in (sync.listed \ sync.left) \ Forks /\ HeadOf[sync.pr] \in sync.processed
  /\ \A p \in (sync.listed \ sync.left) \ Forks : HeadOf[p] \in sync.processed
  /\ sync.left \subseteq sync.listed
  /\ sync.pc = "done" => sync.left = {}

\* A branch whose name is done has been answered for, or is being worked on.
Answered == \A b \in sync.processed : \E q \in sync.listed :
              Answers(q, b) \/ (Working /\ q = sync.pr /\ HeadOf[q] = b)

\* What was fetched is still in the branch, unless the pull request was closed or
\* the branch rewritten.
Fetched == sync.pc \in {"merge", "push"} =>
             \/ sync.pr \notin open \/ HeadOf[sync.pr] \in rewritten
             \/ sync.head \subseteq Mine

OpenHasBranch == \A p \in open \ Forks : branch[HeadOf[p]] # Gone

IInv == Types /\ Books /\ Answered /\ Fetched /\ OpenHasBranch

\* A pull request names a branch; Gone is not a set of commits.
Heads == HeadOf \in [Pulls -> Branches] /\ Gone \notin SUBSET Nat /\ Forks \subseteq Pulls

\* An answer stands while the branch keeps its commits.
LEMMA AnswersKept ==
  ASSUME NEW q, NEW b, Answers(q, b), open' \subseteq open,
         result'[q] = result[q], sync'.main = sync.main, rewritten \subseteq rewritten',
         q \in open' => b \in rewritten' \/ branch[b] \subseteq branch'[b]
  PROVE  Answers(q, b)'
  BY DEF Answers

\* What happens around the script keeps the invariant: pushes add commits, a
\* rewrite is recorded, and a deleted branch has no open pull request.
LEMMA WorldStep ==
  ASSUME Heads, IInv, World
  PROVE  IInv'
<1> USE DEF Heads, IInv
<1>1. UNCHANGED <<sync, result>> /\ open' \subseteq open /\ rewritten \subseteq rewritten'
  BY DEF World, MainMoves, AuthorPushes, AuthorRewrites, Closes, BranchDeleted
<1>2. \A q \in open' \ Forks : HeadOf[q] \in rewritten' \/ branch[HeadOf[q]] \subseteq branch'[HeadOf[q]]
  BY DEF World, MainMoves, AuthorPushes, AuthorRewrites, Closes, BranchDeleted, Types, Contents
<1>3. Types'
  <2>1. CASE MainMoves
    BY <2>1 DEF MainMoves, Types
  <2>2. ASSUME NEW b \in Branches, AuthorPushes(b)
        PROVE  Types'
    BY <2>2 DEF AuthorPushes, Types, Contents
  <2>3. ASSUME NEW b \in Branches, AuthorRewrites(b)
        PROVE  Types'
    BY <2>3 DEF AuthorRewrites, Types, Contents
  <2>4. ASSUME NEW b \in Branches, BranchDeleted(b)
        PROVE  Types'
    BY <2>4 DEF BranchDeleted, Types, Contents
  <2>5. ASSUME NEW p \in Pulls, Closes(p)
        PROVE  Types'
    BY <2>5 DEF Closes, Types
  <2> QED
    BY <2>1, <2>2, <2>3, <2>4, <2>5 DEF World
<1>4. Books'
  BY <1>1 DEF Books, Working
<1>5. Answered'
  <2> SUFFICES ASSUME NEW b \in sync.processed
               PROVE  \E q \in sync.listed :
                        Answers(q, b)' \/ (Working' /\ q = sync'.pr /\ HeadOf[q] = b)
    BY <1>1 DEF Answered
  <2>1. PICK q \in sync.listed : Answers(q, b) \/ (Working /\ q = sync.pr /\ HeadOf[q] = b)
    BY DEF Answered
  <2>2. CASE Answers(q, b)
    <3>1. q \notin Forks /\ HeadOf[q] = b
      BY <2>2 DEF Answers
    <3>2. Answers(q, b)'
      BY <1>1, <1>2, <2>2, <3>1, AnswersKept
    <3> QED
      BY <3>2
  <2>3. CASE Working /\ q = sync.pr /\ HeadOf[q] = b
    BY <1>1, <2>3 DEF Working
  <2> QED
    BY <2>1, <2>2, <2>3
<1>6. Fetched'
  <2> SUFFICES ASSUME sync.pc \in {"merge", "push"}, sync.pr \in open', HeadOf[sync.pr] \notin rewritten'
               PROVE  sync.head \subseteq branch'[HeadOf[sync.pr]]
    BY <1>1 DEF Fetched, Mine
  <2>1. sync.pr \notin Forks
    BY DEF Books, Working
  <2>2. sync.head \subseteq branch[HeadOf[sync.pr]]
    BY <1>1 DEF Fetched, Mine
  <2> QED
    BY <1>2, <2>1, <2>2
<1>7. OpenHasBranch'
  <2>1. CASE MainMoves \/ \E p \in Pulls : Closes(p)
    BY <2>1 DEF MainMoves, Closes, OpenHasBranch
  <2>2. ASSUME NEW b \in Branches, AuthorPushes(b) \/ AuthorRewrites(b)
        PROVE  OpenHasBranch'
    <3>1. branch'[b] \in SUBSET Nat /\ open' = open
      BY <2>2 DEF AuthorPushes, AuthorRewrites, Types, Contents
    <3>2. \A c \in Branches : c # b => branch'[c] = branch[c]
      BY <2>2 DEF AuthorPushes, AuthorRewrites, Types, Contents
    <3> QED
      BY <3>1, <3>2 DEF OpenHasBranch, Types
  <2>3. ASSUME NEW b \in Branches, BranchDeleted(b)
        PROVE  OpenHasBranch'
    BY <2>3 DEF BranchDeleted, OpenHasBranch, Types, Contents
  <2> QED
    BY <2>1, <2>2, <2>3 DEF World
<1> QED
  BY <1>3, <1>4, <1>5, <1>6, <1>7

\* Reporting on the pull request the script works on, when that answers for its
\* branch and no commit of an open pull request's branch is lost.
LEMMA ReportStep ==
  ASSUME Heads, IInv, Working, NEW what \in Results, Report(what),
         UNCHANGED <<main, open, rewritten, fresh>>, branch' \in Contents,
         \A b \in Branches : branch[b] # Gone => branch'[b] # Gone /\ branch[b] \subseteq branch'[b],
         NEW mine, mine = sync.pr, Answers(mine, HeadOf[mine])'
  PROVE  IInv'
<1> USE DEF Heads, IInv
<1>1. sync' = [sync EXCEPT !.pc = "next", !.head = {}, !.pr = None]
      /\ result' = [result EXCEPT ![sync.pr] = what]
  BY DEF Report
<1>2. sync.pr \in Pulls /\ sync.pr \in sync.listed /\ HeadOf[sync.pr] \in Branches
  BY DEF Books, Types, Runs
<1>3. Types'
  BY <1>1, <1>2 DEF Types, Runs
<1>4. /\ sync'.pc = "next" /\ sync'.main = sync.main /\ sync'.listed = sync.listed
      /\ sync'.left = sync.left /\ sync'.processed = sync.processed
  BY <1>1 DEF Types, Runs
<1>5. Books'
  BY <1>4 DEF Books, Working
<1>6. Answered'
  <2> SUFFICES ASSUME NEW b \in sync.processed
               PROVE  \E q \in sync.listed : Answers(q, b)'
    BY <1>4 DEF Answered
  <2>1. PICK q \in sync.listed : Answers(q, b) \/ (Working /\ q = sync.pr /\ HeadOf[q] = b)
    BY DEF Answered
  <2>2. CASE q = sync.pr
    BY <1>2, <2>1, <2>2 DEF Answers
  <2>3. CASE q # sync.pr
    <3>1. Answers(q, b) /\ q \in Pulls /\ b \in Branches /\ HeadOf[q] = b /\ q \notin Forks
      BY <2>1, <2>3 DEF Answers, Types, Runs
    <3>2. result'[q] = result[q]
      BY <1>1, <2>3, <3>1 DEF Types
    <3>3. q \in open => branch[b] \subseteq branch'[b]
      BY <3>1 DEF OpenHasBranch
    <3> QED
      BY <1>4, <3>1, <3>2, <3>3, AnswersKept
  <2> QED
    BY <2>2, <2>3
<1>7. Fetched'
  BY <1>4 DEF Fetched
<1>8. OpenHasBranch'
  BY DEF OpenHasBranch, Types
<1> QED
  BY <1>3, <1>5, <1>6, <1>7, <1>8

\* A push that arrives adds commits, or restores a deleted branch.
LEMMA PushedKeeps ==
  ASSUME Heads, IInv, Working, Pushed
  PROVE  /\ branch' \in Contents
         /\ \A b \in Branches : branch[b] # Gone => branch'[b] # Gone /\ branch[b] \subseteq branch'[b]
         /\ sync.main \subseteq branch'[HeadOf[sync.pr]]
<1> USE DEF Heads, IInv
<1>1. sync.head \cup sync.main \in SUBSET Nat /\ HeadOf[sync.pr] \in Branches
  BY DEF Types, Runs, Books
<1>2. branch' = [branch EXCEPT ![HeadOf[sync.pr]] = sync.head \cup sync.main]
  BY DEF Pushed
<1>3. branch' \in Contents /\ branch'[HeadOf[sync.pr]] = sync.head \cup sync.main
  BY <1>1, <1>2 DEF Types, Contents
<1>4. \A b \in Branches : b # HeadOf[sync.pr] => branch'[b] = branch[b]
  BY <1>1, <1>2 DEF Types, Contents
<1> QED
  BY <1>1, <1>3, <1>4 DEF Pushed, Mine

\* A step that moves the script on within its work on one pull request.
LEMMA WorkStep ==
  ASSUME Heads, IInv, Working, NEW label \in {"fetch", "merge", "push"}, NEW h \in SUBSET Nat,
         sync' = [sync EXCEPT !.pc = label, !.head = h],
         UNCHANGED <<main, branch, open, result, rewritten, fresh>>, Fetched'
  PROVE  IInv'
<1> USE DEF Heads, IInv
<1>1. /\ sync'.pc = label /\ sync'.main = sync.main /\ sync'.listed = sync.listed
      /\ sync'.left = sync.left /\ sync'.processed = sync.processed /\ sync'.pr = sync.pr
  BY DEF Types, Runs
<1>2. Types'
  BY DEF Types, Runs
<1>3. Books' /\ Working'
  BY <1>1 DEF Books, Working
<1>4. Answered'
  BY <1>1, <1>3 DEF Answered, Answers
<1>5. OpenHasBranch'
  BY DEF OpenHasBranch
<1> QED
  BY <1>2, <1>3, <1>4, <1>5

\* A run that begins, or ends without a report, has nothing to answer for.
LEMMA EmptyRun ==
  ASSUME Heads, IInv, NEW label \in {"off", "next"}, NEW all \in SUBSET Pulls, NEW now \in SUBSET Nat,
         sync' = [pc |-> label, main |-> now, listed |-> all, left |-> all, processed |-> {},
                  pr |-> None, head |-> {}],
         result' = NoReport, rewritten' \in SUBSET Branches,
         UNCHANGED <<main, open, fresh>>, branch' \in Contents,
         \A b \in Branches : branch[b] # Gone => branch'[b] # Gone
  PROVE  IInv'
<1> USE DEF Heads, IInv
<1>1. sync'.pc = label /\ sync'.listed = all /\ sync'.left = all /\ sync'.processed = {}
  OBVIOUS
<1>2. Types'
  BY DEF Types, Runs, NoReport, Results
<1>3. Books' /\ Answered' /\ Fetched'
  BY <1>1 DEF Books, Answered, Fetched, Working
<1>4. OpenHasBranch'
  BY DEF OpenHasBranch, Types
<1> QED
  BY <1>2, <1>3, <1>4

\* Taking a pull request from the list.
LEMMA TakeStep ==
  ASSUME Heads, IInv, NEW p \in Pulls, TakePull(p)
  PROVE  IInv'
<1> USE DEF Heads, IInv
<1>1. sync.pc = "next" /\ p \in sync.left /\ UNCHANGED <<main, branch, open, rewritten, fresh>>
  BY DEF TakePull
<1>2. OpenHasBranch'
  BY <1>1 DEF OpenHasBranch
<1>3. ~Working
  BY <1>1 DEF Working
<1>4. CASE sync' = [sync EXCEPT !.left = @ \ {p}] /\ (p \in Forks \/ HeadOf[p] \in sync.processed)
  <2>1. /\ sync'.pc = "next" /\ sync'.main = sync.main /\ sync'.listed = sync.listed
        /\ sync'.left = sync.left \ {p} /\ sync'.processed = sync.processed
    BY <1>1, <1>4 DEF Types, Runs
  <2>2. \A q \in Pulls : q \notin Forks => result'[q] = result[q]
    BY DEF TakePull, Types
  <2>3. Types'
    BY <1>1, <1>4 DEF TakePull, Types, Runs, Results
  <2>4. Books' /\ Fetched'
    BY <1>4, <2>1 DEF Books, Working, Fetched
  <2>5. Answered'
    <3> SUFFICES ASSUME NEW b \in sync.processed
                 PROVE  \E q \in sync.listed : Answers(q, b)'
      BY <2>1 DEF Answered
    <3>1. PICK q \in sync.listed : Answers(q, b)
      BY <1>3 DEF Answered
    <3>2. q \in Pulls /\ q \notin Forks
      BY <3>1 DEF Answers, Types, Runs
    <3> QED
      BY <1>1, <2>1, <2>2, <3>1, <3>2, AnswersKept
  <2> QED
    BY <1>2, <2>3, <2>4, <2>5
<1>5. CASE /\ sync' = [sync EXCEPT !.left = @ \ {p}, !.processed = @ \cup {HeadOf[p]},
                                   !.pr = p, !.pc = "recheck"]
           /\ p \notin Forks /\ UNCHANGED result
  <2>1. /\ sync'.pc = "recheck" /\ sync'.main = sync.main /\ sync'.listed = sync.listed
        /\ sync'.left = sync.left \ {p} /\ sync'.processed = sync.processed \cup {HeadOf[p]}
        /\ sync'.pr = p
    BY <1>1, <1>5 DEF Types, Runs
  <2>2. Types'
    BY <1>1, <1>5 DEF Types, Runs
  <2>3. p \in sync.listed
    BY <1>1 DEF Books
  <2>4. Books' /\ Fetched'
    BY <1>5, <2>1, <2>3 DEF Books, Working, Fetched
  <2>5. Answered'
    <3> SUFFICES ASSUME NEW b \in sync.processed \cup {HeadOf[p]}
                 PROVE  \E q \in sync.listed : Answers(q, b)' \/ (Working' /\ q = p /\ HeadOf[q] = b)
      BY <2>1 DEF Answered
    <3>1. CASE b = HeadOf[p]
      BY <2>1, <2>3, <3>1 DEF Working
    <3>2. CASE b \in sync.processed
      <4>1. PICK q \in sync.listed : Answers(q, b)
        BY <1>3, <3>2 DEF Answered
      <4> QED
        BY <1>1, <1>5, <2>1, <4>1, AnswersKept
    <3> QED
      BY <3>1, <3>2
  <2> QED
    BY <1>2, <2>2, <2>4, <2>5
<1> QED
  BY <1>4, <1>5 DEF TakePull

\* Every other step of the script.
LEMMA ScriptStep ==
  ASSUME Heads, IInv, Script
  PROVE  IInv'
<1> USE DEF Heads, IInv
<1>0. PICK mine : mine = sync.pr
  OBVIOUS
<1>1. CASE Begin
  <2>1. sync' = [pc |-> "next", main |-> main, listed |-> open, left |-> open, processed |-> {},
                 pr |-> None, head |-> {}]
    BY <1>1 DEF Begin, Off
  <2> QED
    BY <1>1, <2>1, EmptyRun DEF Begin, Types
<1>2. CASE Recheck
  <2>1. Working /\ sync.pr \notin Forks /\ sync.head \in SUBSET Nat
    BY <1>2 DEF Recheck, Working, Books, Types, Runs
  <2>2. CASE Report("skipped") /\ ~eligibleBranch(sync.pr)
    <3>1. Answers(mine, HeadOf[mine])'
      BY <1>0, <1>2, <2>1, <2>2 DEF Recheck, Answers, eligibleBranch
    <3> QED
      BY <1>0, <1>2, <2>1, <2>2, <3>1, ReportStep DEF Recheck, Types, Results
  <2>3. CASE sync' = [sync EXCEPT !.pc = "fetch"] /\ UNCHANGED result
    <3>1. sync' = [sync EXCEPT !.pc = "fetch", !.head = sync.head] /\ sync'.pc = "fetch"
      BY <2>3 DEF Types, Runs
    <3> QED
      BY <1>2, <2>1, <2>3, <3>1, WorkStep DEF Recheck, Fetched
  <2> QED
    BY <1>2, <2>2, <2>3 DEF Recheck
<1>3. CASE FetchHead
  <2>1. Working /\ HeadOf[sync.pr] \in Branches
    BY <1>3 DEF FetchHead, Working, Books, Types, Runs
  <2>2. Mine \in SUBSET Nat
    BY <1>3, <2>1 DEF FetchHead, Mine, Types, Contents
  <2>3. sync' = [sync EXCEPT !.pc = "merge", !.head = Mine] /\ sync'.head = Mine /\ sync'.pr = sync.pr
    BY <1>3 DEF FetchHead, Types, Runs
  <2>4. Fetched'
    BY <1>3, <2>3 DEF FetchHead, Fetched, Mine
  <2> QED
    BY <1>3, <2>1, <2>2, <2>3, <2>4, WorkStep DEF FetchHead
<1>4. CASE mergeMain
  <2>1. Working /\ sync.pr \notin Forks /\ sync.head \in SUBSET Nat /\ sync.pr \in Pulls
    BY <1>4 DEF mergeMain, Working, Books, Types, Runs
  <2>2. CASE sync.main \subseteq sync.head /\ Report("current")
    <3>1. result'[sync.pr] = "current" /\ sync'.main = sync.main
      BY <2>1, <2>2 DEF Report, Types, Runs
    <3>2. Answers(mine, HeadOf[mine])'
      BY <1>0, <1>4, <2>1, <2>2, <3>1 DEF mergeMain, Answers, Fetched, Mine
    <3> QED
      BY <1>0, <1>4, <2>1, <2>2, <3>2, ReportStep DEF mergeMain, Types, Results
  <2>3. CASE sync' = [sync EXCEPT !.pc = "push"] /\ UNCHANGED result
    <3>1. sync' = [sync EXCEPT !.pc = "push", !.head = sync.head]
          /\ sync'.head = sync.head /\ sync'.pr = sync.pr
      BY <2>3 DEF Types, Runs
    <3>2. Fetched'
      BY <1>4, <3>1 DEF mergeMain, Fetched, Mine
    <3> QED
      BY <1>4, <2>1, <2>3, <3>1, <3>2, WorkStep DEF mergeMain
  <2> QED
    BY <1>4, <2>2, <2>3 DEF mergeMain
<1>5. CASE Push
  <2>1. Working /\ sync.pr \notin Forks /\ sync.pr \in Pulls
    BY <1>5 DEF Push, Working, Books, Types, Runs
  <2>2. result'[sync.pr] = "updated" /\ sync'.main = sync.main
    BY <1>5, <2>1 DEF Push, Report, Types, Runs
  <2>3. Answers(mine, HeadOf[mine])'
    BY <1>0, <1>5, <2>1, <2>2, PushedKeeps DEF Push, Answers
  <2> QED
    BY <1>0, <1>5, <2>1, <2>3, PushedKeeps, ReportStep DEF Push, Results
<1>6. CASE Fails
  <2>1. Working /\ sync.pr \notin Forks /\ sync.pr \in Pulls
    BY <1>6 DEF Fails, Working, Books, Types, Runs
  <2>2. /\ branch' \in Contents
        /\ \A b \in Branches : branch[b] # Gone => branch'[b] # Gone /\ branch[b] \subseteq branch'[b]
    BY <1>6, <2>1, PushedKeeps DEF Fails, Types
  <2>3. CASE Report("failed")
    <3>1. result'[sync.pr] = "failed"
      BY <2>1, <2>3 DEF Report, Types
    <3>2. Answers(mine, HeadOf[mine])'
      BY <1>0, <2>1, <3>1 DEF Answers
    <3> QED
      BY <1>0, <1>6, <2>1, <2>2, <2>3, <3>2, ReportStep DEF Fails, Results
  <2>4. CASE sync' = Off /\ result' = NoReport
    <3>1. sync' = [pc |-> "off", main |-> {}, listed |-> {}, left |-> {}, processed |-> {},
                   pr |-> None, head |-> {}]
      BY <2>4 DEF Off
    <3>2. UNCHANGED <<main, open, fresh>> /\ rewritten' \in SUBSET Branches
      BY <1>6 DEF Fails, Types
    <3> QED
      BY <2>2, <2>4, <3>1, <3>2, EmptyRun
  <2> QED
    BY <1>6, <2>3, <2>4 DEF Fails
<1>7. CASE Ends
  <2>1. /\ sync'.pc = "done" /\ sync'.main = sync.main /\ sync'.listed = sync.listed
        /\ sync'.left = sync.left /\ sync'.processed = sync.processed /\ sync.left = {}
    BY <1>7 DEF Ends, Types, Runs
  <2>2. Types'
    BY <1>7 DEF Ends, Types, Runs
  <2>3. Books' /\ Fetched' /\ OpenHasBranch'
    BY <1>7, <2>1 DEF Ends, Books, Working, Fetched, OpenHasBranch
  <2>4. Answered'
    BY <1>7, <2>1 DEF Ends, Answered, Answers, Working
  <2> QED
    BY <2>2, <2>3, <2>4
<1> QED
  BY <1>1, <1>2, <1>3, <1>4, <1>5, <1>6, <1>7, TakeStep DEF Script

\* The report of sync-open-pr-branches.cjs:58-93 passes no branch over: every listed,
\* still open pull request of this repository has its branch brought up to date or
\* answered for, for any number of branches, authors, forks and commits.
THEOREM EveryBranchAnswered ==
  ASSUME Heads
  PROVE  Spec => []NoBranchPassedOver
<1>1. Init => IInv
  <2> SUFFICES ASSUME Init
               PROVE  IInv
    OBVIOUS
  <2>1. Types
    BY DEF Init, Types, Off, Runs, NoReport, Results, Contents
  <2>2. Books /\ Answered /\ Fetched
    BY DEF Init, Off, Books, Answered, Fetched, Working
  <2>3. OpenHasBranch
    BY DEF Init, OpenHasBranch, Heads
  <2> QED
    BY <2>1, <2>2, <2>3 DEF IInv
<1>2. IInv /\ [Next]_vars => IInv'
  <2>1. IInv /\ UNCHANGED vars => IInv'
    BY DEF IInv, vars, Types, Books, Answered, Answers, Fetched, OpenHasBranch, Working, Mine
  <2> QED
    BY <2>1, WorldStep, ScriptStep DEF Next
<1>3. IInv => NoBranchPassedOver
  BY DEF IInv, Books, Answered, NoBranchPassedOver, Working, Types, Runs
<1> QED
  BY <1>1, <1>2, <1>3, PTL DEF Spec

=============================================================================
