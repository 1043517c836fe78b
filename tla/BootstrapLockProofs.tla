------------------------ MODULE BootstrapLockProofs ------------------------
(***************************************************************************)
(* What the directory lock of realtime-bootstrap.mjs does promise, for any *)
(* number of invocations on any hosts: without crashes and old locks it is *)
(* exclusive, and in every case no lock outlives those that can remove it. *)
(***************************************************************************)
EXTENDS BootstrapLock, TLAPS

Labels == {"start", "write", "held", "removing", "inspect", "rename", "remake", "refused",
           "released", "crashed"}

Types ==
  /\ pc \in [Invocations -> Labels]
  /\ path \in Invocations \cup {None}
  /\ owner \in Invocations \cup {None}
  /\ aged \subseteq Invocations
  /\ dirAged \in BOOLEAN
  /\ path = None => owner = None /\ ~dirAged

Quiet == aged = {} /\ \A i \in Invocations : ~Crashed(i)

\* Without a crash and an old lock nobody takes over, the one between mkdir and
\* atomicWrite made the directory at the path, and the one that holds or removes the
\* lock is recorded in it.
QuietInv ==
  Quiet =>
    /\ ~dirAged
    /\ \A i \in Invocations :
         /\ pc[i] \notin {"rename", "remake"}
         /\ pc[i] = "write" => path = i /\ owner = None
         /\ pc[i] \in {"held", "removing"} => owner = i

LockInv == Types /\ QuietInv /\ NothingLeftBehind

\* Every step of every invocation keeps the three invariants.
LEMMA StepKeepsInv ==
  ASSUME None \notin Invocations, LockInv, [Next]_vars
  PROVE  LockInv'
<1> USE DEF LockInv, Crashed
<1>1. ASSUME NEW i \in Invocations, MakeDirectory(i) PROVE LockInv'
  <2>1. Types'
    BY <1>1 DEF MakeDirectory, Go, Types, Labels
  <2>2. QuietInv'
    BY <1>1 DEF MakeDirectory, Go, Types, Labels, QuietInv, Quiet
  <2>3. NothingLeftBehind'
    BY <1>1 DEF MakeDirectory, Go, Types, Labels, NothingLeftBehind
  <2> QED
    BY <2>1, <2>2, <2>3
<1>2. ASSUME NEW i \in Invocations, WriteOwner(i) PROVE LockInv'
  <2>1. Types'
    BY <1>2 DEF WriteOwner, Go, Types, Labels
  <2>2. QuietInv'
    BY <1>2 DEF WriteOwner, Go, Types, Labels, QuietInv, Quiet
  <2>3. NothingLeftBehind'
    BY <1>2 DEF WriteOwner, Go, Types, Labels, NothingLeftBehind
  <2> QED
    BY <2>1, <2>2, <2>3
<1>3. ASSUME NEW i \in Invocations, Inspect(i) PROVE LockInv'
  <2>1. Types'
    BY <1>3 DEF Inspect, Go, Types, Labels
  <2>2. QuietInv'
    BY <1>3 DEF Inspect, Go, Types, Labels, QuietInv, Quiet, Stale
  <2>3. NothingLeftBehind'
    BY <1>3 DEF Inspect, Go, Types, Labels, NothingLeftBehind
  <2> QED
    BY <2>1, <2>2, <2>3
<1>4. ASSUME NEW i \in Invocations, RenameStale(i) PROVE LockInv'
  <2>1. Types'
    BY <1>4 DEF RenameStale, Go, Types, Labels
  <2>2. QuietInv'
    BY <1>4 DEF RenameStale, Go, Types, Labels, QuietInv, Quiet
  <2>3. NothingLeftBehind'
    BY <1>4 DEF RenameStale, Go, Types, Labels, NothingLeftBehind
  <2> QED
    BY <2>1, <2>2, <2>3
<1>5. ASSUME NEW i \in Invocations, RemakeDirectory(i) PROVE LockInv'
  <2>1. Types'
    BY <1>5 DEF RemakeDirectory, Go, Types, Labels
  <2>2. QuietInv'
    BY <1>5 DEF RemakeDirectory, Go, Types, Labels, QuietInv, Quiet
  <2>3. NothingLeftBehind'
    BY <1>5 DEF RemakeDirectory, Go, Types, Labels, NothingLeftBehind
  <2> QED
    BY <2>1, <2>2, <2>3
<1>6. ASSUME NEW i \in Invocations, ReadToken(i) PROVE LockInv'
  <2>1. Types'
    BY <1>6 DEF ReadToken, Go, Types, Labels
  <2>2. QuietInv'
    BY <1>6 DEF ReadToken, Go, Types, Labels, QuietInv, Quiet
  <2>3. NothingLeftBehind'
    BY <1>6 DEF ReadToken, Go, Types, Labels, NothingLeftBehind
  <2> QED
    BY <2>1, <2>2, <2>3
<1>7. ASSUME NEW i \in Invocations, RemoveDirectory(i) PROVE LockInv'
  <2>1. Types'
    BY <1>7 DEF RemoveDirectory, Go, Types, Labels
  <2>2. QuietInv'
    BY <1>7 DEF RemoveDirectory, Go, Types, Labels, QuietInv, Quiet
  <2>3. NothingLeftBehind'
    BY <1>7 DEF RemoveDirectory, Go, Types, Labels, NothingLeftBehind
  <2> QED
    BY <2>1, <2>2, <2>3
<1>8. ASSUME NEW i \in Invocations, Crash(i) PROVE LockInv'
  <2>1. Types'
    BY <1>8 DEF Crash, Go, Types, Labels
  <2>2. QuietInv'
    BY <1>8 DEF Crash, Go, Types, Labels, QuietInv, Quiet
  <2>3. NothingLeftBehind'
    BY <1>8 DEF Crash, Go, Types, Labels, NothingLeftBehind
  <2> QED
    BY <2>1, <2>2, <2>3
<1>9. ASSUME TwoHoursPass PROVE LockInv'
  BY <1>9 DEF TwoHoursPass, Types, QuietInv, Quiet, NothingLeftBehind
<1>10. CASE UNCHANGED vars
  BY <1>10 DEF vars, Types, QuietInv, Quiet, NothingLeftBehind
<1> QED
  BY <1>1, <1>2, <1>3, <1>4, <1>5, <1>6, <1>7, <1>8, <1>9, <1>10 DEF Next, Done

\* The invariants hold in every state of every execution.
LEMMA InvHolds ==
  ASSUME None \notin Invocations
  PROVE  Spec => []LockInv
<1>1. Init => LockInv
  BY DEF Init, LockInv, Types, QuietInv, NothingLeftBehind, Labels
<1>2. LockInv /\ [Next]_vars => LockInv'
  BY StepKeepsInv
<1> QED
  BY <1>1, <1>2, PTL DEF Spec

\* While no invocation has crashed and no two hours have passed, acquireLock
\* (realtime-bootstrap.mjs:410-447) lets at most one of any number of invocations in.
THEOREM LockExclusiveWithoutTakeover ==
  ASSUME None \notin Invocations
  PROVE  Spec => []ExclusiveWithoutTakeover
<1>1. LockInv => ExclusiveWithoutTakeover
  BY DEF LockInv, Types, QuietInv, Quiet, ExclusiveWithoutTakeover, Exclusive, Holders
<1> QED
  BY <1>1, InvHolds, PTL

\* Through crashes, takeovers and the races between them, a lock directory at the path
\* always has somebody who is still to remove it or who crashed
\* (realtime-bootstrap.mjs:410-456), for any number of invocations on any hosts.
THEOREM LockNotLeftBehind ==
  ASSUME None \notin Invocations
  PROVE  Spec => []NothingLeftBehind
BY InvHolds, PTL DEF LockInv

=============================================================================
