--------------------------- MODULE BootstrapLock ---------------------------
(***************************************************************************)
(* The directory lock of scripts/realtime-bootstrap.mjs (acquireLock,      *)
(* releaseLock), which scripts/lib/bootstrap-environment.mjs repeats for   *)
(* the organization lock.  The lock is a directory made by mkdir with an   *)
(* owner.json inside; a directory that is judged stale is renamed away and *)
(* made again.  The invocations are processes on one or several hosts that *)
(* share the working tree; each tries once and may end between any two     *)
(* file operations, by a crash or by an error it does not handle.          *)
(***************************************************************************)
CONSTANTS Invocations, Hosts, None

VARIABLES
  host,     \* the host each invocation runs on
  pc,       \* where each invocation is
  path,     \* who made the directory at lockPath, or None
  owner,    \* who wrote the owner.json in it, or None
  aged,     \* the invocations whose createdAt is more than two hours ago
  dirAged   \* the directory's modification time is more than two hours ago

vars == <<host, pc, path, owner, aged, dirAged>>

Init ==
  /\ host \in [Invocations -> Hosts]
  /\ pc = [i \in Invocations |-> "start"]
  /\ path = None /\ owner = None /\ aged = {} /\ dirAged = FALSE

Go(i, label) == pc' = [pc EXCEPT ![i] = label]
Crashed(i) == pc[i] = "crashed"

\* mkdir of the first attempt.
MakeDirectory(i) ==
  /\ pc[i] = "start"
  /\ \/ path = None /\ path' = i /\ dirAged' = FALSE /\ Go(i, "write")
     \/ path # None /\ Go(i, "inspect") /\ UNCHANGED <<path, dirAged>>
  /\ UNCHANGED <<host, owner, aged>>

\* atomicWrite of owner.json goes to the path, whatever is there, and makes a
\* directory that is gone again.
WriteOwner(i) ==
  /\ pc[i] = "write"
  /\ path' = IF path = None THEN i ELSE path
  /\ owner' = i
  /\ dirAged' = FALSE
  /\ Go(i, "held")
  /\ UNCHANGED <<host, aged>>

\* Mutant: a directory without an owner.json is stale at any age.
StaleWithoutOwner(i) ==
  IF owner = None THEN TRUE
  ELSE IF host[owner] = host[i] THEN Crashed(owner) ELSE owner \in aged

(***************************************************************************)
(* The judgement of invocation i.  A recorded owner of the same host is    *)
(* stale when its process is gone; one of another host when it was         *)
(* recorded more than two hours ago, although it may still be at work.     *)
(* Without a readable owner the age of the directory decides.              *)
(***************************************************************************)
Stale(i) ==
  IF owner = None THEN dirAged
  ELSE IF host[owner] = host[i] THEN Crashed(owner) ELSE owner \in aged

\* A directory that is gone by now ends the attempt with an error.
Inspect(i) ==
  /\ pc[i] = "inspect"
  /\ Go(i, IF path # None /\ Stale(i) THEN "rename" ELSE "refused")
  /\ UNCHANGED <<host, path, owner, aged, dirAged>>

\* rename of lockPath, whatever is there by now; ENOENT is ignored.
RenameStale(i) ==
  /\ pc[i] = "rename"
  /\ path' = None /\ owner' = None /\ dirAged' = FALSE
  /\ Go(i, "remake")
  /\ UNCHANGED <<host, aged>>

\* The second mkdir; another invocation may have been faster.
RemakeDirectory(i) ==
  /\ pc[i] = "remake"
  /\ \/ path = None /\ path' = i /\ dirAged' = FALSE /\ Go(i, "write")
     \/ path # None /\ Go(i, "refused") /\ UNCHANGED <<path, dirAged>>
  /\ UNCHANGED <<host, owner, aged>>

\* Mutant: only the one that made the directory removes it.
ReadTokenOfMaker(i) ==
  /\ pc[i] = "held"
  /\ Go(i, IF owner = i /\ path = i THEN "removing" ELSE "released")
  /\ UNCHANGED <<host, path, owner, aged, dirAged>>

\* releaseLock reads the token at the path; another one, or none, is left alone.
ReadToken(i) ==
  /\ pc[i] = "held"
  /\ Go(i, IF owner = i THEN "removing" ELSE "released")
  /\ UNCHANGED <<host, path, owner, aged, dirAged>>

\* rm of lockPath, whatever is there by now.
RemoveDirectory(i) ==
  /\ pc[i] = "removing"
  /\ path' = None /\ owner' = None /\ dirAged' = FALSE
  /\ Go(i, "released")
  /\ UNCHANGED <<host, aged>>

Crash(i) ==
  /\ pc[i] \in {"write", "held", "rename", "remake", "removing"}
  /\ Go(i, "crashed")
  /\ UNCHANGED <<host, path, owner, aged, dirAged>>

\* Two hours pass, over those at work too.
TwoHoursPass ==
  /\ aged' = {i \in Invocations : pc[i] # "start"}
  /\ dirAged' = (path # None)
  /\ <<aged, dirAged>>' # <<aged, dirAged>>
  /\ UNCHANGED <<host, pc, path, owner>>

Done == /\ \A i \in Invocations : pc[i] \in {"refused", "released", "crashed"}
        /\ UNCHANGED vars

Next == \/ \E i \in Invocations :
             \/ MakeDirectory(i) \/ WriteOwner(i) \/ Inspect(i) \/ RenameStale(i)
             \/ RemakeDirectory(i) \/ ReadToken(i) \/ RemoveDirectory(i) \/ Crash(i)
        \/ TwoHoursPass \/ Done

Spec == Init /\ [][Next]_vars

----------------------------------------------------------------------------
Holders == {i \in Invocations : pc[i] = "held"}

(***************************************************************************)
(* What docs/bootstrap.md:41 says of the lock: it is exclusive, and dead   *)
(* owners are claimed atomically while active owners fail closed.  On one  *)
(* host, too, the code does not: two invocations judge a dead owner stale, *)
(* and the second renames away what the first has put in its place         *)
(* (realtime-bootstrap.mjs:433 acts on what 422-430 read).                 *)
(***************************************************************************)
Exclusive == \A i, j \in Holders : i = j

(***************************************************************************)
(* While nobody has crashed and no two hours have passed, at most one      *)
(* invocation holds the lock, whoever looks at it between the mkdir and    *)
(* the write of owner.json (414-415) or between the two steps of a release *)
(* (451-452): a takeover of the living needs one or the other.             *)
(***************************************************************************)
ExclusiveWithoutTakeover ==
  aged = {} /\ (\A i \in Invocations : ~Crashed(i)) => Exclusive

(***************************************************************************)
(* No lock is left behind, even by takeovers that went wrong: a directory  *)
(* at the path is one its recorded owner, or without a record its maker,   *)
(* is still to remove or has crashed on (realtime-bootstrap.mjs:438-455).  *)
(***************************************************************************)
NothingLeftBehind ==
  path # None =>
    IF owner = None THEN pc[path] \in {"write", "crashed"}
                    ELSE pc[owner] \in {"held", "removing", "crashed"}

=============================================================================
