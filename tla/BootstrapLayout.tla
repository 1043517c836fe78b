-------------------------- MODULE BootstrapLayout --------------------------
(***************************************************************************)
(* scripts/lib/bootstrap-environment.mjs: organize moves the artefacts of  *)
(* .bootstrap into one directory per environment and keeps a manifest;     *)
(* restore-layout undoes what a manifest records.  Either may fail or      *)
(* crash between two file operations, and either may be run again.  The    *)
(* organization lock (BootstrapLock) lets one invocation run at a time.    *)
(*                                                                         *)
(* An artefact is a file name that classifyLegacyBootstrapArtifact accepts; *)
(* root and env hold the content under that name in .bootstrap and in the  *)
(* directory of its environment.                                           *)
(***************************************************************************)
EXTENDS Naturals, Sequences, SequencesExt, FiniteSets

CONSTANTS
  Artefacts,     \* file names
  NoFile,
  MaxRuns,       \* organize runs, so manifests
  MaxContents    \* files the operator puts into .bootstrap

VARIABLES
  root, env,     \* content of each name, or NoFile
  manifests,     \* the manifests on disk, oldest first
  op,            \* the running invocation, if any
  contents       \* contents made so far

vars == <<root, env, manifests, op, contents>>

Idle == [kind |-> "none"]

Init ==
  /\ root = [a \in Artefacts |-> NoFile]
  /\ env = [a \in Artefacts |-> NoFile]
  /\ manifests = <<>>
  /\ op = Idle
  /\ contents = 0

Present(where) == {a \in Artefacts : where[a] # NoFile}

Move(from, to, a) == [to EXCEPT ![a] = from[a]]
Drop(from, a) == [from EXCEPT ![a] = NoFile]

\* Between invocations the operator's tools write a new artefact into .bootstrap.
OperatorWrites ==
  /\ op = Idle /\ contents < MaxContents
  /\ \E a \in Artefacts \ Present(root) : root' = [root EXCEPT ![a] = contents + 1]
  /\ contents' = contents + 1
  /\ UNCHANGED <<env, manifests, op>>

----------------------------------------------------------------------------
(* organizeBootstrapEnvironmentLocked *)

\* inventory: a name present in both places is a collision, which refuses the
\* whole run; the manifest is written before anything moves.
Organize ==
  /\ op = Idle /\ Len(manifests) < MaxRuns
  /\ Present(root) # {} /\ Present(root) \cap Present(env) = {}
  /\ \E moves \in SetToSeqs(Present(root)) :
       LET manifest == [status |-> "applying", moves |-> moves, completed |-> <<>>,
                        current |-> NoFile]
       IN /\ manifests' = Append(manifests, manifest)
          /\ op' = [kind |-> "organize", manifest |-> manifest, step |-> "next"]
  /\ UNCHANGED <<root, env, contents>>

\* What atomicWrite puts on disk is the manifest in memory.
Save(manifest) == manifests' = [manifests EXCEPT ![Len(manifests)] = manifest]

Left(m) == SubSeq(m.moves, Len(m.completed) + 1, Len(m.moves))

\* currentMove is on disk before the rename.
AnnounceMove ==
  /\ op.kind = "organize" /\ op.step = "next" /\ Left(op.manifest) # <<>>
  /\ LET m == [op.manifest EXCEPT !.current = Head(Left(op.manifest))]
     IN Save(m) /\ op' = [op EXCEPT !.manifest = m, !.step = "rename"]
  /\ UNCHANGED <<root, env, contents>>

RenameArtefact ==
  /\ op.kind = "organize" /\ op.step = "rename"
  /\ LET a == op.manifest.current
     IN env' = Move(root, env, a) /\ root' = Drop(root, a)
  /\ op' = [op EXCEPT !.step = "record"]
  /\ UNCHANGED <<manifests, contents>>

\* completedMoves grows and currentMove goes, in memory, then on disk.
Completed(m) == [m EXCEPT !.completed = Append(@, m.current), !.current = NoFile]

RecordMove ==
  /\ op.kind = "organize" /\ op.step = "record"
  /\ LET m == Completed(op.manifest)
     IN Save(m) /\ op' = [op EXCEPT !.manifest = m, !.step = "next"]
  /\ UNCHANGED <<root, env, contents>>

Applied ==
  /\ op.kind = "organize" /\ op.step = "next" /\ Left(op.manifest) = <<>>
  /\ Save([op.manifest EXCEPT !.status = "applied"])
  /\ op' = Idle
  /\ UNCHANGED <<root, env, contents>>

(***************************************************************************)
(* A file operation throws: the catch block writes the manifest as it is   *)
(* in memory, with status incomplete, and that write may fail too.         *)
(***************************************************************************)
OrganizeFails ==
  /\ op.kind = "organize"
  /\ LET m == IF op.step = "record" THEN Completed(op.manifest) ELSE op.manifest
     IN \/ Save([m EXCEPT !.status = "incomplete"])
        \/ UNCHANGED manifests
  /\ op' = Idle
  /\ UNCHANGED <<root, env, contents>>

----------------------------------------------------------------------------
(* restoreBootstrapEnvironmentLocked *)

\* Mutant: the move under way is forgotten.
MovesOfCompleted(m) == ToSet(m.completed)

\* completedMoves, and currentMove unless it is one of them.
MovesOf(m) == ToSet(m.completed) \cup ({m.current} \ {NoFile})

Restorable(m) ==
  /\ m.status # "restored"
  /\ \A a \in MovesOf(m) : (env[a] = NoFile) # (root[a] = NoFile)

\* Every move is examined before the first one is undone.
Restore ==
  /\ op = Idle
  /\ \E i \in DOMAIN manifests :
       /\ Restorable(manifests[i])
       /\ op' = [kind |-> "restore", index |-> i,
                 left |-> {a \in MovesOf(manifests[i]) : env[a] # NoFile}]
  /\ UNCHANGED <<root, env, manifests, contents>>

RestoreArtefact ==
  /\ op.kind = "restore"
  /\ \E a \in op.left :
       /\ root' = Move(env, root, a) /\ env' = Drop(env, a)
       /\ op' = [op EXCEPT !.left = @ \ {a}]
  /\ UNCHANGED <<manifests, contents>>

Restored ==
  /\ op.kind = "restore" /\ op.left = {}
  /\ manifests' = [manifests EXCEPT ![op.index].status = "restored",
                                    ![op.index].current = NoFile]
  /\ op' = Idle
  /\ UNCHANGED <<root, env, contents>>

\* The process dies, or a rename or the last write of restore throws.
Crash ==
  /\ op # Idle
  /\ op' = Idle
  /\ UNCHANGED <<root, env, manifests, contents>>

Done == op = Idle /\ UNCHANGED vars

Next == \/ OperatorWrites \/ Organize \/ AnnounceMove \/ RenameArtefact \/ RecordMove
        \/ Applied \/ OrganizeFails \/ Restore \/ RestoreArtefact \/ Restored
        \/ Crash \/ Done

Spec == Init /\ [][Next]_vars

----------------------------------------------------------------------------
(***************************************************************************)
(* No file is ever overwritten or lost, and whatever organize has moved is *)
(* recorded in a manifest that restore-layout still accepts, so a run that *)
(* crashed or failed between any two file operations can be undone         *)
(* (bootstrap-environment.mjs:178-183, 220-237).  Only a file the operator *)
(* has meanwhile written under the same name stands in the way.            *)
(***************************************************************************)
DisplacedIsRestorable ==
  /\ \A c \in 1..contents : \E a \in Artefacts : c \in {root[a], env[a]}
  /\ \A a \in Present(env) :
       \E i \in DOMAIN manifests :
         /\ manifests[i].status # "restored"
         /\ a \in MovesOf(manifests[i])
         /\ \A b \in MovesOf(manifests[i]) : b \in Present(root) \cup Present(env)

=============================================================================
