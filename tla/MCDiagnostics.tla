---------------------------- MODULE MCDiagnostics ----------------------------
(***************************************************************************)
(* Two small instances of DiagnosticsOverrides, told apart by part.  The   *)
(* constants give a replica modelled in full and requests, one after the   *)
(* other, on it and on another replica.  In Redis two requests overlap, on *)
(* three changes with room for two; what the replicas hold is left open,   *)
(* and required, which is about changes of one replica, is TRUE.           *)
(***************************************************************************)
EXTENDS DiagnosticsOverrides

CONSTANTS q1, q2

VARIABLE part

Overlapping == INSTANCE DiagnosticsOverrides WITH
  Instances <- {}, Ids <- 1 .. 3, Requests <- {q1, q2}, MaximumDetailItems <- 2

MCInit == \/ part = "replica" /\ Init
          \/ part = "redis" /\ Overlapping!Init /\ required

MCNext == \/ part = "replica" /\ Next /\ UNCHANGED part
          \/ part = "redis" /\ Overlapping!Next /\ UNCHANGED part

\* The fairness of DiagnosticsOverrides, for the part with a replica.
Steps(A) == part = "replica" /\ A /\ UNCHANGED part

MCSpec ==
  /\ MCInit /\ [][MCNext]_<<vars, part>>
  /\ \A q \in Requests : WF_<<vars, part>>(Steps(RequestSteps(q)))
  /\ \A i \in Instances : /\ WF_<<vars, part>>(Steps(ServiceSteps(i)))
                          /\ WF_<<vars, part>>(Steps(QueueReconciliation(i)))
                          /\ WF_<<vars, part>>(Steps(Subscribe(i)))
                          /\ WF_<<vars, part>>(Steps(Reconnect(i)))

-----------------------------------------------------------------------------
\* Redis holds at most one replica-wide change of a category, although requests
\* overlap and fail half way (DiagnosticsCoordination.cs:127-145, 444-451), and no
\* replica has two overrides of one category and scope in force.
OneOverrideInForce ==
  IF part = "replica" THEN OneOverridePerCategory ELSE Overlapping!OneOverridePerCategory

\* Once faults and changes have ended, the replica has exactly the replica-wide
\* overrides that Redis holds (DiagnosticsCoordination.cs:604-634).
ReplicaAgrees == <>[](part = "replica" => Agreement)
==============================================================================
