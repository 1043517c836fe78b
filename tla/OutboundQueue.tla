----------------------------- MODULE OutboundQueue -----------------------------
(***************************************************************************)
(* What a connection promises to the code that enqueues on it, whatever    *)
(* its locks and tasks do: messages leave in the order they were accepted, *)
(* none twice and none skipped; once delivery has stopped it never         *)
(* resumes; and the single close frame is the last thing on the wire.      *)
(***************************************************************************)
EXTENDS Naturals, Sequences

CONSTANTS Messages, Window

VARIABLES accepted, sent, stopped, closed

aqVars == <<accepted, sent, stopped, closed>>

AQInit == accepted = <<>> /\ sent = <<>> /\ stopped = FALSE /\ closed = FALSE

\* A message is taken in while the backlog is within the window.
Accept ==
  /\ Len(accepted) - Len(sent) < Window
  /\ \E m \in Messages : accepted' = Append(accepted, m)
  /\ UNCHANGED <<sent, stopped, closed>>

\* The oldest undelivered message is written.
Deliver ==
  /\ ~stopped /\ ~closed /\ Len(sent) < Len(accepted)
  /\ sent' = Append(sent, accepted[Len(sent) + 1])
  /\ UNCHANGED <<accepted, stopped, closed>>

Stop ==
  /\ ~stopped /\ stopped' = TRUE
  /\ UNCHANGED <<accepted, sent, closed>>

Close ==
  /\ ~closed /\ closed' = TRUE
  /\ UNCHANGED <<accepted, sent, stopped>>

AQNext == Accept \/ Deliver \/ Stop \/ Close

AQSpec == AQInit /\ [][AQNext]_aqVars
================================================================================
