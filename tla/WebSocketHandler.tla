--------------------------- MODULE WebSocketHandler ---------------------------
(***************************************************************************)
(* The life of one accepted WebSocket (src/src/Realtime.AspNetCore/        *)
(* RealtimeWebSocketHandler.cs, HandleAsync after registration) around the *)
(* connection of RealtimeConnection: the receive loop, the heartbeat loop, *)
(* the fan-out of RealtimeConnectionRegistry.DeliverAsync with its bounded *)
(* close, the close that a drain requests, and the teardown.               *)
(*                                                                         *)
(* One linked token covers the sender, the receiver and the heartbeat, so  *)
(* the three parties' cancellation is one event, CancelConnection.         *)
(***************************************************************************)
EXTENDS RealtimeConnection

CONSTANTS
  ReceiverClose,   \* RequestCloseAsync called by the receive loop
  HeartbeatClose,  \* RequestCloseAsync called by the heartbeat loop
  DeliverClose,    \* RequestCloseAsync called by CloseWithinTimeoutAsync
  DrainClose,      \* RequestCloseAsync called by CloseAllAsync
  RegistryClosers  \* which of the last two are in play

ASSUME CallersAssumption ==
  /\ RegistryClosers \subseteq {DeliverClose, DrainClose}
  /\ Closers = {ReceiverClose, HeartbeatClose, Disposer} \cup RegistryClosers
  /\ Cardinality({ReceiverClose, HeartbeatClose, DeliverClose, DrainClose, Disposer}) = 5
  /\ AbortingClosers = RegistryClosers \cap {DeliverClose}

VARIABLES
  receiver,    \* where RunReceiverAsync is
  heartbeat,   \* where RunHeartbeatAsync is
  handler,     \* where HandleAsync is
  registered,  \* the registry still lists the connection
  idle,        \* nothing valid was received for IdleTimeoutSeconds
  slowMarked   \* _slowConsumerDisconnectRecorded

handlerVars == <<receiver, heartbeat, handler, registered, idle, slowMarked>>
allVars == <<vars, handlerVars>>

HandlerInit ==
  /\ Init
  /\ receiver = "handled" /\ heartbeat = "ticking" /\ handler = "serving"
  /\ registered = TRUE /\ idle = FALSE /\ slowMarked = FALSE

TokenParties == {Sender, ReceiverClose, HeartbeatClose}

TokenCancelled == Sender \in cancelled

CancelConnection ==
  /\ cancelled' = cancelled \cup TokenParties
  /\ UNCHANGED <<disposing, disposer>>

\* A whole TryEnqueue up to the channel write; nothing happens when not open.
TryEnqueue(m) ==
  \/ TryEnqueueReserve(m)
  \/ TryEnqueueSaturated
  \/ writing = <<>> /\ ~IsOpen /\ UNCHANGED vars

-----------------------------------------------------------------------------
(* RunReceiverAsync.                                                       *)

\* A message is answered with one envelope (an acknowledgement or an error);
\* only a valid one counts as activity, and a fragment is then refused.  Past the
\* bound on accepted envelopes the answer is not followed further.
ReceiveCommand ==
  /\ receiver = "receiving" /\ transport \in {"Open", "CloseSent"}
  /\ \/ \E m \in Messages : TryEnqueue(m)
     \/ Len(accepted) = MaxAccepted /\ UNCHANGED vars
  /\ \/ receiver' = "handled" /\ idle' \in {idle, FALSE}
     \/ receiver' = "refusing" /\ idle' = idle
  /\ UNCHANGED <<heartbeat, handler, registered, slowMarked>>

\* while (connection.IsOpen)
ReceiverLoop ==
  /\ receiver = "handled" /\ writing = <<>>
  /\ receiver' = IF IsOpen THEN "receiving" ELSE "returned"
  /\ UNCHANGED <<vars, heartbeat, handler, registered, idle, slowMarked>>

\* The client's close frame, a frame that breaks the protocol, or an identity
\* that no longer holds: the loop requests the close and returns.
ReceiverRequestsClose ==
  /\ \/ receiver = "receiving" /\ transport \in {"Open", "CloseReceived", "CloseSent"}
     \/ receiver = "refusing" /\ writing = <<>>
  /\ RequestClose(ReceiverClose)
  /\ receiver' = "closing"
  /\ UNCHANGED <<heartbeat, handler, registered, idle, slowMarked>>

ReceiverReturns ==
  /\ receiver = "closing"
  /\ closer[ReceiverClose] \in {"done", "cancelled", "threw"}
  /\ receiver' = IF closer[ReceiverClose] = "cancelled" THEN "cancelled" ELSE "returned"
  /\ UNCHANGED <<vars, heartbeat, handler, registered, idle, slowMarked>>

\* ReceiveAsync throws because the socket is gone.
ReceiverFails ==
  /\ receiver = "receiving" /\ transport \in {"Aborted", "Disposed"}
  /\ receiver' = "returned"
  /\ UNCHANGED <<vars, heartbeat, handler, registered, idle, slowMarked>>

\* The connection token fired during the receive, which aborts the socket, or
\* during the handling of a command.
ReceiverCancelled ==
  /\ receiver = "receiving" /\ TokenCancelled
  /\ receiver' = "cancelled"
  /\ transport' \in {transport} \cup {s \in {"Aborted"} : transport # "Disposed"}
  /\ UNCHANGED <<closeFrames, queueVars, closeVars, lockVars, senderVars, lifeVars>>
  /\ UNCHANGED <<heartbeat, handler, registered, idle, slowMarked>>

\* catch (OperationCanceledException): the reason is the heartbeat's.
ReceiverAwaitsHeartbeat ==
  /\ receiver = "cancelled" /\ heartbeat = "done"
  /\ receiver' = "returned"
  /\ UNCHANGED <<vars, heartbeat, handler, registered, idle, slowMarked>>

-----------------------------------------------------------------------------
(* RunHeartbeatAsync.                                                      *)

\* Revalidation fails, the identity is expired, or the client is idle.
HeartbeatRequestsClose ==
  /\ heartbeat = "ticking"
  /\ RequestClose(HeartbeatClose)
  /\ heartbeat' = "closing"
  /\ UNCHANGED <<receiver, handler, registered, idle, slowMarked>>

HeartbeatPings ==
  /\ heartbeat = "ticking" /\ ~idle
  /\ \E m \in Messages : TryEnqueue(m)
  /\ heartbeat' = IF writing' = <<>> THEN "rejected" ELSE "pinged"
  /\ UNCHANGED <<receiver, handler, registered, idle, slowMarked>>

\* The ping was refused by a queue that has struck out; a written ping can only
\* have been refused by a completed channel.
HeartbeatFindsSlowConsumer ==
  /\ heartbeat = "rejected" \/ (heartbeat = "pinged" /\ writing = <<>> /\ completed)
  /\ HasExceededSlowConsumerLimit /\ ~slowMarked
  /\ slowMarked' = TRUE
  /\ RequestClose(HeartbeatClose)
  /\ heartbeat' = "closing"
  /\ UNCHANGED <<receiver, handler, registered, idle>>

HeartbeatContinues ==
  /\ \/ heartbeat = "rejected" /\ (~HasExceededSlowConsumerLimit \/ slowMarked)
     \/ heartbeat = "pinged" /\ writing = <<>>
  /\ heartbeat' = "ticking"
  /\ UNCHANGED <<vars, receiver, handler, registered, idle, slowMarked>>

\* Mutant: the heartbeat closes and leaves the receive loop to the client.
HeartbeatEnds ==
  /\ heartbeat = "closing" /\ closer[HeartbeatClose] = "done"
  /\ heartbeat' = "done"
  /\ UNCHANGED <<vars, receiver, handler, registered, idle, slowMarked>>

\* Only after its close has returned does the heartbeat cancel the connection.
HeartbeatCancels ==
  /\ heartbeat = "closing" /\ closer[HeartbeatClose] = "done"
  /\ CancelConnection
  /\ heartbeat' = "done"
  /\ UNCHANGED <<queueVars, closeVars, lockVars, senderVars, wireVars>>
  /\ UNCHANGED <<receiver, handler, registered, idle, slowMarked>>

HeartbeatCancelled ==
  /\ \/ heartbeat = "ticking" /\ TokenCancelled
     \/ heartbeat = "closing" /\ closer[HeartbeatClose] \in {"cancelled", "threw"}
  /\ heartbeat' = "done"
  /\ UNCHANGED <<vars, receiver, handler, registered, idle, slowMarked>>

-----------------------------------------------------------------------------
(* The registry: fan-out with its one-second close, and the drain.         *)

Deliver ==
  /\ registered
  /\ \E m \in Messages : TryEnqueue(m)
  /\ UNCHANGED handlerVars

\* Mutant: the disconnect is recorded and the close forgotten.
DeliverRecordsSlowConsumer ==
  /\ DeliverClose \in Closers /\ registered /\ HasExceededSlowConsumerLimit /\ ~slowMarked
  /\ IsOpen => queuedMessages >= Capacity \/ completed
  /\ slowMarked' = TRUE
  /\ UNCHANGED <<vars, receiver, heartbeat, handler, registered, idle>>

\* The envelope just offered was refused and the queue has struck out.
DeliverFindsSlowConsumer ==
  /\ DeliverClose \in Closers /\ registered /\ HasExceededSlowConsumerLimit /\ ~slowMarked
  /\ IsOpen => queuedMessages >= Capacity \/ completed
  /\ slowMarked' = TRUE
  /\ RequestClose(DeliverClose)
  /\ UNCHANGED <<receiver, heartbeat, handler, registered, idle>>

\* The recipient's session is no longer valid.
DeliverRequestsClose ==
  /\ DeliverClose \in Closers /\ registered
  /\ RequestClose(DeliverClose)
  /\ UNCHANGED handlerVars

CloseTimeout ==
  /\ DeliverClose \in Closers /\ closer[DeliverClose] \in {"waiting", "closing"}
  /\ Cancel(DeliverClose)
  /\ UNCHANGED handlerVars

DrainRequestsClose ==
  /\ DrainClose \in Closers /\ registered
  /\ RequestClose(DrainClose)
  /\ UNCHANGED handlerVars

-----------------------------------------------------------------------------
(* The end of HandleAsync.                                                 *)

Teardown ==
  /\ handler = "serving" /\ receiver = "returned"
  /\ CancelConnection
  /\ registered' = FALSE
  /\ handler' = "awaiting"
  /\ UNCHANGED <<queueVars, closeVars, lockVars, senderVars, wireVars>>
  /\ UNCHANGED <<receiver, heartbeat, idle, slowMarked>>

TasksCompleted ==
  /\ handler = "awaiting" /\ sender = "done" /\ heartbeat = "done"
  /\ handler' = "disposing"
  /\ UNCHANGED <<vars, receiver, heartbeat, registered, idle, slowMarked>>

Dispose ==
  /\ handler = "disposing"
  /\ DisposeDrain \/ DisposeRequestClose \/ DisposeTransport \/ DisposeSendLock
  /\ handler' = IF disposer' = "disposed" THEN "finished" ELSE "disposing"
  /\ UNCHANGED <<receiver, heartbeat, registered, idle, slowMarked>>

-----------------------------------------------------------------------------
(* The rest of the connection, and the client.                             *)

SendLoop ==
  /\ SenderTake \/ SenderStop \/ SenderWaitCancelled \/ SenderBeginSend \/ SenderRemoveQueued
  /\ UNCHANGED handlerVars

\* A write to the socket ends: it succeeds, fails, or its token fires.
SendEnds ==
  /\ SendCompleted \/ SendFailed
  /\ UNCHANGED handlerVars

\* Cancelling the token ends a write even when the client does not read.
SendCancelled ==
  /\ TokenCancelled /\ SendFailed
  /\ UNCHANGED handlerVars

EnqueueEnds == TryEnqueueWrite /\ UNCHANGED handlerVars

CloseProceeds(k) ==
  /\ CloseGranted(k) \/ CloseWaitCancelled(k) \/ CloseSendCancelled(k) \/ Abort(k)
  /\ UNCHANGED handlerVars

CloseEnds(k) ==
  /\ CloseCompleted(k) \/ CloseFailed(k)
  /\ UNCHANGED handlerVars

\* A close frame has nowhere to go once the socket is gone: no client is waited for.
CloseEndsOffline(k) ==
  /\ ~Writable
  /\ CloseCompleted(k) \/ CloseFailed(k)
  /\ UNCHANGED handlerVars

ClientCloses == PeerCloses /\ UNCHANGED handlerVars
ClientVanishes == NetworkFails /\ UNCHANGED handlerVars

\* HttpContext.RequestAborted
RequestAborted ==
  /\ ~TokenCancelled /\ transport = "Aborted"
  /\ CancelConnection
  /\ UNCHANGED <<queueVars, closeVars, lockVars, senderVars, wireVars, handlerVars>>

ClientFallsSilent ==
  /\ ~idle /\ idle' = TRUE
  /\ UNCHANGED <<vars, receiver, heartbeat, handler, registered, slowMarked>>

-----------------------------------------------------------------------------
HandlerNext ==
  \/ ReceiveCommand \/ ReceiverLoop \/ ReceiverRequestsClose \/ ReceiverReturns
  \/ ReceiverFails \/ ReceiverCancelled \/ ReceiverAwaitsHeartbeat
  \/ HeartbeatRequestsClose \/ HeartbeatPings \/ HeartbeatFindsSlowConsumer
  \/ HeartbeatContinues \/ HeartbeatCancels \/ HeartbeatCancelled
  \/ Deliver \/ DeliverFindsSlowConsumer \/ DeliverRequestsClose \/ CloseTimeout
  \/ DrainRequestsClose
  \/ Teardown \/ TasksCompleted \/ Dispose
  \/ SendLoop \/ SendEnds \/ SendCancelled \/ EnqueueEnds
  \/ (\E k \in Closers : CloseProceeds(k) \/ CloseEnds(k) \/ CloseEndsOffline(k))
  \/ ClientCloses \/ ClientVanishes \/ RequestAborted \/ ClientFallsSilent

\* A close frame that has arrived is handled.
ReceiverRuns ==
  \/ (receiver = "refusing" \/ transport = "CloseReceived") /\ ReceiverRequestsClose
  \/ ReceiverLoop \/ ReceiverReturns \/ ReceiverFails \/ ReceiverCancelled \/ ReceiverAwaitsHeartbeat

\* The pings are left out: only the decisions to end are owed.
HeartbeatRuns ==
  \/ idle /\ HeartbeatRequestsClose
  \/ HeartbeatFindsSlowConsumer \/ HeartbeatContinues \/ HeartbeatCancels \/ HeartbeatCancelled

\* Every task that can run does, and timers fire; a write that was cancelled or whose
\* socket is gone ends.  Nothing is assumed of the client.  The steps of the close calls
\* share one condition: each call takes finitely many.
ServerFairness ==
  /\ WF_allVars(EnqueueEnds)
  /\ WF_allVars(SendLoop \/ SendCancelled)
  /\ WF_allVars(ReceiverRuns)
  /\ WF_allVars(HeartbeatRuns)
  /\ WF_allVars(CloseTimeout \/ RequestAborted)
  /\ WF_allVars(\E k \in Closers : CloseProceeds(k) \/ CloseEndsOffline(k))
  /\ WF_allVars(Teardown \/ TasksCompleted \/ Dispose)
  /\ WF_allVars(ClientFallsSilent)

\* The client reads what is sent to it, or its connection breaks.
ReadingClient == WF_allVars(SendEnds) /\ WF_allVars(\E k \in Closers : CloseEnds(k))

StalledSpec == HandlerInit /\ [][HandlerNext]_allVars /\ ServerFairness
HandlerSpec == StalledSpec /\ ReadingClient

-----------------------------------------------------------------------------
\* The server ends the connection of a client that stays idle.
IdleClientIsClosed == idle ~> (~idle \/ handler = "finished")

\* Once a close has been requested and not withdrawn, or a slow consumer has been marked
\* for its disconnect, the handler ends: nobody is left waiting for a client that has been
\* told to go, and the mark that keeps a disconnect from being recorded twice never stands
\* for one that did not happen.
RequestedCloseEnds ==
  (closeRequested \/ slowMarked) ~> (handler = "finished" \/ ~(closeRequested \/ slowMarked))

\* Every RequestCloseAsync call returns to its caller, one way or another (each caller
\* calls once).
CloseCallsReturn == <>[](\A k \in Closers : closer[k] \notin {"waiting", "closing"})
===============================================================================
