-------------------------- MODULE RealtimeConnection --------------------------
(***************************************************************************)
(* One server-side connection (src/src/Realtime.AspNetCore/                *)
(* RealtimeConnection.cs): the bounded outbound queue, the single sender   *)
(* loop that drains it, the concurrent calls that close the connection,    *)
(* and its disposal.  A step is the code a thread runs between two awaits, *)
(* split further where another thread can observe the middle of it.        *)
(*                                                                         *)
(* Who enqueues is left open: TryEnqueue runs under the accounting lock,   *)
(* so `writing' (the message of the one caller inside it) is all that the  *)
(* producers' identities can influence.                                    *)
(***************************************************************************)
EXTENDS Integers, Sequences, FiniteSets

CONSTANTS
  Messages,         \* what TryEnqueue may be given
  Capacity,         \* RealtimeOptions.OutboundQueueCapacity
  StrikeLimit,      \* RealtimeOptions.SlowConsumerStrikeLimit
  Sender,           \* the task running RunSenderAsync
  Closers,          \* the calls of RequestCloseAsync, one identity per call
  Disposer,         \* the call that DisposeAsync itself makes
  AbortingClosers,  \* calls whose caller answers a cancelled close with Abort
  MaxAccepted       \* bound: messages the queue accepts over the whole run

ASSUME CapacityAssumption == Capacity \in Nat \ {0}
ASSUME StrikeLimitAssumption == StrikeLimit \in Nat \ {0}
ASSUME MaxAcceptedAssumption == MaxAccepted \in Nat
ASSUME PartiesAssumption ==
  /\ Disposer \in Closers
  /\ Sender \notin Closers
  /\ AbortingClosers \subseteq Closers \ {Disposer}

VARIABLES
  transport,           \* state of the underlying socket
  outbound,            \* contents of the bounded channel
  completed,           \* the channel's writer is completed
  writing,             \* message of the caller between the two halves of TryEnqueue
  queuedMessages,      \* _queuedMessages
  queueDepth,          \* this connection's share of the queue-depth gauge
  slowConsumerStrikes, \* _slowConsumerStrikes, saturating at StrikeLimit
  closeRequested,      \* _closeRequested
  disposing,           \* _disposing
  sendLock,            \* the holder of _sendLock, as a set of at most one party
  sendLockDisposed,    \* _sendLock.Dispose() has run
  sender,              \* where RunSenderAsync is
  inflight,            \* the message RunSenderAsync has taken off the channel
  closer,              \* where each RequestCloseAsync call is
  disposer,            \* where DisposeAsync is
  cancelled,           \* parties whose cancellation token has fired
  accepted,            \* history: messages TryEnqueue returned true for
  sent,                \* history: messages written to the wire
  closeFrames,         \* history: close frames written to the wire
  closeCodes           \* history: calls of RecordCloseCode

queueVars == <<outbound, completed, writing, queuedMessages, queueDepth, slowConsumerStrikes, accepted>>
closeVars == <<closeRequested, closer, closeCodes>>
lockVars == <<sendLock, sendLockDisposed>>
senderVars == <<sender, inflight, sent>>
wireVars == <<transport, closeFrames>>
lifeVars == <<disposing, disposer, cancelled>>
vars == <<queueVars, closeVars, lockVars, senderVars, wireVars, lifeVars>>

Parties == Closers \cup {Sender}
TransportStates == {"Open", "CloseReceived", "CloseSent", "Aborted", "Disposed"}
SenderStates == {"reading", "waiting", "sending", "removing", "removingLast", "done"}
CloserStates == {"idle", "waiting", "closing", "cancelled", "done", "threw"}
DisposerStates == {"none", "draining", "closing", "disposing", "unlocking", "disposed"}

\* The socket can still carry frames from the server.
Writable == transport \in {"Open", "CloseReceived"}

IsOpen == transport = "Open" /\ ~closeRequested /\ ~disposing

HasExceededSlowConsumerLimit == slowConsumerStrikes >= StrikeLimit

Strike(n) == IF n < StrikeLimit THEN n + 1 ELSE n

Init ==
  /\ transport = "Open" /\ closeFrames = 0
  /\ outbound = <<>> /\ completed = FALSE /\ writing = <<>> /\ accepted = <<>>
  /\ queuedMessages = 0 /\ queueDepth = 0 /\ slowConsumerStrikes = 0
  /\ closeRequested = FALSE /\ closer = [k \in Closers |-> "idle"] /\ closeCodes = 0
  /\ sendLock = {} /\ sendLockDisposed = FALSE
  /\ sender = "reading" /\ inflight = <<>> /\ sent = <<>>
  /\ disposing = FALSE /\ disposer = "none" /\ cancelled = {}

-----------------------------------------------------------------------------
(* TryEnqueue, under _queueAccountingLock.                                 *)

\* The queue is at capacity: the message is dropped and counted as a strike.
TryEnqueueSaturated ==
  /\ writing = <<>> /\ IsOpen /\ queuedMessages >= Capacity
  /\ slowConsumerStrikes' = Strike(slowConsumerStrikes)
  /\ UNCHANGED <<outbound, completed, writing, queuedMessages, queueDepth, accepted>>
  /\ UNCHANGED <<closeVars, lockVars, senderVars, wireVars, lifeVars>>

\* Mutant: the capacity test is off by one.

\* Room is reserved in the accounting before the channel is written.
TryEnqueueReserve(m) ==
  /\ writing = <<>> /\ IsOpen /\ queuedMessages < Capacity
  /\ Len(accepted) < MaxAccepted
  /\ writing' = <<m>>
  /\ queuedMessages' = queuedMessages + 1
  /\ queueDepth' = queueDepth + 1
  /\ UNCHANGED <<outbound, completed, slowConsumerStrikes, accepted>>
  /\ UNCHANGED <<closeVars, lockVars, senderVars, wireVars, lifeVars>>

\* Mutant: the counter is decremented without looking at it.

\* What RemoveQueuedMessage does to the two counters.
RemoveQueuedMessage ==
  /\ queuedMessages' = IF queuedMessages <= 0 THEN queuedMessages ELSE queuedMessages - 1
  /\ queueDepth' = IF queuedMessages <= 0 THEN queueDepth ELSE queueDepth - 1

\* Mutant: a failed write is a strike without a second look at IsOpen.

TryEnqueueWrite ==
  /\ writing # <<>>
  /\ writing' = <<>>
  /\ IF completed \/ Len(outbound) >= Capacity
       THEN /\ RemoveQueuedMessage
            /\ slowConsumerStrikes' = IF IsOpen THEN Strike(slowConsumerStrikes) ELSE slowConsumerStrikes
            /\ UNCHANGED <<outbound, accepted>>
       ELSE /\ outbound' = outbound \o writing
            /\ accepted' = accepted \o writing
            /\ slowConsumerStrikes' = 0
            /\ UNCHANGED <<queuedMessages, queueDepth>>
  /\ UNCHANGED completed
  /\ UNCHANGED <<closeVars, lockVars, senderVars, wireVars, lifeVars>>

-----------------------------------------------------------------------------
(* _sendLock: a SemaphoreSlim of one.  Release hands the lock to a waiter. *)

Waiting ==
  ({k \in Closers : closer[k] = "waiting"} \cup {p \in {Sender} : sender = "waiting"}) \ sendLock

WaitAsync(p) == sendLock' = IF sendLock = {} THEN {p} ELSE sendLock

ReleaseSendLock ==
  \/ sendLockDisposed /\ UNCHANGED sendLock
  \/ ~sendLockDisposed /\ Waiting = {} /\ sendLock' = {}
  \/ ~sendLockDisposed /\ \E p \in Waiting : sendLock' = {p}

-----------------------------------------------------------------------------
(* RunSenderAsync.                                                         *)

SenderTake ==
  /\ sender = "reading" /\ outbound # <<>>
  /\ inflight' = <<Head(outbound)>>
  /\ outbound' = Tail(outbound)
  /\ IF sendLockDisposed \/ Sender \in cancelled
       THEN sender' = "removingLast" /\ UNCHANGED sendLock
       ELSE sender' = "waiting" /\ WaitAsync(Sender)
  /\ UNCHANGED <<completed, writing, queuedMessages, queueDepth, slowConsumerStrikes, accepted>>
  /\ UNCHANGED <<closeVars, sendLockDisposed, sent, wireVars, lifeVars>>

\* The channel is drained and completed, or its read was cancelled.
SenderStop ==
  /\ sender = "reading"
  /\ (completed /\ outbound = <<>>) \/ Sender \in cancelled
  /\ sender' = "done"
  /\ UNCHANGED <<inflight, sent, queueVars, closeVars, lockVars, wireVars, lifeVars>>

SenderWaitCancelled ==
  /\ sender = "waiting" /\ Sender \notin sendLock /\ Sender \in cancelled
  /\ sender' = "removingLast"
  /\ UNCHANGED <<inflight, sent, queueVars, closeVars, lockVars, wireVars, lifeVars>>

\* Mutant: the early return on a closed transport keeps the lock.
SenderBeginSendKeepsLock ==
  /\ sender = "waiting" /\ Sender \in sendLock
  /\ sender' = IF transport = "Open" THEN "sending" ELSE "removingLast"
  /\ UNCHANGED <<inflight, sent, queueVars, closeVars, lockVars, wireVars, lifeVars>>

SenderBeginSend ==
  /\ sender = "waiting" /\ Sender \in sendLock
  /\ IF transport = "Open"
       THEN sender' = "sending" /\ UNCHANGED sendLock
       ELSE /\ sender' = IF sendLockDisposed THEN "done" ELSE "removingLast"
            /\ ReleaseSendLock
  /\ UNCHANGED <<inflight, sent, queueVars, closeVars, sendLockDisposed, wireVars, lifeVars>>

\* Releasing a disposed semaphore throws out of the finally block, which then
\* never reaches RemoveQueuedMessage.
SendCompleted ==
  /\ sender = "sending" /\ Writable
  /\ sent' = sent \o inflight
  /\ ReleaseSendLock
  /\ sender' = IF sendLockDisposed THEN "done" ELSE "removing"
  /\ UNCHANGED <<inflight, queueVars, closeVars, sendLockDisposed, wireVars, lifeVars>>

\* The send fails or is cancelled.  A WebSocket is aborted by that; an
\* interruptible transport stays open until it is closed.
SendFailed ==
  /\ sender = "sending"
  /\ transport' \in {transport} \cup {s \in {"Aborted"} : Writable}
  /\ ReleaseSendLock
  /\ sender' = IF sendLockDisposed THEN "done" ELSE "removingLast"
  /\ UNCHANGED <<inflight, sent, queueVars, closeVars, sendLockDisposed, closeFrames, lifeVars>>

\* Mutant: the loop is restarted after a failure instead of ending.
SenderRemoveQueuedRestarts ==
  /\ sender \in {"removing", "removingLast"} /\ writing = <<>>
  /\ RemoveQueuedMessage
  /\ inflight' = <<>>
  /\ sender' = "reading"
  /\ UNCHANGED <<outbound, completed, writing, slowConsumerStrikes, accepted, sent>>
  /\ UNCHANGED <<closeVars, lockVars, wireVars, lifeVars>>

SenderRemoveQueued ==
  /\ sender \in {"removing", "removingLast"} /\ writing = <<>>
  /\ RemoveQueuedMessage
  /\ inflight' = <<>>
  /\ sender' = IF sender = "removing" THEN "reading" ELSE "done"
  /\ UNCHANGED <<outbound, completed, writing, slowConsumerStrikes, accepted, sent>>
  /\ UNCHANGED <<closeVars, lockVars, wireVars, lifeVars>>

-----------------------------------------------------------------------------
(* RequestCloseAsync and Abort.                                            *)

\* Up to the first await: the exchange on _closeRequested, completing the
\* channel, and the call of WaitAsync, which throws on a disposed semaphore.
BeginClose(k) ==
  IF closeRequested
    THEN /\ closer' = [closer EXCEPT ![k] = "done"]
         /\ UNCHANGED <<closeRequested, completed, closeCodes, sendLock>>
    ELSE /\ closeRequested' = TRUE
         /\ completed' = TRUE
         /\ IF sendLockDisposed
              THEN /\ closer' = [closer EXCEPT ![k] = "done"]
                   /\ closeCodes' = closeCodes + 1
                   /\ UNCHANGED sendLock
              ELSE /\ closer' = [closer EXCEPT ![k] = "waiting"]
                   /\ WaitAsync(k)
                   /\ UNCHANGED closeCodes

RequestClose(k) ==
  /\ k # Disposer /\ closer[k] = "idle"
  /\ BeginClose(k)
  /\ UNCHANGED <<outbound, writing, queuedMessages, queueDepth, slowConsumerStrikes, accepted>>
  /\ UNCHANGED <<sendLockDisposed, senderVars, wireVars, lifeVars>>

CloseGranted(k) ==
  /\ closer[k] = "waiting" /\ k \in sendLock
  /\ closer' = [closer EXCEPT ![k] = "closing"]
  /\ UNCHANGED <<closeRequested, closeCodes, queueVars, lockVars, senderVars, wireVars, lifeVars>>

AfterRelease == IF sendLockDisposed THEN "threw" ELSE "done"

\* CloseAsync returned: a close frame went out if the socket could carry one.
CloseCompleted(k) ==
  /\ closer[k] = "closing"
  /\ IF Writable
       THEN transport' = "CloseSent" /\ closeFrames' = closeFrames + 1
       ELSE UNCHANGED wireVars
  /\ closeCodes' = closeCodes + 1
  /\ ReleaseSendLock
  /\ closer' = [closer EXCEPT ![k] = AfterRelease]
  /\ UNCHANGED <<closeRequested, queueVars, sendLockDisposed, senderVars, lifeVars>>

\* CloseAsync threw: the failure is recorded as 1011.
CloseFailed(k) ==
  /\ closer[k] = "closing"
  /\ transport' = IF Writable THEN "Aborted" ELSE transport
  /\ closeCodes' = closeCodes + 1
  /\ ReleaseSendLock
  /\ closer' = [closer EXCEPT ![k] = AfterRelease]
  /\ UNCHANGED <<closeRequested, closeFrames, queueVars, sendLockDisposed, senderVars, lifeVars>>

\* Mutant: the finally block releases a lock that was never taken.
CloseWaitCancelledReleases(k) ==
  /\ closer[k] = "waiting" /\ k \notin sendLock /\ k \in cancelled
  /\ closeRequested' = FALSE
  /\ sendLock' = {}
  /\ closer' = [closer EXCEPT ![k] = "cancelled"]
  /\ UNCHANGED <<closeCodes, queueVars, sendLockDisposed, senderVars, wireVars, lifeVars>>

\* The caller's token fired during WaitAsync: _closeRequested is reset.
CloseWaitCancelled(k) ==
  /\ closer[k] = "waiting" /\ k \notin sendLock /\ k \in cancelled
  /\ closeRequested' = FALSE
  /\ closer' = [closer EXCEPT ![k] = "cancelled"]
  /\ UNCHANGED <<closeCodes, queueVars, lockVars, senderVars, wireVars, lifeVars>>

\* The caller's token fired during CloseAsync, which aborts the socket.
CloseSendCancelled(k) ==
  /\ closer[k] = "closing" /\ k \in cancelled
  /\ closeRequested' = FALSE
  /\ transport' = IF Writable THEN "Aborted" ELSE transport
  /\ ReleaseSendLock
  /\ closer' = [closer EXCEPT ![k] = IF sendLockDisposed THEN "threw" ELSE "cancelled"]
  /\ UNCHANGED <<closeCodes, closeFrames, queueVars, sendLockDisposed, senderVars, lifeVars>>

\* Mutant: Abort does not look at _closeRequested.

Abort(k) ==
  /\ closer[k] = "cancelled" /\ k \in AbortingClosers
  /\ closer' = [closer EXCEPT ![k] = "done"]
  /\ IF closeRequested
       THEN UNCHANGED <<closeRequested, closeCodes, completed, transport>>
       ELSE /\ closeRequested' = TRUE
            /\ closeCodes' = closeCodes + 1
            /\ completed' = TRUE
            /\ transport' = IF transport = "Disposed" THEN transport ELSE "Aborted"
  /\ UNCHANGED <<outbound, writing, queuedMessages, queueDepth, slowConsumerStrikes, accepted>>
  /\ UNCHANGED <<closeFrames, lockVars, senderVars, lifeVars>>

-----------------------------------------------------------------------------
(* DisposeAsync.                                                           *)

\* Mutant: the gauge is corrected without zeroing _queuedMessages.
DisposeDrainKeepsCount ==
  /\ disposer = "none" /\ writing = <<>>
  /\ disposing' = TRUE
  /\ completed' = TRUE
  /\ queueDepth' = queueDepth - queuedMessages
  /\ disposer' = "draining"
  /\ UNCHANGED <<outbound, writing, queuedMessages, slowConsumerStrikes, accepted, cancelled>>
  /\ UNCHANGED <<closeVars, lockVars, senderVars, wireVars>>

DisposeDrain ==
  /\ disposer = "none" /\ writing = <<>>
  /\ disposing' = TRUE
  /\ completed' = TRUE
  /\ queueDepth' = queueDepth - queuedMessages
  /\ queuedMessages' = 0
  /\ disposer' = "draining"
  /\ UNCHANGED <<outbound, writing, slowConsumerStrikes, accepted, cancelled>>
  /\ UNCHANGED <<closeVars, lockVars, senderVars, wireVars>>

DisposeRequestClose ==
  /\ disposer = "draining"
  /\ IF transport = "Open"
       THEN BeginClose(Disposer) /\ disposer' = "closing"
       ELSE disposer' = "disposing" /\ UNCHANGED <<closeVars, completed, sendLock>>
  /\ UNCHANGED <<outbound, writing, queuedMessages, queueDepth, slowConsumerStrikes, accepted>>
  /\ UNCHANGED <<disposing, cancelled, sendLockDisposed, senderVars, wireVars>>

DisposeTransport ==
  /\ \/ disposer = "closing" /\ closer[Disposer] = "done"
     \/ disposer = "disposing"
  /\ disposer' = "unlocking"
  /\ transport' = "Disposed"
  /\ UNCHANGED <<disposing, cancelled, closeFrames, queueVars, closeVars, lockVars, senderVars>>

DisposeSendLock ==
  /\ disposer = "unlocking"
  /\ disposer' = "disposed"
  /\ sendLockDisposed' = TRUE
  /\ UNCHANGED <<disposing, cancelled, sendLock, queueVars, closeVars, senderVars, wireVars>>

-----------------------------------------------------------------------------
(* The environment: the peer, the network and the callers' tokens.         *)

PeerCloses ==
  /\ transport = "Open"
  /\ transport' = "CloseReceived"
  /\ UNCHANGED <<closeFrames, queueVars, closeVars, lockVars, senderVars, lifeVars>>

NetworkFails ==
  /\ transport \in {"Open", "CloseReceived", "CloseSent"}
  /\ transport' = "Aborted"
  /\ UNCHANGED <<closeFrames, queueVars, closeVars, lockVars, senderVars, lifeVars>>

\* DisposeAsync closes with CancellationToken.None.
Cancel(p) ==
  /\ p \notin cancelled /\ p # Disposer
  /\ cancelled' = cancelled \cup {p}
  /\ UNCHANGED <<disposing, disposer, queueVars, closeVars, lockVars, senderVars, wireVars>>

-----------------------------------------------------------------------------
Next ==
  \/ TryEnqueueSaturated \/ (\E m \in Messages : TryEnqueueReserve(m)) \/ TryEnqueueWrite
  \/ SenderTake \/ SenderStop \/ SenderWaitCancelled \/ SenderBeginSend
  \/ SendCompleted \/ SendFailed \/ SenderRemoveQueued
  \/ \E k \in Closers :
       \/ RequestClose(k) \/ CloseGranted(k) \/ CloseCompleted(k) \/ CloseFailed(k)
       \/ CloseWaitCancelled(k) \/ CloseSendCancelled(k) \/ Abort(k)
  \/ DisposeDrain \/ DisposeRequestClose \/ DisposeTransport \/ DisposeSendLock
  \/ PeerCloses \/ NetworkFails \/ (\E p \in Parties : Cancel(p))

Spec == Init /\ [][Next]_vars

-----------------------------------------------------------------------------
TypeOK ==
  /\ transport \in TransportStates /\ closeFrames \in Nat
  /\ outbound \in Seq(Messages) /\ writing \in Seq(Messages) /\ inflight \in Seq(Messages)
  /\ accepted \in Seq(Messages) /\ sent \in Seq(Messages)
  /\ completed \in BOOLEAN /\ closeRequested \in BOOLEAN /\ disposing \in BOOLEAN
  /\ queuedMessages \in Nat /\ queueDepth \in Int
  /\ slowConsumerStrikes \in 0..StrikeLimit
  /\ sendLock \in SUBSET Parties /\ sendLockDisposed \in BOOLEAN
  /\ sender \in SenderStates
  /\ closer \in [Closers -> CloserStates] /\ closeCodes \in Nat
  /\ disposer \in DisposerStates
  /\ cancelled \in SUBSET Parties

-----------------------------------------------------------------------------
(* Properties.                                                             *)

\* The queue-depth gauge agrees with _queuedMessages, which counts exactly the
\* messages in the channel, with the sender and being written; after
\* DisposeAsync has taken the rest off the gauge nothing is taken off twice.
QueueAccounting ==
  /\ queueDepth = queuedMessages
  /\ queuedMessages = IF disposing THEN 0 ELSE Len(outbound) + Len(inflight) + Len(writing)

\* The message being sent occupies queue capacity too, and a message that
\* TryEnqueue has reserved room for finds room in the channel: TryWrite can only
\* fail because the channel is completed, never because it is full.
BoundedBacklog ==
  /\ Len(outbound) + Len(inflight) <= Capacity
  /\ writing # <<>> => Len(outbound) < Capacity

\* Messages reach the wire in the order TryEnqueue accepted them, none skipped
\* and none repeated, through failed sends, closes and disposal.
FifoDelivery ==
  /\ Len(sent) <= Len(accepted)
  /\ \A i \in 1..Len(sent) : sent[i] = accepted[i]

\* One connection is counted under at most one close code, however many calls
\* of RequestCloseAsync and Abort race, are cancelled and are retried.
CloseCodeOnce == closeCodes <= 1

\* A data frame and a close frame, or two close frames, are never being written
\* at the same time.
WireExclusion ==
  \A k \in Closers : closer[k] = "closing" =>
    sender # "sending" /\ \A j \in Closers \ {k} : closer[j] # "closing"

\* A failed send leaves its message undelivered but no longer queued, hence one
\* message more than the capacity.
Queue == INSTANCE OutboundQueue WITH
  Window <- Capacity + 1,
  stopped <- sender \in {"removingLast", "done"},
  closed <- closeFrames > 0

\* The connection implements the abstract queue: ordered delivery that never
\* resumes after a failure and never follows the close frame.
ImplementsQueue == Queue!AQSpec
=============================================================================
