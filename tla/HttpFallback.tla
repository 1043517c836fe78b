----------------------------- MODULE HttpFallback -----------------------------
(***************************************************************************)
(* One HTTP fallback connection (src/src/Realtime.HttpFallback): the       *)
(* transport that hands one payload at a time from the sender of a         *)
(* RealtimeConnection to an HTTP request, the connection manager, and the  *)
(* endpoints for commands, polls, the stream and the close.                *)
(*                                                                         *)
(* Payloads are numbered in the order the sender takes them.  Of the       *)
(* RealtimeConnection around the transport what matters here is kept: the  *)
(* sender loop, the send lock with its disposal, RequestCloseAsync, Abort. *)
(***************************************************************************)
EXTENDS Naturals, Sequences, FiniteSets

CONSTANTS
  Polls,        \* poll requests, each made once
  MaxPayloads   \* bound on the payloads the sender has to send

Payloads == 1..MaxPayloads
Stream == "stream"

\* The stream request is not one of the polls.
ASSUME HttpFallbackAssumption == MaxPayloads \in Nat \ {0} /\ Stream \notin Polls

Requests == Polls \cup {Stream}
\* Who may call the manager's CloseAsync, and who may call RequestCloseAsync.
Callers == {"client", Stream, "run"}
Closers == {"manager", "registry", "dispose"}

VARIABLES
  open,              \* HttpFallbackTransport._open
  pendingCancelled,  \* _pendingSendCancelled
  pending,           \* _pending, 0 when null
  channel,           \* the transport's channel of one
  channelCompleted,
  consumed,          \* per payload, its Consumed task
  sender,            \* where RunSenderAsync and SendAsync are
  current,           \* the payload being sent
  sentOk,            \* payloads recorded as sent
  sendLock,          \* "free" or its holder
  lockDisposed,
  closeRequested,
  closer,            \* per caller of RequestCloseAsync, where it is
  entry,             \* the manager still lists the connection
  lifetimeCancelled, \* State.Lifetime
  gate,              \* holder of State.InboundGate or "free"
  command,           \* where MessagesAsync is: "idle", "dispatching", "closing"
  call,              \* per caller of CloseAsync, where it is
  core,              \* where CloseCoreAsync is
  receiverMode,      \* 0, 1 polling, 2 streaming
  attached,          \* _receiverAttached is set
  request,           \* per request: where it is
  reading,           \* per request: the payload it has read, 0 if none
  handed,            \* payloads in the order requests read them
  run,               \* where RunAsync is
  idle               \* no command for IdleTimeoutSeconds

transportVars == <<open, pendingCancelled, pending, channel, channelCompleted, consumed>>
senderVars == <<sender, current, sentOk>>
lockVars == <<sendLock, lockDisposed>>
closeVars == <<closeRequested, closer>>
managerVars == <<entry, lifetimeCancelled, gate, command, call, core>>
receiverVars == <<receiverMode, attached, request, reading, handed>>
runVars == <<run, idle>>
vars == <<transportVars, senderVars, lockVars, closeVars, managerVars, receiverVars, runVars>>

Init ==
  /\ open = TRUE /\ pendingCancelled = FALSE /\ pending = 0
  /\ channel = <<>> /\ channelCompleted = FALSE
  /\ consumed = [n \in Payloads |-> "waiting"]
  /\ sender = "none" /\ current = 0 /\ sentOk = {}
  /\ sendLock = "free" /\ lockDisposed = FALSE
  /\ closeRequested = FALSE /\ closer = [k \in Closers |-> "idle"]
  /\ entry = FALSE /\ lifetimeCancelled = FALSE /\ gate = "free" /\ command = "idle"
  /\ call = [c \in Callers |-> "idle"] /\ core = "none"
  /\ receiverMode = 0 /\ attached = FALSE
  /\ request = [r \in Requests |-> "idle"] /\ reading = [r \in Requests |-> 0] /\ handed = <<>>
  /\ run = "creating" /\ idle = FALSE

\* RealtimeConnection.IsOpen
IsOpen == open /\ ~closeRequested /\ core \notin {"disposing", "unlocking", "finished"}

\* The client learns the connection's id and token once it is created.
Created == run \notin {"creating", "registering", "refused"}

\* TryGet and IsActive.
IsActive == Created /\ entry /\ IsOpen

Waiters == {k \in Closers : closer[k] = "waiting"} \cup {s \in {"sender"} : sender = "locking"}

\* SemaphoreSlim.Release hands the lock to a waiter; on a disposed lock it throws and
\* the waiters stay where they are.
Release == sendLock' \in IF Waiters = {} \/ lockDisposed THEN {"free"} ELSE Waiters

Cancelled(n) == [consumed EXCEPT ![n] = IF @ = "waiting" THEN "cancelled" ELSE @]

-----------------------------------------------------------------------------
(* RunSenderAsync with HttpFallbackTransport.SendAsync.                    *)

\* A close completes the queue, and what is queued by then is still taken.
SenderTake ==
  /\ sender = "reading" /\ current < MaxPayloads
  /\ ~lifetimeCancelled
  /\ current' = current + 1
  /\ IF sendLock = "free" THEN sender' = "checking" /\ sendLock' = "sender"
                          ELSE sender' = "locking" /\ UNCHANGED sendLock
  /\ UNCHANGED <<sentOk, lockDisposed, transportVars, closeVars, managerVars, receiverVars, runVars>>

\* The queue is completed by a close and empty, or the lifetime token fires.
SenderStop ==
  /\ \/ sender = "reading" /\ (closeRequested \/ lifetimeCancelled)
     \/ sender = "locking" /\ sendLock # "sender" /\ lifetimeCancelled
  /\ sender' = "ended"
  /\ UNCHANGED <<current, sentOk, lockVars, transportVars, closeVars, managerVars, receiverVars, runVars>>

SenderGranted ==
  /\ sender = "locking" /\ sendLock = "sender"
  /\ sender' = "checking"
  /\ UNCHANGED <<current, sentOk, lockVars, transportVars, closeVars, managerVars, receiverVars, runVars>>

\* SendAsync's two checks on entry; either failure ends the sender.
SendCheck ==
  /\ sender = "checking"
  /\ IF open /\ ~pendingCancelled THEN sender' = "publishing" /\ UNCHANGED sendLock
                                  ELSE sender' = "ended" /\ Release
  /\ UNCHANGED <<current, sentOk, lockDisposed, transportVars, closeVars, managerVars, receiverVars, runVars>>

SendPublish ==
  /\ sender = "publishing"
  /\ pending' = current
  /\ sender' = "published"
  /\ UNCHANGED <<current, sentOk, lockVars, open, pendingCancelled, channel, channelCompleted, consumed>>
  /\ UNCHANGED <<closeVars, managerVars, receiverVars, runVars>>

\* Mutant: a cancellation between the first check and the publication goes unnoticed.
SendWithoutRecheck ==
  /\ sender = "published"
  /\ sender' = "writing"
  /\ UNCHANGED <<current, sentOk, lockVars, transportVars, closeVars, managerVars, receiverVars, runVars>>

SendRecheck ==
  /\ sender = "published"
  /\ consumed' = IF pendingCancelled THEN Cancelled(current) ELSE consumed
  /\ sender' = "writing"
  /\ UNCHANGED <<current, sentOk, lockVars, open, pendingCancelled, pending, channel, channelCompleted>>
  /\ UNCHANGED <<closeVars, managerVars, receiverVars, runVars>>


SendWrite ==
  /\ sender = "writing" /\ ~channelCompleted /\ channel = <<>>
  /\ channel' = <<current>>
  /\ sender' = "awaiting"
  /\ UNCHANGED <<current, sentOk, lockVars, open, pendingCancelled, pending, channelCompleted, consumed>>
  /\ UNCHANGED <<closeVars, managerVars, receiverVars, runVars>>

\* The payload was consumed: it counts as sent, and the loop goes on.
SendSucceeds ==
  /\ sender = "awaiting" /\ consumed[current] = "completed"
  /\ sentOk' = sentOk \cup {current}
  /\ pending' = IF pending = current THEN 0 ELSE pending
  /\ Release
  /\ sender' = IF lockDisposed THEN "ended" ELSE "reading"
  /\ UNCHANGED <<current, lockDisposed, open, pendingCancelled, channel, channelCompleted, consumed>>
  /\ UNCHANGED <<closeVars, managerVars, receiverVars, runVars>>

\* The wait is cancelled, the token fires, or the channel was completed.
SendFails ==
  /\ \/ sender = "awaiting" /\ (consumed[current] = "cancelled" \/ lifetimeCancelled)
     \/ sender = "writing" /\ (channelCompleted \/ lifetimeCancelled)
  /\ pending' = IF pending = current THEN 0 ELSE pending
  /\ Release
  /\ sender' = "ended"
  /\ UNCHANGED <<current, sentOk, lockDisposed, open, pendingCancelled, channel, channelCompleted, consumed>>
  /\ UNCHANGED <<closeVars, managerVars, receiverVars, runVars>>

-----------------------------------------------------------------------------
(* RequestCloseAsync over the interruptible transport, and Abort.          *)

CloseStep(k, pc) == closer' = [closer EXCEPT ![k] = pc]

RequestClose(k) ==
  /\ closer[k] = "idle"
  /\ CloseStep(k, IF closeRequested THEN "done" ELSE "flagging")
  /\ closeRequested' = TRUE

RegistryRequestsClose ==
  /\ Created /\ entry /\ RequestClose("registry")
  /\ UNCHANGED <<transportVars, senderVars, lockVars, managerVars, receiverVars, runVars>>

\* CancelPendingSend, first half.
CancelFlag(k) ==
  /\ closer[k] = "flagging"
  /\ pendingCancelled' = TRUE
  /\ CloseStep(k, "exchanging")
  /\ UNCHANGED <<closeRequested, open, pending, channel, channelCompleted, consumed>>
  /\ UNCHANGED <<senderVars, lockVars, managerVars, receiverVars, runVars>>

\* CancelPendingSend, second half.
CancelExchange(k) ==
  /\ closer[k] = "exchanging"
  /\ consumed' = IF pending = 0 THEN consumed ELSE Cancelled(pending)
  /\ pending' = 0
  /\ CloseStep(k, "locking")
  /\ UNCHANGED <<closeRequested, open, pendingCancelled, channel, channelCompleted>>
  /\ UNCHANGED <<senderVars, lockVars, managerVars, receiverVars, runVars>>

CloseLock(k) ==
  /\ closer[k] = "locking"
  /\ \/ lockDisposed /\ CloseStep(k, "done") /\ UNCHANGED sendLock
     \/ ~lockDisposed /\ sendLock = "free" /\ CloseStep(k, "closing") /\ sendLock' = k
     \/ ~lockDisposed /\ sendLock # "free" /\ CloseStep(k, "waiting") /\ UNCHANGED sendLock
  /\ UNCHANGED <<closeRequested, lockDisposed, transportVars, senderVars, managerVars, receiverVars, runVars>>

CloseGranted(k) ==
  /\ closer[k] = "waiting" /\ sendLock = k
  /\ CloseStep(k, "closing")
  /\ UNCHANGED <<closeRequested, lockVars, transportVars, senderVars, managerVars, receiverVars, runVars>>

\* HttpFallbackTransport.Close: complete the channel and cancel what is pending.
CloseTransport ==
  /\ open' = FALSE
  /\ channelCompleted' = TRUE
  /\ pendingCancelled' = TRUE
  /\ consumed' = IF open /\ pending # 0 THEN Cancelled(pending) ELSE consumed
  /\ pending' = IF open THEN 0 ELSE pending
  /\ UNCHANGED channel

CloseEnds(k) ==
  /\ closer[k] = "closing"
  /\ CloseTransport
  /\ Release
  /\ CloseStep(k, "done")
  /\ UNCHANGED <<closeRequested, lockDisposed, senderVars, managerVars, receiverVars, runVars>>

\* The caller's token fires during the wait: the request is withdrawn, then Abort
\* takes it back unless someone else has it.  The registry's caller is bounded by a
\* timeout, the manager's by its HTTP request.
CloseCancelled(k) ==
  /\ closer[k] = "waiting" /\ sendLock # k /\ k # "dispose"
  /\ k = "manager" => gate \in {"client", "command"}
  /\ closeRequested' = FALSE
  /\ CloseStep(k, "aborting")
  /\ UNCHANGED <<lockVars, transportVars, senderVars, managerVars, receiverVars, runVars>>

Abort(k) ==
  /\ closer[k] = "aborting"
  /\ IF closeRequested THEN UNCHANGED transportVars ELSE CloseTransport
  /\ closeRequested' = TRUE
  /\ CloseStep(k, "done")
  /\ UNCHANGED <<senderVars, lockVars, managerVars, receiverVars, runVars>>

-----------------------------------------------------------------------------
(* The manager: Create, CloseAsync and CloseCoreAsync.                     *)

CreateEntry ==
  /\ run = "creating"
  /\ \/ entry' = TRUE /\ run' = "registering"
     \/ entry' = FALSE /\ run' = "refused"      \* draining
  /\ UNCHANGED <<idle, lifetimeCancelled, gate, command, call, core, transportVars, senderVars, lockVars, closeVars, receiverVars>>

\* The registry takes the connection, or refuses it because a drain has begun.
CreateRegisters ==
  /\ run = "registering"
  /\ \/ /\ run' = "awaitingReceiver" /\ sender' = "reading"
        /\ UNCHANGED <<entry, closeRequested, transportVars>>
     \/ /\ run' = "refused" /\ entry' = FALSE
        /\ closeRequested' = TRUE /\ CloseTransport
        /\ UNCHANGED sender
  /\ UNCHANGED <<idle, lifetimeCancelled, gate, command, call, core, current, sentOk, closer, lockVars, receiverVars>>

\* Mutant: CloseAsync does not wait for the command in progress.
CloseCallUngated(c) ==
  /\ call[c] = "gate"
  /\ IF entry
       THEN /\ entry' = FALSE /\ lifetimeCancelled' = TRUE
            /\ gate' = c /\ core' = "requesting"
            /\ call' = [call EXCEPT ![c] = "closing"]
       ELSE call' = [call EXCEPT ![c] = "done"] /\ UNCHANGED <<entry, lifetimeCancelled, gate, core>>
  /\ UNCHANGED <<command, transportVars, senderVars, lockVars, closeVars, receiverVars, runVars>>

\* The gate is obtained; the first caller removes the entry, from the manager and
\* from the registry, cancels the lifetime and runs the rest.
CloseCall(c) ==
  /\ call[c] = "gate" /\ gate = "free"
  /\ IF entry
       THEN /\ entry' = FALSE /\ lifetimeCancelled' = TRUE
            /\ gate' = c /\ core' = "requesting"
            /\ call' = [call EXCEPT ![c] = "closing"]
       ELSE call' = [call EXCEPT ![c] = "done"] /\ UNCHANGED <<entry, lifetimeCancelled, gate, core>>
  /\ UNCHANGED <<command, transportVars, senderVars, lockVars, closeVars, receiverVars, runVars>>

CoreRequestsClose ==
  /\ core = "requesting" /\ RequestClose("manager")
  /\ UNCHANGED <<transportVars, senderVars, lockVars, managerVars, receiverVars, runVars>>

\* DisposeAsync: a close of its own if the transport is still open ...
CoreDisposes ==
  /\ core = "requesting" /\ closer["manager"] = "done"
  /\ core' = "disposing"
  /\ IF open THEN RequestClose("dispose") ELSE CloseStep("dispose", "done") /\ UNCHANGED closeRequested
  /\ UNCHANGED <<entry, lifetimeCancelled, gate, command, call, transportVars, senderVars, lockVars, receiverVars, runVars>>

\* ... then the transport ...
CoreDisposesTransport ==
  /\ core = "disposing" /\ closer["dispose"] = "done"
  /\ core' = "unlocking"
  /\ CloseTransport
  /\ UNCHANGED <<entry, lifetimeCancelled, gate, command, call, closeVars, senderVars, lockVars, receiverVars, runVars>>

\* ... then the lock, whoever holds it; the sender is not awaited.
CoreDisposesLock ==
  /\ core = "unlocking"
  /\ core' = "finished" /\ lockDisposed' = TRUE
  /\ gate' = "free" /\ command' = "idle"
  /\ call' = [c \in Callers |-> IF call[c] = "closing" THEN "done" ELSE call[c]]
  /\ UNCHANGED <<entry, lifetimeCancelled, sendLock, closeVars, transportVars, senderVars, receiverVars, runVars>>

\* MessagesAsync: one command at a time, and only while the connection is active.
CommandBegins ==
  /\ gate = "free" /\ IsActive
  /\ gate' = "command" /\ command' = "dispatching"
  /\ UNCHANGED <<entry, lifetimeCancelled, call, core, transportVars, senderVars, lockVars, closeVars, receiverVars, runVars>>

CommandEnds ==
  /\ command = "dispatching"
  /\ gate' = "free" /\ command' = "idle"
  /\ idle' \in {idle, FALSE}
  /\ UNCHANGED <<entry, lifetimeCancelled, call, core, run, transportVars, senderVars, lockVars, closeVars, receiverVars>>

\* Revalidation failed inside the gate.
CommandCloses ==
  /\ command = "dispatching"
  /\ command' = "closing"
  /\ entry' = FALSE /\ lifetimeCancelled' = TRUE /\ core' = "requesting"
  /\ UNCHANGED <<gate, call, transportVars, senderVars, lockVars, closeVars, receiverVars, runVars>>

ClientRequestsClose ==
  /\ IsActive /\ call["client"] = "idle"
  /\ call' = [call EXCEPT !["client"] = "gate"]
  /\ UNCHANGED <<entry, lifetimeCancelled, gate, command, core, transportVars, senderVars, lockVars, closeVars, receiverVars, runVars>>

-----------------------------------------------------------------------------
(* The receiving requests.                                                 *)

Goto(r, pc) == request' = [request EXCEPT ![r] = pc]

TryBeginPoll(p) ==
  /\ request[p] = "idle" /\ IsActive /\ receiverMode = 0
  /\ receiverMode' = 1 /\ attached' = TRUE
  /\ Goto(p, "reading")
  /\ UNCHANGED <<reading, handed, transportVars, senderVars, lockVars, closeVars, managerVars, runVars>>

TryAttachStream ==
  /\ request[Stream] = "idle" /\ IsActive /\ receiverMode = 0
  /\ receiverMode' = 2 /\ attached' = TRUE
  /\ Goto(Stream, "reading")
  /\ UNCHANGED <<reading, handed, transportVars, senderVars, lockVars, closeVars, managerVars, runVars>>

Read(r) ==
  /\ request[r] = "reading" /\ channel # <<>>
  /\ channel' = <<>>
  /\ reading' = [reading EXCEPT ![r] = Head(channel)]
  /\ handed' = Append(handed, Head(channel))
  /\ Goto(r, "writing")
  /\ UNCHANGED <<receiverMode, attached, open, pendingCancelled, pending, channelCompleted, consumed>>
  /\ UNCHANGED <<senderVars, lockVars, closeVars, managerVars, runVars>>

\* The response is written, or writing it fails: the payload is consumed either way.
\* A poll is over, the stream goes on unless its client is gone.
Written(r) ==
  /\ request[r] = "writing"
  /\ consumed' = [consumed EXCEPT ![reading[r]] = IF @ = "waiting" THEN "completed" ELSE @]
  /\ reading' = [reading EXCEPT ![r] = 0]
  /\ \/ r \in Polls /\ Goto(r, "ended") /\ receiverMode' = 0 /\ UNCHANGED call
     \/ r = Stream /\ Goto(r, "reading") /\ UNCHANGED <<receiverMode, call>>
     \/ r = Stream /\ Goto(r, "ended") /\ call' = [call EXCEPT ![Stream] = "gate"] /\ UNCHANGED receiverMode
  /\ UNCHANGED <<attached, handed, open, pendingCancelled, pending, channel, channelCompleted>>
  /\ UNCHANGED <<entry, lifetimeCancelled, gate, command, core, senderVars, lockVars, closeVars, runVars>>

\* The poll times out or its client goes away; the channel is completed and empty.
PollEnds(p) ==
  /\ request[p] = "reading"
  /\ Goto(p, "ended") /\ receiverMode' = 0
  /\ UNCHANGED <<attached, reading, handed, transportVars, senderVars, lockVars, closeVars, managerVars, runVars>>

StreamEnds ==
  /\ request[Stream] = "reading"
  /\ Goto(Stream, "ended")
  /\ call' = [call EXCEPT ![Stream] = "gate"]
  /\ UNCHANGED <<receiverMode, attached, reading, handed, transportVars, senderVars, lockVars, closeVars>>
  /\ UNCHANGED <<entry, lifetimeCancelled, gate, command, core, runVars>>

-----------------------------------------------------------------------------
(* RunAsync.                                                               *)

ReceiverAttached ==
  /\ run = "awaitingReceiver" /\ attached
  /\ run' = "ticking"
  /\ UNCHANGED <<idle, transportVars, senderVars, lockVars, closeVars, managerVars, receiverVars>>

\* Mutant: the background task only guards against a receiver that never comes.
RunClosesOnlyUnattached ==
  /\ run = "awaitingReceiver" /\ ~attached
  /\ run' = "closing"
  /\ call' = [call EXCEPT !["run"] = "gate"]
  /\ UNCHANGED <<idle, entry, lifetimeCancelled, gate, command, core, transportVars, senderVars, lockVars, closeVars, receiverVars>>

\* No receiver within ConnectionTimeoutSeconds, a failed revalidation, or idleness.
RunCloses ==
  /\ \/ run = "awaitingReceiver" /\ ~attached
     \/ run = "ticking"
  /\ run' = "closing"
  /\ call' = [call EXCEPT !["run"] = "gate"]
  /\ UNCHANGED <<idle, entry, lifetimeCancelled, gate, command, core, transportVars, senderVars, lockVars, closeVars, receiverVars>>

\* The lifetime token ends the wait, or the sender that RunAsync awaits has ended.
RunEnds ==
  /\ \/ run \in {"awaitingReceiver", "ticking"} /\ lifetimeCancelled
     \/ run = "closing" /\ call["run"] = "done" /\ sender = "ended"
  /\ run' = "ended"
  /\ UNCHANGED <<idle, transportVars, senderVars, lockVars, closeVars, managerVars, receiverVars>>

BecomesIdle ==
  /\ Created /\ ~idle /\ idle' = TRUE
  /\ UNCHANGED <<run, transportVars, senderVars, lockVars, closeVars, managerVars, receiverVars>>

-----------------------------------------------------------------------------
SenderRuns ==
  \/ SenderStop \/ SenderGranted \/ SendCheck \/ SendPublish \/ SendRecheck
  \/ SendWrite \/ SendSucceeds \/ SendFails

CloserRuns(k) == CancelFlag(k) \/ CancelExchange(k) \/ CloseLock(k) \/ CloseGranted(k) \/ CloseEnds(k) \/ Abort(k)

ManagerRuns == CoreRequestsClose \/ CoreDisposes \/ CoreDisposesTransport \/ CoreDisposesLock

Next ==
  \/ CreateEntry \/ CreateRegisters
  \/ SenderTake \/ SenderRuns
  \/ RegistryRequestsClose \/ (\E k \in Closers : CloserRuns(k) \/ CloseCancelled(k))
  \/ (\E c \in Callers : CloseCall(c)) \/ ManagerRuns
  \/ CommandBegins \/ CommandEnds \/ CommandCloses \/ ClientRequestsClose
  \/ TryAttachStream \/ StreamEnds
  \/ (\E p \in Polls : TryBeginPoll(p) \/ PollEnds(p))
  \/ (\E r \in Requests : Read(r) \/ Written(r))
  \/ ReceiverAttached \/ RunCloses \/ RunEnds \/ BecomesIdle

\* The server's tasks run and its timers fire; commands end, since they wait for Redis
\* only; a request that has read a payload writes it or fails.  Nothing is assumed of
\* the client: it need not poll, post or close; nor of the tokens that bound a close.
Spec ==
  /\ Init /\ [][Next]_vars
  /\ WF_vars(SenderRuns)
  /\ WF_vars(\E k \in Closers : CloserRuns(k))
  /\ SF_vars(\E c \in Callers : CloseCall(c))
  /\ WF_vars(ManagerRuns) /\ WF_vars(CommandEnds)
  /\ WF_vars(\E r \in Requests : Written(r))
  /\ WF_vars(channelCompleted /\ StreamEnds)
  /\ WF_vars(ReceiverAttached \/ (~attached /\ RunCloses) \/ (idle /\ RunCloses) \/ RunEnds)

-----------------------------------------------------------------------------

\* What is meant for one user at a time has one: the channel is read by at most one
\* request, so that what the gateway counts as sent was handed over, in the order it was
\* queued; and while a command is being dispatched nobody takes the connection away from
\* under it (HttpFallbackConnectionManager.cs:98, 216-234).
ExclusiveUse ==
  /\ Cardinality({r \in Requests : request[r] \in {"reading", "writing"}}) <= 1
  /\ \A n \in sentOk : n <= Len(handed)
  /\ \A i \in DOMAIN handed : handed[i] = i
  /\ command = "dispatching" => entry /\ core = "none"

\* A close, whoever requests it, ends the sender: a send that waits for a request that
\* never comes is interrupted wherever the close catches it.
CloseEndsSender == closeRequested ~> (~closeRequested \/ sender \in {"none", "ended"})

\* A client that goes quiet is cleaned up: entry removed and the connection disposed.
QuietConnectionIsDisposed == idle ~> (~idle \/ core = "finished")
===============================================================================
