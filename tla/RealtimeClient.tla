---------------------------- MODULE RealtimeClient ----------------------------
(***************************************************************************)
(* The .NET client (src/src/Realtime.Client/RealtimeClient.cs): the run    *)
(* loop with its receive, replay, send and heartbeat tasks, the bounded    *)
(* send queue that outlives a connection, and the calls of the             *)
(* application: ConnectAsync, SendAsync, DisconnectAsync and Dispose.      *)
(*                                                                         *)
(* A message is a number: 1..MaxSends are the application's, in the order  *)
(* of their calls, and the numbers above are automatic heartbeats.  Of a   *)
(* subscription command only its place in the send queue is kept here;     *)
(* ClientSubscriptions models what it does.                                *)
(***************************************************************************)
EXTENDS Naturals, Sequences, FiniteSets

CONSTANTS
  SendQueueCapacity,
  MaximumReconnectAttempts,
  MaxSends,        \* bound on the calls that send
  MaxCommands,     \* bound on those of them that are subscription commands
  MaxHeartbeats    \* bound on the heartbeats of a behaviour

ASSUME ClientAssumption ==
  /\ SendQueueCapacity \in Nat \ {0} /\ MaximumReconnectAttempts \in Nat
  /\ MaxSends \in Nat /\ MaxCommands \in Nat /\ MaxHeartbeats \in Nat

Sends == 1..MaxSends
Heartbeats == MaxSends + 1 .. MaxSends + MaxHeartbeats

VARIABLES
  run,                 \* where RunAsync is
  attempt,             \* reconnectAttempt
  outcome,             \* how the current connection ended
  lifetimeCancelled,   \* _lifetime
  connectionCancelled, \* connectionCancellation, without its link to _lifetime
  firstConnection,     \* _firstConnection
  state, acceptingSends, disposed,
  receive, replay, send, heartbeat,   \* where the four tasks of a connection are
  outbound,            \* the _outbound channel
  backlog,             \* _replayBacklog
  pending,             \* the messages ReplayConnectionStateAsync has drained
  sending,             \* the message SendLoopAsync is sending, as a sequence of at most one
  freeSlots,           \* the _sendSlots channel
  completed,           \* the channels are completed
  call,                \* per call that sends, where it is
  commands,            \* the calls that are subscription commands
  accepted, sent,      \* application messages accepted, and sent, in that order
  beats,               \* the latest heartbeat
  tracked,             \* _heartbeatCorrelations
  acks                 \* heartbeats the server may yet acknowledge

runVars == <<run, attempt, outcome, lifetimeCancelled, connectionCancelled, firstConnection>>
stateVars == <<state, acceptingSends, disposed>>
taskVars == <<receive, replay, send, heartbeat>>
queueVars == <<outbound, backlog, pending, sending, freeSlots, completed>>
appVars == <<call, commands, accepted, sent>>
beatVars == <<beats, tracked, acks>>
vars == <<runVars, stateVars, taskVars, queueVars, appVars, beatVars>>

Init ==
  /\ run = "notStarted" /\ attempt = 0 /\ outcome = "none"
  /\ lifetimeCancelled = FALSE /\ connectionCancelled = FALSE /\ firstConnection = "pending"
  /\ state = "Disconnected" /\ acceptingSends = TRUE /\ disposed = FALSE
  /\ receive = "off" /\ replay = "off" /\ send = "off" /\ heartbeat = "off"
  /\ outbound = <<>> /\ backlog = <<>> /\ pending = <<>> /\ sending = <<>>
  /\ freeSlots = SendQueueCapacity /\ completed = FALSE
  /\ call = [n \in Sends |-> "idle"] /\ commands = {} /\ accepted = <<>> /\ sent = <<>>
  /\ beats = MaxSends /\ tracked = {} /\ acks = {}

-----------------------------------------------------------------------------
Cancelled == lifetimeCancelled \/ connectionCancelled

Resolve(result) == firstConnection' = IF firstConnection = "pending" THEN result ELSE firstConnection

\* ReleaseSendSlot: TryWrite on the channel of slots, which refuses when it is full or
\* completed.
Released(slots, n) ==
  IF completed THEN slots
  ELSE IF slots + n > SendQueueCapacity THEN SendQueueCapacity ELSE slots + n

ReleaseSendSlot == freeSlots' = Released(freeSlots, 1)

ReceiveDone == receive \in {"normal", "closed", "protocol", "error", "canceled"}
ReplayDone == replay \in {"done", "error", "canceled"}
SendDone == send \in {"error", "canceled"}
HeartbeatDone == heartbeat \in {"error", "canceled"}

-----------------------------------------------------------------------------
(* RunAsync.                                                               *)

\* ConnectAsync: the first call starts RunAsync, which runs up to its first await.
ConnectAsync ==
  /\ run = "notStarted" /\ ~disposed
  /\ run' = "connecting" /\ state' = "Connecting"
  /\ UNCHANGED <<attempt, outcome, lifetimeCancelled, connectionCancelled, firstConnection>>
  /\ UNCHANGED <<acceptingSends, disposed, taskVars, queueVars, appVars, beatVars>>

\* The token of that call, while it waits for the first connection.
ConnectCancelled ==
  /\ run # "notStarted" /\ firstConnection = "pending" /\ ~lifetimeCancelled
  /\ lifetimeCancelled' = TRUE
  /\ UNCHANGED <<run, attempt, outcome, connectionCancelled, firstConnection>>
  /\ UNCHANGED <<stateVars, taskVars, queueVars, appVars, beatVars>>

\* A transport is open: the receive loop and the replay start.
TransportConnected ==
  /\ run = "connecting"
  /\ run' = "replaying" /\ outcome' = "none" /\ connectionCancelled' = FALSE
  /\ receive' = "reading" /\ replay' = "gate" /\ send' = "off" /\ heartbeat' = "off"
  /\ acks' = {}
  /\ UNCHANGED <<attempt, lifetimeCancelled, firstConnection, beats, tracked>>
  /\ UNCHANGED <<stateVars, queueVars, appVars>>

\* The catch clauses of RunAsync, and what follows when nothing was thrown.  Both the
\* terminal ones and the others lead through the cleanup of the transport.
Catch(result) ==
  LET fault == result = "protocol" \/ (result = "error" /\ attempt >= MaximumReconnectAttempts) IN
  /\ outcome' = IF fault THEN "fault" ELSE result
  /\ state' = IF fault THEN "Faulted" ELSE IF result = "error" THEN "Reconnecting" ELSE state
  /\ acceptingSends' = (acceptingSends /\ ~fault)
  /\ IF fault THEN Resolve("failed") ELSE UNCHANGED firstConnection

\* Authentication, the transport or its subprotocol fails, or the lifetime token fires.
ConnectFails ==
  /\ run = "connecting"
  /\ \/ \E result \in {"error", "protocol"} : Catch(result)
     \/ lifetimeCancelled /\ Catch("canceled")
  /\ run' = "cleanup"
  /\ UNCHANGED <<attempt, lifetimeCancelled, connectionCancelled, disposed>>
  /\ UNCHANGED <<taskVars, queueVars, appVars, beatVars>>

\* The first WhenAny: a receive loop that has completed wins over the replay.
ReplayAwaited ==
  /\ run = "replaying" /\ (ReceiveDone \/ ReplayDone)
  /\ IF ~ReceiveDone /\ replay = "done"
       THEN run' = "establishing" /\ UNCHANGED outcome
       ELSE /\ run' = "teardown"
            /\ outcome' = IF ReceiveDone THEN receive ELSE replay
  /\ UNCHANGED <<attempt, lifetimeCancelled, connectionCancelled, firstConnection>>
  /\ UNCHANGED <<stateVars, taskVars, queueVars, appVars, beatVars>>

Establish ==
  /\ run = "establishing"
  /\ run' = "online" /\ state' = "Connected" /\ attempt' = 0
  /\ Resolve("connected")
  /\ send' = "waiting" /\ heartbeat' = "delaying"
  /\ UNCHANGED <<outcome, lifetimeCancelled, connectionCancelled, acceptingSends, disposed>>
  /\ UNCHANGED <<receive, replay, queueVars, appVars, beatVars>>

\* The second WhenAny, with the same preference.
OnlineEnds ==
  /\ run = "online"
  /\ \/ ReceiveDone /\ outcome' = receive
     \/ ~ReceiveDone /\ SendDone /\ outcome' = send
     \/ ~ReceiveDone /\ HeartbeatDone /\ outcome' = heartbeat
  /\ run' = "teardown"
  /\ UNCHANGED <<attempt, lifetimeCancelled, connectionCancelled, firstConnection>>
  /\ UNCHANGED <<stateVars, taskVars, queueVars, appVars, beatVars>>

Teardown ==
  /\ run = "teardown"
  /\ run' = "observing"
  /\ state' = IF state = "Connected" THEN "Reconnecting" ELSE state
  /\ connectionCancelled' = TRUE
  /\ UNCHANGED <<attempt, outcome, lifetimeCancelled, firstConnection, acceptingSends, disposed>>
  /\ UNCHANGED <<taskVars, queueVars, appVars, beatVars>>

\* ObserveSiblingLoopAsync for every task, then the catch clauses.
SiblingsObserved ==
  /\ run = "observing"
  /\ ReceiveDone /\ ReplayDone
  /\ send # "off" => SendDone
  /\ heartbeat # "off" => HeartbeatDone
  /\ Catch(outcome)
  /\ run' = "cleanup"
  /\ UNCHANGED <<attempt, lifetimeCancelled, connectionCancelled, disposed>>
  /\ UNCHANGED <<taskVars, queueVars, appVars, beatVars>>

\* The transport is closed, within CloseTimeoutSeconds, and disposed; then the loop
\* ends, or another attempt is due.
Cleanup ==
  /\ run = "cleanup"
  /\ IF outcome \in {"fault", "canceled", "normal"} \/ lifetimeCancelled
       THEN run' = "completing" /\ UNCHANGED <<attempt, state, acceptingSends, firstConnection>>
       ELSE IF attempt + 1 > MaximumReconnectAttempts
              THEN /\ run' = "completing" /\ UNCHANGED attempt
                   /\ state' = "Faulted" /\ acceptingSends' = FALSE /\ Resolve("failed")
              ELSE /\ run' = "delaying" /\ attempt' = attempt + 1
                   /\ state' = "Reconnecting" /\ UNCHANGED <<acceptingSends, firstConnection>>
  /\ UNCHANGED <<outcome, lifetimeCancelled, connectionCancelled, disposed>>
  /\ UNCHANGED <<taskVars, queueVars, appVars, beatVars>>

\* The delay is over, or its token fires, or the retry policy fails.
DelayEnds ==
  /\ run = "delaying"
  /\ \/ ~lifetimeCancelled /\ run' = "connecting" /\ state' = "Reconnecting" /\ UNCHANGED <<acceptingSends, firstConnection>>
     \/ lifetimeCancelled /\ run' = "completing" /\ UNCHANGED <<state, acceptingSends, firstConnection>>
     \/ run' = "completing" /\ state' = "Faulted" /\ acceptingSends' = FALSE /\ Resolve("failed")
  /\ UNCHANGED <<attempt, outcome, lifetimeCancelled, connectionCancelled, disposed>>
  /\ UNCHANGED <<taskVars, queueVars, appVars, beatVars>>

CompleteChannels ==
  /\ acceptingSends' = FALSE /\ completed' = TRUE
  /\ outbound' = <<>> /\ backlog' = <<>> /\ tracked' = {}
  /\ Resolve("canceled")

RunCompletes ==
  /\ run = "completing"
  /\ run' = "finishing"
  /\ CompleteChannels
  /\ UNCHANGED <<attempt, outcome, lifetimeCancelled, connectionCancelled, state, disposed>>
  /\ UNCHANGED <<taskVars, pending, sending, freeSlots, appVars, beats, acks>>

RunFinishes ==
  /\ run = "finishing"
  /\ run' = "done"
  /\ state' = IF state = "Faulted" THEN state ELSE "Disconnected"
  /\ UNCHANGED <<attempt, outcome, lifetimeCancelled, connectionCancelled, firstConnection>>
  /\ UNCHANGED <<acceptingSends, disposed, taskVars, queueVars, appVars, beatVars>>

-----------------------------------------------------------------------------
(* DisconnectAsync and Dispose.                                            *)

\* Without a run the channels are completed by the caller itself.
StopWithoutRun ==
  /\ run = "notStarted" /\ run' = "done"
  /\ CompleteChannels
  /\ UNCHANGED <<state, pending, sending, freeSlots>>

DisconnectAsync ==
  /\ ~disposed
  /\ \/ StopWithoutRun
     \/ /\ run \notin {"notStarted", "done"}
        /\ acceptingSends' = FALSE
        /\ state' = IF state \in {"Disconnected", "Faulted"} THEN state ELSE "Stopping"
        /\ UNCHANGED <<run, firstConnection, queueVars, tracked>>
  /\ lifetimeCancelled' = TRUE
  /\ UNCHANGED <<attempt, outcome, connectionCancelled, disposed, taskVars, appVars, beats, acks>>

Dispose ==
  /\ ~disposed /\ disposed' = TRUE
  /\ \/ StopWithoutRun
     \/ run # "notStarted" /\ acceptingSends' = FALSE /\ UNCHANGED <<run, state, firstConnection, queueVars, tracked>>
  /\ lifetimeCancelled' = TRUE
  /\ UNCHANGED <<attempt, outcome, connectionCancelled, taskVars, appVars, beats, acks>>

-----------------------------------------------------------------------------
(* SendAsync, and the sending part of ChangeSubscriptionAsync.             *)

CallStep(n, pc) == call' = [call EXCEPT ![n] = pc]

\* Calls are numbered in the order they are made.
SendCall(n) ==
  /\ call[n] = "idle" /\ ~disposed /\ (\A m \in Sends : m < n => call[m] # "idle")
  /\ \/ CallStep(n, "waiting") /\ UNCHANGED commands
     \/ /\ Cardinality(commands) < MaxCommands /\ commands' = commands \cup {n}
        /\ CallStep(n, IF state # "Connected" THEN "rejected" ELSE "waiting")
  /\ UNCHANGED <<accepted, sent, runVars, stateVars, taskVars, queueVars, beatVars>>

\* A slot is free; or the channel of slots is completed and empty; or the caller cancels.
SlotAwaited(n) ==
  /\ call[n] = "waiting"
  /\ \/ freeSlots > 0 /\ freeSlots' = freeSlots - 1 /\ CallStep(n, IF n \in commands THEN "checking" ELSE "slotted")
     \/ freeSlots = 0 /\ completed /\ CallStep(n, "rejected") /\ UNCHANGED freeSlots
  /\ UNCHANGED <<commands, accepted, sent, runVars, stateVars, taskVars, outbound, backlog, pending, sending, completed, beatVars>>

CallerCancels(n) ==
  /\ call[n] = "waiting"
  /\ CallStep(n, "rejected")
  /\ UNCHANGED <<commands, accepted, sent, runVars, stateVars, taskVars, queueVars, beatVars>>

\* EnsureConnectedForSubscriptionChange, once the slot is there.
CommandChecks(n) ==
  /\ call[n] = "checking"
  /\ IF state = "Connected" THEN CallStep(n, "slotted") /\ UNCHANGED freeSlots
                            ELSE CallStep(n, "rejected") /\ ReleaseSendSlot
  /\ UNCHANGED <<commands, accepted, sent, runVars, stateVars, taskVars, outbound, backlog, pending, sending, completed, beatVars>>

EnqueueOwned(n) ==
  /\ call[n] = "slotted"
  /\ IF acceptingSends
       THEN /\ outbound' = Append(outbound, n) /\ CallStep(n, "accepted")
            /\ accepted' = IF n \in commands THEN accepted ELSE Append(accepted, n)
            /\ UNCHANGED freeSlots
       ELSE CallStep(n, "rejected") /\ ReleaseSendSlot /\ UNCHANGED <<outbound, accepted>>
  /\ UNCHANGED <<commands, sent, runVars, stateVars, taskVars, backlog, pending, sending, completed, beatVars>>

-----------------------------------------------------------------------------
(* The transport.  A send that fails may have reached the server.          *)

\* What a task reports when its transport fails or its token has fired.
Failures == IF Cancelled THEN {"error", "canceled"} ELSE {"error"}

Sent(m) == IF m \in Sends \ commands THEN Append(sent, m) ELSE sent

Reached(m) == IF m \in Heartbeats THEN acks \cup {m} ELSE acks

-----------------------------------------------------------------------------
(* SendLoopAsync.                                                          *)

SendLoopReads ==
  /\ send = "waiting" /\ outbound # <<>>
  /\ send' = "sending" /\ sending' = <<Head(outbound)>> /\ outbound' = Tail(outbound)
  /\ UNCHANGED <<runVars, stateVars, receive, replay, heartbeat, backlog, pending, freeSlots, completed, appVars, beatVars>>

SendLoopCancelled ==
  /\ send = "waiting" /\ Cancelled
  /\ send' = "canceled"
  /\ UNCHANGED <<runVars, stateVars, receive, replay, heartbeat, queueVars, appVars, beatVars>>

SendLoopSent ==
  /\ send = "sending"
  /\ send' = "waiting" /\ sending' = <<>>
  /\ sent' = Sent(Head(sending)) /\ acks' = Reached(Head(sending))
  /\ ReleaseSendSlot
  /\ UNCHANGED <<runVars, stateVars, receive, replay, heartbeat, outbound, backlog, pending, completed>>
  /\ UNCHANGED <<call, commands, accepted, beats, tracked>>

\* Mutant: the message whose send failed is put back behind the queue.
SendLoopFailsRequeues ==
  /\ send = "sending" /\ send' \in Failures
  /\ outbound' = Append(outbound, Head(sending)) /\ sending' = <<>>
  /\ acks' \in {acks, Reached(Head(sending))}
  /\ UNCHANGED <<runVars, stateVars, receive, replay, heartbeat, backlog, pending, freeSlots, completed, appVars, beats, tracked>>

SendLoopFails ==
  /\ send = "sending" /\ send' \in Failures
  /\ backlog' = backlog \o sending /\ sending' = <<>>
  /\ acks' \in {acks, Reached(Head(sending))}
  /\ UNCHANGED <<runVars, stateVars, receive, replay, heartbeat, outbound, pending, freeSlots, completed, appVars, beats, tracked>>

-----------------------------------------------------------------------------
(* HeartbeatLoopAsync.                                                     *)

\* Heartbeats two periods old expire, and at most two are tracked: of the earlier ones
\* only the latest stays.
HeartbeatDue ==
  /\ heartbeat = "delaying" /\ beats < MaxSends + MaxHeartbeats
  /\ beats' = beats + 1
  /\ tracked' = (tracked \cap {beats}) \cup {beats + 1}
  /\ heartbeat' = "waiting"
  /\ UNCHANGED <<runVars, stateVars, receive, replay, send, queueVars, appVars, acks>>

HeartbeatSlot ==
  /\ heartbeat = "waiting" /\ freeSlots > 0
  /\ freeSlots' = freeSlots - 1 /\ heartbeat' = "slotted"
  /\ UNCHANGED <<runVars, stateVars, receive, replay, send, outbound, backlog, pending, sending, completed, appVars, beatVars>>

HeartbeatEnqueues ==
  /\ heartbeat = "slotted"
  /\ IF acceptingSends
       THEN heartbeat' = "delaying" /\ outbound' = Append(outbound, beats) /\ UNCHANGED <<freeSlots, tracked>>
       ELSE heartbeat' = "error" /\ ReleaseSendSlot /\ tracked' = tracked \ {beats} /\ UNCHANGED outbound
  /\ UNCHANGED <<runVars, stateVars, receive, replay, send, backlog, pending, sending, completed, appVars, beats, acks>>

\* Mutant: the wait for a slot does not honour the token.
HeartbeatCancelledInDelay ==
  /\ heartbeat = "delaying" /\ Cancelled
  /\ heartbeat' = "canceled"
  /\ UNCHANGED <<runVars, stateVars, receive, replay, send, queueVars, appVars, beatVars>>

HeartbeatCancelled ==
  /\ heartbeat \in {"delaying", "waiting"} /\ Cancelled
  /\ heartbeat' = "canceled"
  /\ tracked' = IF heartbeat = "waiting" THEN tracked \ {beats} ELSE tracked
  /\ UNCHANGED <<runVars, stateVars, receive, replay, send, queueVars, appVars, beats, acks>>

-----------------------------------------------------------------------------
(* ReceiveLoopAsync.                                                       *)

\* The server closes: normally, or in any other way, which includes service.restart.
ReceiveClose ==
  /\ receive = "reading"
  /\ \/ receive' = "normal" /\ state' = "Stopping" /\ acceptingSends' = FALSE
     \/ receive' = "closed" /\ state' = "Reconnecting" /\ UNCHANGED acceptingSends
  /\ UNCHANGED <<disposed, runVars, replay, send, heartbeat, queueVars, appVars, beatVars>>

\* A message the protocol does not allow.
ReceiveInvalid ==
  /\ receive = "reading"
  /\ receive' = "protocol" /\ state' = "Faulted" /\ acceptingSends' = FALSE
  /\ UNCHANGED <<disposed, runVars, replay, send, heartbeat, queueVars, appVars, beatVars>>

ReceiveFails ==
  /\ receive = "reading" /\ receive' \in Failures
  /\ UNCHANGED <<stateVars, runVars, replay, send, heartbeat, queueVars, appVars, beatVars>>

\* An acknowledged heartbeat ends here if it is tracked; anything else is for the
\* application, and waits for room in the inbound queue.
ReceiveAck ==
  /\ receive = "reading"
  /\ \E b \in acks :
       /\ acks' = acks \ {b}
       /\ IF b \in tracked THEN tracked' = tracked \ {b} /\ UNCHANGED receive
                           ELSE receive' = "delivering" /\ UNCHANGED tracked
  /\ UNCHANGED <<stateVars, runVars, replay, send, heartbeat, queueVars, appVars, beats>>

ReceiveMessage ==
  /\ receive = "reading" /\ receive' = "delivering"
  /\ UNCHANGED <<stateVars, runVars, replay, send, heartbeat, queueVars, appVars, beatVars>>

Delivered ==
  /\ receive = "delivering"
  /\ \/ receive' = "reading"
     \/ Cancelled /\ receive' = "canceled"
  /\ UNCHANGED <<stateVars, runVars, replay, send, heartbeat, queueVars, appVars, beatVars>>

-----------------------------------------------------------------------------
(* ReplayConnectionStateAsync.                                             *)

\* The members of the sequence s that are in the set S, in their order.
Among(s, S) ==
  LET kept[i \in 0 .. Len(s)] ==
        IF i = 0 THEN <<>>
        ELSE IF s[i] \in S THEN Append(kept[i - 1], s[i]) ELSE kept[i - 1]
  IN kept[Len(s)]

\* What a reconnection sends again: subscription commands and tracked heartbeats are not.
Application == (Sends \cup Heartbeats) \ (commands \cup tracked)

\* Mutant: what is dropped keeps its slot.
DrainPendingKeepsSlots ==
  /\ replay = "gate" /\ replay' = "subscribing"
  /\ pending' = Among(backlog \o outbound, Application)
  /\ backlog' = <<>> /\ outbound' = <<>> /\ tracked' = {}
  /\ UNCHANGED <<runVars, stateVars, receive, send, heartbeat, sending, freeSlots, completed, appVars, beats, acks>>

\* Behind the subscription gate: the backlog and then the queue are drained;
\* subscription commands and tracked heartbeats are dropped and give their slots back.
DrainPending ==
  /\ replay = "gate" /\ replay' = "subscribing"
  /\ pending' = Among(backlog \o outbound, Application)
  /\ freeSlots' = Released(freeSlots, Len(backlog \o outbound) - Len(pending'))
  /\ backlog' = <<>> /\ outbound' = <<>> /\ tracked' = {}
  /\ UNCHANGED <<runVars, stateVars, receive, send, heartbeat, sending, completed, appVars, beats, acks>>

ReplayCancelled ==
  /\ replay = "gate" /\ Cancelled
  /\ replay' = "canceled"
  /\ UNCHANGED <<runVars, stateVars, receive, send, heartbeat, queueVars, appVars, beatVars>>

ReplaySubscribed ==
  /\ replay = "subscribing" /\ replay' = "sending"
  /\ UNCHANGED <<runVars, stateVars, receive, send, heartbeat, queueVars, appVars, beatVars>>

\* RetainPendingMessages: what was not sent goes back to the backlog, in order.
ReplayFails ==
  /\ replay \in {"subscribing", "sending"} /\ replay' \in Failures
  /\ replay = "sending" => pending # <<>>
  /\ backlog' = backlog \o pending /\ pending' = <<>>
  /\ acks' \in IF replay = "sending" THEN {acks, Reached(Head(pending))} ELSE {acks}
  /\ UNCHANGED <<runVars, stateVars, receive, send, heartbeat, outbound, sending, freeSlots, completed, appVars, beats, tracked>>

ReplaySends ==
  /\ replay = "sending"
  /\ IF pending = <<>>
       THEN replay' = "done" /\ UNCHANGED <<pending, freeSlots, sent, acks>>
       ELSE /\ pending' = Tail(pending) /\ ReleaseSendSlot
            /\ sent' = Sent(Head(pending)) /\ acks' = Reached(Head(pending))
            /\ UNCHANGED replay
  /\ UNCHANGED <<runVars, stateVars, receive, send, heartbeat, outbound, backlog, sending, completed>>
  /\ UNCHANGED <<call, commands, accepted, beats, tracked>>

-----------------------------------------------------------------------------
RunSteps ==
  \/ ConnectFails \/ TransportConnected \/ ReplayAwaited \/ Establish \/ OnlineEnds \/ Teardown
  \/ SiblingsObserved \/ Cleanup \/ DelayEnds \/ RunCompletes \/ RunFinishes
SendSteps == SendLoopReads \/ SendLoopCancelled \/ SendLoopSent \/ SendLoopFails
HeartbeatSteps == HeartbeatDue \/ HeartbeatSlot \/ HeartbeatEnqueues \/ HeartbeatCancelled
ReceiveSteps == ReceiveClose \/ ReceiveInvalid \/ ReceiveFails \/ ReceiveAck \/ ReceiveMessage \/ Delivered
ReplaySteps == DrainPending \/ ReplayCancelled \/ ReplaySubscribed \/ ReplayFails \/ ReplaySends
CallSteps(n) == SlotAwaited(n) \/ CommandChecks(n) \/ EnqueueOwned(n)

Next ==
  \/ ConnectAsync \/ ConnectCancelled \/ RunSteps
  \/ SendSteps \/ HeartbeatSteps \/ ReceiveSteps \/ ReplaySteps
  \/ (\E n \in Sends : SendCall(n) \/ CallerCancels(n) \/ CallSteps(n))
  \/ DisconnectAsync \/ Dispose

\* The tasks run, and every wait of theirs honours its token: the transport's sends and
\* receives, the delays, the channels.  A connection attempt ends; the application's
\* calls run on.  Nothing is assumed of the server or of the application.
Spec ==
  /\ Init /\ [][Next]_vars
  /\ WF_vars(RunSteps)
  /\ WF_vars(SendSteps)
  /\ WF_vars(Cancelled /\ HeartbeatSteps)
  /\ WF_vars(Cancelled /\ (ReceiveFails \/ (Delivered /\ receive' = "canceled")))
  /\ WF_vars(ReplaySteps)
  /\ WF_vars(\E n \in Sends : CallSteps(n))

-----------------------------------------------------------------------------

\* Everything that occupies a slot, in the order it will be sent.
Held == backlog \o pending \o sending \o outbound

\* Until the client completes its channels, every slot of the send queue is free, with a
\* call that is about to enqueue, or with one message that is still held: no failure, no
\* drained command and no refused call loses a slot or gives one back twice.
SlotsConserved ==
  ~completed =>
    freeSlots + Cardinality({n \in Sends : call[n] \in {"checking", "slotted"}})
              + (IF heartbeat = "slotted" THEN 1 ELSE 0) + Len(Held) = SendQueueCapacity

\* Across any number of reconnections, the application messages accepted are those sent
\* followed by those held, in the order they were accepted: none is lost, overtaken, or
\* sent again after its send succeeded.
AcceptedInOrder ==
  ~completed => accepted = sent \o Among(Held, Sends \ commands)

\* A run that has ended leaves the client in a terminal state, which no late receive, no
\* disconnect and no dispose changes any more (RealtimeClient.cs:380-448, 652-658).
StopsForGood ==
  [][run = "done" => state \in {"Disconnected", "Faulted"} /\ state' = state /\ run' = run]_vars

\* A client that is disconnected or disposed ends its run, wherever the run is; and when
\* a run has ended, for this or for another reason, no call is left waiting for room in
\* the send queue; and a stop is for good (RealtimeClient.cs:380-448, 1126).
ClientStops ==
  /\ (lifetimeCancelled \/ run = "done") ~> (run = "done" /\ \A n \in Sends : call[n] # "waiting")
  /\ StopsForGood
===============================================================================
