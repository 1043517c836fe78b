--------------------------- MODULE TypeScriptClient ---------------------------
(***************************************************************************)
(* The browser client, RealtimeClient of src/sdk/typescript/src/client.ts: *)
(* connection attempts, automatic reconnection, the command queue, the     *)
(* commands awaiting an acknowledgement, subscriptions and their           *)
(* restoration.                                                            *)
(*                                                                         *)
(* JavaScript runs one task at a time, and the promise reactions a task    *)
(* causes run before the next task.  An action is one task: an operator    *)
(* from a client to a client for its synchronous part, and then Settled,   *)
(* which runs the reactions it left in "micro" in their order.  Listeners  *)
(* of the application do not call back into the client, and each call of   *)
(* the application is a task of its own.                                   *)
(*                                                                         *)
(* A connection attempt, and its socket, is known by its generation.  A    *)
(* command is [kind, id]; the same record is never outstanding twice.      *)
(***************************************************************************)
EXTENDS Naturals, Sequences, SequencesExt, FiniteSets

CONSTANTS
  Routes, Listeners, RouteOf,   \* every listener subscribes to one route
  MaximumAttempts,              \* reconnect.maximumAttempts
  MaximumQueuedCommands, MaximumPendingCommands,
  MaxGeneration, MaxPublishes   \* bounds: connections and publishes of a behaviour

VARIABLE client

Generations == 1..MaxGeneration

Command(kind, id) == [kind |-> kind, id |-> id]
NoCommand == Command("none", 0)

\* What the attempt of one generation holds: its socket's readyState ("url" while the
\* connection URL is awaited), whether it reconnects, the closure's two flags, whether its
\* send throws, the loop of restoreSubscriptionsAndFlush, and the commands on the wire.
NoSocket ==
  [phase |-> "none", reconnecting |-> FALSE, settled |-> FALSE, established |-> FALSE,
   broken |-> FALSE, todo |-> {}, taken |-> {}, current |-> NoCommand, failed |-> FALSE,
   wire |-> <<>>, routes |-> {}]

Init ==
  client =
    [state |-> "idle", generation |-> 0, intentionalClose |-> FALSE, socket |-> 0,
     connectPromise |-> 0, controller |-> 0, reconnectTimer |-> FALSE, reconnectAttempt |-> 0,
     heartbeat |-> FALSE, queued |-> <<>>, pending |-> {},
     subscriptions |-> [r \in Routes |-> {}],      \* the registrations the map holds
     replaced |-> [r \in Routes |-> {}],           \* those of a Set the map no longer holds
     subscriptionCommands |-> [r \in Routes |-> "none"],
     listener |-> [l \in Listeners |-> "idle"],
     published |-> 0, settled |-> {}, wired |-> {}, hung |-> FALSE,
     sockets |-> [g \in Generations |-> NoSocket], micro |-> <<>>]

-----------------------------------------------------------------------------
(* Small parts.                                                            *)

Phase(c) == IF c.socket = 0 THEN "none" ELSE c.sockets[c.socket].phase
SocketOpen(c) == Phase(c) = "open"

\* assertOpenGeneration
OpenGeneration(c, g) == g = c.generation /\ c.socket = g /\ SocketOpen(c)

InMap(c, r) == c.subscriptions[r] # {}

\* socket.close: the close event follows in a task of its own.
CloseSocket(c, g) ==
  IF g # 0 /\ c.sockets[g].phase \in {"connecting", "open"}
    THEN [c EXCEPT !.sockets[g].phase = "closing"] ELSE c

\* resolve or reject of a command's promise.
Settle(c, command, ok) ==
  [c EXCEPT !.settled = IF command.kind = "publish" THEN @ \cup {command.id} ELSE @,
            !.micro = Append(@, [what |-> "command", command |-> command, ok |-> ok])]

\* resolve or reject of an attempt's promise.
SettleAttempt(c, g, result) ==
  [c EXCEPT !.micro = Append(@, [what |-> "attempt", gen |-> g, result |-> result])]

RejectAll(c, commands) == FoldLeft(LAMBDA d, command : Settle(d, command, FALSE), c, commands)

\* Mutant: the map is cleared and the callers are not told.
RejectPendingSilently(c) == [c EXCEPT !.pending = {}]

RejectQueued(c) == [RejectAll(c, c.queued) EXCEPT !.queued = <<>>]
RejectPending(c) == [RejectAll(c, SetToSeq(c.pending)) EXCEPT !.pending = {}]

\* The entry of a command whose promise is no longer held; its answer will be ignored.
Forget(c, command) ==
  [c EXCEPT !.pending = @ \ {command},
            !.sockets = [g \in Generations |-> [@[g] EXCEPT !.wire =
               [i \in DOMAIN @ |-> IF @[i].command = command THEN [@[i] EXCEPT !.tracked = FALSE] ELSE @[i]]]]]

-----------------------------------------------------------------------------
(* Commands.                                                               *)

\* Mutant: the limit on pending commands is not applied.

\* transmit: a send that throws rejects the command and closes the socket.
Transmit(c, command, queueWhenUnavailable) ==
  IF Cardinality(c.pending) >= MaximumPendingCommands THEN Settle(c, command, FALSE)
  ELSE IF ~SocketOpen(c)
    THEN IF ~queueWhenUnavailable \/ Len(c.queued) >= MaximumQueuedCommands
           THEN Settle(c, command, FALSE)
           ELSE [c EXCEPT !.queued = Append(@, command)]
  ELSE IF c.sockets[c.socket].broken THEN CloseSocket(Settle(c, command, FALSE), c.socket)
  ELSE [c EXCEPT !.pending = @ \cup {command}, !.wired = IF command.kind = "publish" THEN @ \cup {command.id} ELSE @,
                 !.sockets[c.socket].wire = Append(@, [command |-> command, tracked |-> TRUE])]

AbortAttempt(c, result) ==
  LET g == c.controller
  IN IF g = 0 THEN c
     ELSE IF c.sockets[g].phase = "url"
       THEN SettleAttempt([c EXCEPT !.sockets[g].phase = "closed"], g, result)
     ELSE IF c.sockets[g].phase = "connecting" /\ ~c.sockets[g].settled
       THEN SettleAttempt(CloseSocket([c EXCEPT !.sockets[g].settled = TRUE], g), g, "failed")
     ELSE c

\* openSocket up to its first await, with the controller its caller creates.
OpenSocket(c, reconnecting) ==
  LET g == c.generation + 1
  IN [c EXCEPT !.generation = g, !.controller = g,
               !.state = IF reconnecting THEN "reconnecting" ELSE "connecting",
               !.sockets[g] = [NoSocket EXCEPT !.phase = "url", !.reconnecting = reconnecting]]

Connect(c) ==
  IF (c.state = "open" /\ SocketOpen(c)) \/ c.connectPromise # 0 THEN c
  ELSE LET d == OpenSocket(AbortAttempt([c EXCEPT !.intentionalClose = FALSE, !.reconnectTimer = FALSE],
                                        "superseded"), FALSE)
       IN [d EXCEPT !.connectPromise = d.generation]

SendCommand(c, command) ==
  IF SocketOpen(c) /\ c.state = "open" THEN Transmit(c, command, TRUE)
  ELSE IF Len(c.queued) >= MaximumQueuedCommands THEN Settle(c, command, FALSE)
  ELSE LET d == [c EXCEPT !.queued = Append(@, command)]
       IN IF c.state \in {"idle", "closed"} THEN Connect(d) ELSE d

-----------------------------------------------------------------------------
(* The end of a connection, and the next attempt.                          *)

ScheduleReconnect(c) ==
  IF c.reconnectTimer \/ c.intentionalClose \/ SocketOpen(c) THEN c
  ELSE IF c.reconnectAttempt >= MaximumAttempts THEN RejectQueued([c EXCEPT !.state = "closed"])
  ELSE [c EXCEPT !.state = "reconnecting", !.reconnectAttempt = @ + 1, !.reconnectTimer = TRUE]

\* Mutant: unanswered commands wait for the next connection.

HandleClose(c, g, normal) ==
  IF g # c.generation THEN c
  ELSE LET d == RejectPending([c EXCEPT !.heartbeat = FALSE, !.socket = 0, !.state = "closed"])
           s == c.sockets[g]
       IN IF c.intentionalClose \/ normal \/ ~(s.established \/ s.reconnecting) THEN d
          ELSE ScheduleReconnect(d)

\* onerror, and the first lines of onclose.
FailAttempt(c, g) ==
  IF c.sockets[g].settled THEN c
  ELSE SettleAttempt([c EXCEPT !.sockets[g].settled = TRUE], g, "failed")

OnClose(c, g, normal) ==
  HandleClose(FailAttempt([c EXCEPT !.sockets[g].phase = "closed", !.sockets[g].wire = <<>>,
                                    !.sockets[g].routes = {}], g), g, normal)

\* Mutant: the promise of a failed attempt is kept.
AttemptSettledKeepsPromise(c, g, result) ==
  IF result = "failed" /\ c.connectPromise = g THEN RejectQueued([c EXCEPT !.state = "closed"]) ELSE c

\* The catch and finally of connect and of the reconnect timer.
AttemptSettled(c, g, result) ==
  LET failed ==
        IF c.sockets[g].reconnecting
          THEN IF result = "failed" THEN ScheduleReconnect(c) ELSE c
          ELSE IF result # "ok" /\ c.connectPromise = g
                 THEN RejectQueued([c EXCEPT !.state = "closed"]) ELSE c
  IN [failed EXCEPT !.connectPromise = IF @ = g THEN 0 ELSE @, !.controller = IF @ = g THEN 0 ELSE @]

-----------------------------------------------------------------------------
(* restoreSubscriptionsAndFlush, in the onopen of generation g.            *)

\* The catch of onopen.
RestoreFailed(c, g, result) ==
  IF c.sockets[g].settled THEN c
  ELSE CloseSocket(SettleAttempt(RejectQueued([c EXCEPT !.sockets[g].settled = TRUE]), g, result), g)

\* The loop over the queue.  When a send throws, the socket is closing, and transmit puts
\* every further command back: the loop then never empties the queue.
Flush(c) ==
  LET emptied == [c EXCEPT !.queued = <<>>]
  IN IF c.sockets[c.socket].broken /\ c.queued # <<>> /\ Cardinality(c.pending) < MaximumPendingCommands
       THEN [Transmit(emptied, Head(c.queued), TRUE) EXCEPT !.queued = Tail(c.queued),
                                                            !.hung = Len(c.queued) > 1]
       ELSE FoldLeft(LAMBDA d, command : Transmit(d, command, TRUE), emptied, c.queued)

\* The then of onopen: the socket may have been closed by a send of the flush.
Restored(c, g) ==
  LET d == [c EXCEPT !.reconnectAttempt = 0, !.sockets[g].established = TRUE, !.state = "open"]
  IN IF c.hung THEN c
     ELSE IF ~OpenGeneration(d, g) THEN RestoreFailed(d, g, "superseded")
     ELSE SettleAttempt([d EXCEPT !.heartbeat = TRUE, !.sockets[g].settled = TRUE], g, "ok")

\* The next route of the loop, or its end.  A route whose turn comes after the connection
\* was lost fails at once, and the subscribe command taken from the queue for it with it.
RestoreNext(c, g) ==
  LET s == c.sockets[g]
      r == CHOOSE r \in s.todo : TRUE
      command == IF r \in s.taken THEN Command("subscribe", r) ELSE Command("restore", <<g, r>>)
  IN IF s.todo # {} /\ OpenGeneration(c, g)
       THEN Transmit([c EXCEPT !.sockets[g].todo = @ \ {r}, !.sockets[g].taken = @ \ {r},
                               !.sockets[g].current = command], command, FALSE)
     ELSE IF s.todo # {} \/ s.failed \/ ~OpenGeneration(c, g)
       THEN RestoreFailed([c EXCEPT !.sockets[g].todo = {}, !.sockets[g].taken = {},
                                    !.sockets[g].current = NoCommand], g, "failed")
     ELSE Restored(Flush([c EXCEPT !.sockets[g].current = NoCommand]), g)

IsSubscribe(command) == command.kind = "subscribe"

\* Mutant: the client reports "open" before it restores.
RestoreBeginsOpen(c, g) ==
  RestoreNext([c EXCEPT !.state = "open", !.sockets[g].todo = {r \in Routes : InMap(c, r)}], g)

\* Subscribe commands are taken off the queue; the others wait for the flush.
RestoreBegins(c, g) ==
  LET taken == {command.id : command \in {q \in Range(c.queued) : IsSubscribe(q)}}
  IN RestoreNext([c EXCEPT !.queued = SelectSeq(@, LAMBDA q : ~IsSubscribe(q)),
                           !.sockets[g].taken = taken,
                           !.sockets[g].todo = taken \cup {r \in Routes : InMap(c, r)}], g)

\* The command the loop awaits is settled.  A route nobody wants any more is unsubscribed.
RestoreAwaited(c, g, command, ok) ==
  LET r == IF command.kind = "subscribe" THEN command.id ELSE command.id[2]
      undo == Command("undo", <<g, r>>)
  IN IF ~ok \/ (command.kind # "undo" /\ ~InMap(c, r) /\ ~OpenGeneration(c, g))
       THEN RestoreNext([c EXCEPT !.sockets[g].failed = TRUE], g)
     ELSE IF command.kind # "undo" /\ ~InMap(c, r)
       THEN Transmit([c EXCEPT !.sockets[g].current = undo], undo, FALSE)
     ELSE RestoreNext(c, g)

-----------------------------------------------------------------------------
(* Subscriptions.  A listener subscribes once.                             *)

Subscribe(c, l) ==
  LET r == RouteOf[l]
      d == [c EXCEPT !.subscriptions[r] = @ \cup {l}]
      waits == [d EXCEPT !.listener[l] = "waiting"]
  IN IF ~InMap(c, r) /\ c.subscriptionCommands[r] = "none"
       THEN SendCommand([waits EXCEPT !.subscriptionCommands[r] = "sent"], Command("subscribe", r))
     ELSE IF c.subscriptionCommands[r] = "sent" THEN waits
     ELSE [d EXCEPT !.listener[l] = "active"]

\* The catch of subscribe.  The Set it empties need not be the one the map holds.
Leave(c, l) ==
  LET r == RouteOf[l]
      d == [c EXCEPT !.listener[l] = "gone"]
  IN IF l \in c.subscriptions[r] THEN [d EXCEPT !.subscriptions[r] = @ \ {l}]
     ELSE IF c.replaced[r] = {l}
       THEN [d EXCEPT !.replaced[r] = c.subscriptions[r], !.subscriptions[r] = {}]
     ELSE [d EXCEPT !.replaced[r] = @ \ {l}]

Waiting(c, r) == {l \in Listeners : RouteOf[l] = r /\ c.listener[l] = "waiting"}

\* establishSubscription after its await, and the callers that waited for the command.
SubscribeSettled(c, r, ok) ==
  IF ~ok
    THEN FoldLeft(Leave, [c EXCEPT !.subscriptionCommands[r] = "none"], SetToSeq(Waiting(c, r)))
    ELSE LET d == [c EXCEPT !.listener = [l \in Listeners |-> IF l \in Waiting(c, r) THEN "active" ELSE @[l]]]
         IN IF ~InMap(c, r) /\ c.state = "open"
              THEN SendCommand([d EXCEPT !.subscriptionCommands[r] = "resolved"], Command("cleanup", r))
              ELSE [d EXCEPT !.subscriptionCommands[r] = "none"]

\* The function subscribe returns.
Unsubscribe(c, l) ==
  LET r == RouteOf[l]
      d == [c EXCEPT !.subscriptions[r] = @ \ {l}]
  IN IF c.subscriptions[r] = {l} /\ c.state = "open"
       THEN SendCommand([d EXCEPT !.listener[l] = "leaving"], Command("unsubscribe", l))
       ELSE [d EXCEPT !.listener[l] = "gone"]

UnsubscribeSettled(c, l, ok) ==
  LET r == RouteOf[l]
  IN IF ok THEN [c EXCEPT !.listener[l] = "gone"]
     ELSE CloseSocket([c EXCEPT !.listener[l] = "active", !.subscriptions[r] = {l},
                                !.replaced[r] = @ \cup c.subscriptions[r]], c.socket)

-----------------------------------------------------------------------------
(* Promise reactions.                                                      *)

CommandSettled(c, command, ok) ==
  LET kind == command.kind
      d == CASE kind = "subscribe"   -> SubscribeSettled(c, command.id, ok)
             [] kind = "unsubscribe" -> UnsubscribeSettled(c, command.id, ok)
             [] kind = "cleanup"     -> [c EXCEPT !.subscriptionCommands[command.id] = "none"]
             [] kind = "ping" /\ ~ok -> CloseSocket(c, c.socket)
             [] OTHER                -> c
      awaiting == {g \in Generations : c.sockets[g].current = command}
  IN IF awaiting = {} THEN d ELSE RestoreAwaited(d, CHOOSE g \in awaiting : TRUE, command, ok)

React(c, m) ==
  IF m.what = "attempt" THEN AttemptSettled(c, m.gen, m.result) ELSE CommandSettled(c, m.command, m.ok)

RECURSIVE Settled(_)
Settled(c) ==
  IF c.micro = <<>> \/ c.hung THEN c ELSE Settled(React([c EXCEPT !.micro = Tail(@)], Head(c.micro)))

-----------------------------------------------------------------------------
(* Tasks of the application.                                               *)

CanConnect == ~client.hung /\ client.generation < MaxGeneration

ConnectCall == CanConnect /\ client' = Settled(Connect(client))

\* The signal given to connect.
AbortConnect ==
  /\ ~client.hung /\ client.connectPromise # 0 /\ client.connectPromise = client.controller
  /\ client' = Settled(AbortAttempt(client, "failed"))

Disconnect ==
  /\ CanConnect /\ client.state # "idle"
  /\ LET c == AbortAttempt([client EXCEPT !.intentionalClose = TRUE, !.generation = @ + 1], "superseded")
         d == RejectQueued(RejectPending([c EXCEPT !.controller = 0, !.connectPromise = 0,
                                                   !.reconnectTimer = FALSE, !.heartbeat = FALSE]))
     IN client' = Settled([CloseSocket(d, d.socket) EXCEPT !.socket = 0, !.state = "closed"])

Publish ==
  /\ CanConnect /\ client.published < MaxPublishes
  /\ LET k == client.published + 1
     IN client' = Settled(SendCommand([client EXCEPT !.published = k], Command("publish", k)))

\* The signal given to publish: failQueuedCommand, or the listener of a pending command.
CancelPublish(k) ==
  LET command == Command("publish", k)
  IN /\ ~client.hung /\ command \in client.pending \cup Range(client.queued)
     /\ client' = Settled(Settle([Forget(client, command) EXCEPT
                            !.queued = SelectSeq(@, LAMBDA q : q # command)], command, FALSE))

SubscribeCall(l) ==
  /\ CanConnect /\ client.listener[l] = "idle"
  /\ client' = Settled(Subscribe(client, l))

CancelSubscribe(l) ==
  /\ ~client.hung /\ client.listener[l] = "waiting"
  /\ client' = Settled(Leave(client, l))

UnsubscribeCall(l) ==
  /\ ~client.hung /\ client.listener[l] = "active"
  /\ client' = Settled(Unsubscribe(client, l))

-----------------------------------------------------------------------------
(* Timers.                                                                 *)

ReconnectTimer ==
  /\ CanConnect /\ client.reconnectTimer
  /\ client' = Settled(OpenSocket(AbortAttempt([client EXCEPT !.reconnectTimer = FALSE], "superseded"), TRUE))

CommandTimeout ==
  /\ ~client.hung
  /\ \E command \in client.pending : client' = Settled(Settle(Forget(client, command), command, FALSE))

Ping == Command("ping", 0)

\* One ping at a time: a ping times out before the next is due.
Heartbeat ==
  /\ CanConnect /\ client.heartbeat /\ Ping \notin client.pending \cup Range(client.queued)
  /\ client' = Settled(SendCommand(client, Ping))

-----------------------------------------------------------------------------
(* The ticket service, the network and the gateway.                        *)

\* createConnectionUrl resolves, and the socket is created; it may be one whose send throws.
UrlReady(g) ==
  /\ ~client.hung /\ client.sockets[g].phase = "url"
  /\ \E broken \in BOOLEAN :
       client' = IF g = client.generation /\ ~client.intentionalClose
         THEN [client EXCEPT !.sockets[g].phase = "connecting", !.sockets[g].broken = broken, !.socket = g]
         ELSE Settled(SettleAttempt([client EXCEPT !.sockets[g].phase = "closed"], g, "superseded"))

UrlFails(g) ==
  /\ ~client.hung /\ client.sockets[g].phase = "url"
  /\ client' = Settled(SettleAttempt([client EXCEPT !.sockets[g].phase = "closed"], g, "failed"))

SocketOpens(g) ==
  /\ ~client.hung /\ client.sockets[g].phase = "connecting"
  /\ LET c == [client EXCEPT !.sockets[g].phase = "open"]
     IN client' = IF c.sockets[g].settled \/ g # c.generation THEN CloseSocket(c, g)
                                                             ELSE Settled(RestoreBegins(c, g))

\* The connection fails.  A WebSocket's error and close are two events with the reactions
\* of the first in between; HttpStreamingSocket raises both in one task.
SocketFails(g) ==
  /\ ~client.hung /\ client.sockets[g].phase \in {"connecting", "open", "closing"}
  /\ \/ client' = Settled(OnClose(Settled(FailAttempt([client EXCEPT !.sockets[g].phase = "closed"], g)), g, FALSE))
     \/ client' = Settled(OnClose(FailAttempt(client, g), g, FALSE))

\* A close handshake: of the server, with a normal code or another, or of the client.
SocketCloses(g) ==
  /\ ~client.hung /\ client.sockets[g].phase \in {"open", "closing"}
  /\ \E normal \in BOOLEAN :
       /\ normal => client.sockets[g].phase = "open"
       /\ client' = Settled(OnClose(client, g, normal))

Subscribes(command) == command.kind \in {"subscribe", "restore"}
RouteOfCommand(command) ==
  CASE command.kind \in {"subscribe", "cleanup"} -> {command.id}
    [] command.kind \in {"restore", "undo"}      -> {command.id[2]}
    [] command.kind = "unsubscribe"              -> {RouteOf[command.id]}
    [] OTHER                                     -> {}

\* The gateway answers the commands of a connection in order; handleMessage.
Answer(g) ==
  /\ ~client.hung /\ client.sockets[g].phase = "open" /\ client.sockets[g].wire # <<>>
  /\ \E ok \in BOOLEAN :
       LET entry == Head(client.sockets[g].wire)
           routes == IF ok THEN RouteOfCommand(entry.command) ELSE {}
           c == [client EXCEPT !.sockets[g].wire = Tail(@),
                               !.sockets[g].routes = IF Subscribes(entry.command) THEN @ \cup routes ELSE @ \ routes]
       IN client' = IF entry.tracked
            THEN Settled(Settle([c EXCEPT !.pending = @ \ {entry.command}], entry.command, ok)) ELSE c

-----------------------------------------------------------------------------
Attempt(g) == UrlReady(g) \/ UrlFails(g) \/ SocketOpens(g) \/ SocketFails(g) \/ SocketCloses(g)

Next ==
  \/ ConnectCall \/ AbortConnect \/ Disconnect \/ Publish
  \/ (\E k \in 1..MaxPublishes : CancelPublish(k))
  \/ (\E l \in Listeners : SubscribeCall(l) \/ CancelSubscribe(l) \/ UnsubscribeCall(l))
  \/ ReconnectTimer \/ CommandTimeout \/ Heartbeat
  \/ (\E g \in Generations : Attempt(g) \/ Answer(g))

Spec == Init /\ [][Next]_client

-----------------------------------------------------------------------------
Outstanding == client.pending \cup Range(client.queued)

\* Every publish is settled or held in exactly one place, the queue or the pending map:
\* whatever closes, times out, is cancelled or restored in between, no caller of publish is
\* forgotten and none is answered twice.  A publish that was once handed to a socket never
\* waits in the queue again: when its connection is lost it is rejected, never sent a
\* second time (docs/typescript-sdk.md, "rejected rather than replayed").  Neither place
\* outgrows its limit, whatever is put back (client.ts:478-525).
HeldOnce ==
  /\ \A k \in 1..client.published : (k \in client.settled) # (Command("publish", k) \in Outstanding)
  /\ IsInjective(client.queued) /\ Range(client.queued) \cap client.pending = {}
  /\ \A k \in client.wired : Command("publish", k) \notin Range(client.queued)
  /\ Len(client.queued) <= MaximumQueuedCommands
  /\ Cardinality(client.pending) <= MaximumPendingCommands

\* The client says "open" only while its current socket is one whose subscriptions were
\* restored: close events, timers and reactions of superseded attempts do not interfere.
OpenIsEstablished ==
  client.state = "open" => client.socket = client.generation /\ client.sockets[client.socket].established

\* The promise that connect hands to every further caller belongs to an attempt that can
\* still settle it; otherwise connect could never be called with effect again.
ConnectPromiseIsLive ==
  client.connectPromise # 0 =>
    LET s == client.sockets[client.connectPromise]
    IN ~s.settled /\ s.phase \in {"url", "connecting", "open", "closing"}

\* A manual connection supersedes an in-flight automatic reconnect
\* (sdk/typescript/test/client.test.mjs): while connect is under way no reconnect is due.
ManualConnectSupersedes == client.connectPromise # 0 => ~client.reconnectTimer

\* A subscribe command that was not answered is still held somewhere: in the queue, on the
\* wire, or by the restoration that took it (client.test.mjs: a failed restoration "rejects
\* queued commands").
SubscribeNotLost ==
  \A r \in Routes : client.subscriptionCommands[r] = "sent" =>
    \/ Command("subscribe", r) \in Outstanding
    \/ \E g \in Generations : r \in client.sockets[g].taken
===============================================================================
