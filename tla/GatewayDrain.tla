----------------------------- MODULE GatewayDrain -----------------------------
(***************************************************************************)
(* Admission of WebSockets and the drain of a pod: HandleAsync up to and   *)
(* including registration and its teardown (RealtimeWebSocketHandler.cs),  *)
(* RealtimeConnectionRegistry (Add, Remove, NotifyServiceRestartAsync,     *)
(* CloseAllAsync) and GatewayDrainService.StoppingAsync, over several      *)
(* connections.  Of each connection only what these parts share is kept:   *)
(* the close-requested flag, the send lock with its disposal, the socket.  *)
(***************************************************************************)
EXTENDS Integers, FiniteSets

CONSTANT Connections

ASSUME ConnectionsAssumption == IsFiniteSet(Connections)

VARIABLES
  handler,           \* per connection, where HandleAsync is
  connections,       \* the registry's dictionary
  active,            \* the metrics' count of open connections
  registryDraining,  \* RealtimeConnectionRegistry._draining
  stateDraining,     \* GatewayState.IsDraining
  socket,            \* per connection: "none", "open", "closed" (close frame sent), "gone"
  closeRequested,    \* _closeRequested
  sendLock,          \* who holds the send lock: "free", "sender", "drain"
  lockDisposed,      \* the send lock has been disposed
  drain,             \* where StoppingAsync is
  offered,           \* the connections the restart notice was offered to
  toClose,           \* what is left of CloseAllAsync's snapshot
  current,           \* the connection it is awaiting, as a set of at most one
  withToken,         \* CloseAllAsync runs with the host's shutdown token
  shutdownExpired    \* HostOptions.ShutdownTimeout has fired

connVars == <<socket, closeRequested, sendLock, lockDisposed>>
flagVars == <<registryDraining, stateDraining>>
drainVars == <<drain, offered, toClose, current, withToken, shutdownExpired>>
vars == <<handler, connections, active, flagVars, connVars, drainVars>>

HandlerStates == {"new", "authenticating", "accepted", "adding", "added", "serving",
                  "refused", "ending", "ended", "rejected"}

Init ==
  /\ handler = [c \in Connections |-> "new"]
  /\ connections = {} /\ active = 0
  /\ registryDraining = FALSE /\ stateDraining = FALSE
  /\ socket = [c \in Connections |-> "none"]
  /\ closeRequested = [c \in Connections |-> FALSE]
  /\ sendLock = [c \in Connections |-> "free"]
  /\ lockDisposed = [c \in Connections |-> FALSE]
  /\ drain = "running" /\ offered = {} /\ toClose = {} /\ current = {}
  /\ withToken = TRUE /\ shutdownExpired = FALSE

Goto(c, pc) == handler' = [handler EXCEPT ![c] = pc]

-----------------------------------------------------------------------------
(* The handshake.                                                          *)

Arrive(c) ==
  /\ handler[c] = "new"
  /\ Goto(c, IF stateDraining THEN "rejected" ELSE "authenticating")
  /\ UNCHANGED <<connections, active, flagVars, connVars, drainVars>>

\* AuthenticateAsync is awaited, so the drain is looked at again after it.
Authenticate(c) ==
  /\ handler[c] = "authenticating"
  /\ \/ Goto(c, "rejected") /\ UNCHANGED socket
     \/ /\ ~stateDraining
        /\ Goto(c, "accepted")
        /\ socket' = [socket EXCEPT ![c] = "open"]
  /\ UNCHANGED <<connections, active, flagVars, closeRequested, sendLock, lockDisposed, drainVars>>

AddCheck(c) ==
  /\ handler[c] = "accepted"
  /\ Goto(c, IF registryDraining THEN "refused" ELSE "adding")
  /\ UNCHANGED <<connections, active, flagVars, connVars, drainVars>>

AddInsert(c) ==
  /\ handler[c] = "adding"
  /\ connections' = connections \cup {c}
  /\ Goto(c, "added")
  /\ UNCHANGED <<active, flagVars, connVars, drainVars>>

\* Mutant: the drain is not looked at again after the insertion.
AddWithoutRecheck(c) ==
  /\ handler[c] = "added"
  /\ Goto(c, "serving") /\ active' = active + 1 /\ UNCHANGED connections
  /\ UNCHANGED <<flagVars, connVars, drainVars>>

\* Mutant: the withdrawn insertion has already been counted.

AddRecheck(c) ==
  /\ handler[c] = "added"
  /\ IF registryDraining
       THEN Goto(c, "refused") /\ connections' = connections \ {c} /\ UNCHANGED active
       ELSE Goto(c, "serving") /\ active' = active + 1 /\ UNCHANGED connections
  /\ UNCHANGED <<flagVars, connVars, drainVars>>

\* Mutant: a refused connection is taken off the count it never entered.

\* Registration failed: close with 1012, unless the drain is already closing it.
Refuse(c) ==
  /\ handler[c] = "refused"
  /\ Goto(c, "ending")
  /\ closeRequested' = [closeRequested EXCEPT ![c] = TRUE]
  /\ socket' = [socket EXCEPT ![c] = IF closeRequested[c] \/ @ = "gone" THEN @ ELSE "closed"]
  /\ UNCHANGED <<connections, active, flagVars, sendLock, lockDisposed, drainVars>>

-----------------------------------------------------------------------------
(* A registered connection.                                                *)

\* SemaphoreSlim.Release: the waiting close, if there is one, holds the lock next.
Released(c) == [sendLock EXCEPT ![c] = IF c \in current /\ @ # "drain" THEN "drain" ELSE "free"]

SendBegins(c) ==
  /\ handler[c] = "serving" /\ socket[c] = "open" /\ sendLock[c] = "free" /\ ~closeRequested[c]
  /\ sendLock' = [sendLock EXCEPT ![c] = "sender"]
  /\ UNCHANGED <<handler, connections, active, flagVars, socket, closeRequested, lockDisposed, drainVars>>

SendEnds(c) ==
  /\ sendLock[c] = "sender"
  /\ sendLock' = Released(c)
  /\ UNCHANGED <<handler, connections, active, flagVars, socket, closeRequested, lockDisposed, drainVars>>

\* The client closes, disconnects, or its network fails.
ClientLeaves(c) ==
  /\ socket[c] \in {"open", "closed"}
  /\ socket' = [socket EXCEPT ![c] = "gone"]
  /\ UNCHANGED <<handler, connections, active, flagVars, closeRequested, sendLock, lockDisposed, drainVars>>

\* The receive loop returns: the socket is gone, or a close was requested and the
\* client sent something else.  Then Cancel, Remove and the wait for the sender.
HandlerEnds(c) ==
  /\ handler[c] = "serving" /\ (socket[c] = "gone" \/ closeRequested[c])
  /\ Goto(c, "ending")
  /\ connections' = connections \ {c}
  /\ active' = active - 1
  /\ sendLock' = IF sendLock[c] = "sender" THEN Released(c) ELSE sendLock
  /\ UNCHANGED <<flagVars, socket, closeRequested, lockDisposed, drainVars>>

\* DisposeAsync: its own close returns at once when one was requested before.
Dispose(c) ==
  /\ handler[c] = "ending"
  /\ Goto(c, "ended")
  /\ socket' = [socket EXCEPT ![c] = "gone"]
  /\ closeRequested' = [closeRequested EXCEPT ![c] = @ \/ socket[c] = "open"]
  /\ lockDisposed' = [lockDisposed EXCEPT ![c] = TRUE]
  /\ UNCHANGED <<connections, active, flagVars, sendLock, drainVars>>

-----------------------------------------------------------------------------
(* StoppingAsync.                                                          *)

BeginDrainRegistry ==
  /\ drain = "running"
  /\ drain' = "marking" /\ registryDraining' = TRUE
  /\ UNCHANGED <<handler, connections, active, stateDraining, connVars, offered, toClose, current, withToken, shutdownExpired>>

BeginDrainState ==
  /\ drain = "marking"
  /\ drain' = "marked" /\ stateDraining' = TRUE
  /\ UNCHANGED <<handler, connections, active, registryDraining, connVars, offered, toClose, current, withToken, shutdownExpired>>

NotifyServiceRestart ==
  /\ drain = "marked"
  /\ drain' = "delaying" /\ offered' = connections
  /\ UNCHANGED <<handler, connections, active, flagVars, connVars, toClose, current, withToken, shutdownExpired>>

\* The drain interval passes, or the host's token ends it early.
CloseAll(token) ==
  /\ drain' = "closing" /\ toClose' = connections /\ current' = {} /\ withToken' = token

DelayEnds ==
  /\ drain = "delaying"
  /\ CloseAll(~shutdownExpired)
  /\ UNCHANGED <<handler, connections, active, flagVars, connVars, offered, shutdownExpired>>

ShutdownTimeout ==
  /\ drain \in {"delaying", "closing"} /\ ~shutdownExpired
  /\ shutdownExpired' = TRUE
  /\ UNCHANGED <<handler, connections, active, flagVars, connVars, drain, offered, toClose, current, withToken>>

\* Mutant: the loop runs until the registry is empty instead of over a snapshot.
CloseNextUntilEmpty(c) ==
  /\ drain = "closing" /\ current = {} /\ c \in toClose
  /\ toClose' = connections
  /\ IF closeRequested[c] \/ lockDisposed[c]
       THEN UNCHANGED <<sendLock, current>>
       ELSE /\ current' = {c}
            /\ sendLock' = IF sendLock[c] = "free" THEN [sendLock EXCEPT ![c] = "drain"] ELSE sendLock
  /\ closeRequested' = [closeRequested EXCEPT ![c] = TRUE]
  /\ UNCHANGED <<handler, connections, active, flagVars, socket, lockDisposed, drain, offered, withToken, shutdownExpired>>

\* RequestCloseAsync of the next connection up to its wait for the send lock; the
\* wait on a disposed lock throws, which RequestCloseAsync swallows.
CloseNext(c) ==
  /\ drain = "closing" /\ current = {} /\ c \in toClose
  /\ toClose' = toClose \ {c}
  /\ IF closeRequested[c] \/ lockDisposed[c]
       THEN UNCHANGED <<sendLock, current>>
       ELSE /\ current' = {c}
            /\ sendLock' = IF sendLock[c] = "free" THEN [sendLock EXCEPT ![c] = "drain"] ELSE sendLock
  /\ closeRequested' = [closeRequested EXCEPT ![c] = TRUE]
  /\ UNCHANGED <<handler, connections, active, flagVars, socket, lockDisposed, drain, offered, withToken, shutdownExpired>>

\* The frame is sent, or sending it fails; the release throws on a disposed lock
\* and nothing between here and the host catches that.
CloseSent(c) ==
  /\ c \in current /\ sendLock[c] = "drain"
  /\ socket' = [socket EXCEPT ![c] = IF @ = "open" THEN "closed" ELSE @]
  /\ sendLock' = Released(c)
  /\ current' = {}
  /\ drain' = IF lockDisposed[c] THEN "faulted" ELSE drain
  /\ UNCHANGED <<handler, connections, active, flagVars, closeRequested, lockDisposed, offered, toClose, withToken, shutdownExpired>>

\* Mutant: a cancelled round is the last one.

\* The shutdown token fires during the wait or the send: the request is withdrawn
\* and a second round begins without a token.
CloseCancelled(c) ==
  /\ c \in current /\ withToken /\ shutdownExpired
  /\ closeRequested' = [closeRequested EXCEPT ![c] = FALSE]
  /\ IF sendLock[c] = "drain"
       THEN /\ sendLock' = Released(c)
            /\ socket' = [socket EXCEPT ![c] = IF @ = "open" THEN "gone" ELSE @]
       ELSE UNCHANGED <<sendLock, socket>>
  /\ IF sendLock[c] = "drain" /\ lockDisposed[c]
       THEN drain' = "faulted" /\ current' = {} /\ UNCHANGED <<toClose, withToken>>
       ELSE CloseAll(FALSE)
  /\ UNCHANGED <<handler, connections, active, flagVars, lockDisposed, offered, shutdownExpired>>

DrainCompletes ==
  /\ drain = "closing" /\ current = {} /\ toClose = {}
  /\ drain' = "completed"
  /\ UNCHANGED <<handler, connections, active, flagVars, connVars, offered, toClose, current, withToken, shutdownExpired>>

Draining ==
  \/ BeginDrainState \/ NotifyServiceRestart \/ DelayEnds \/ DrainCompletes
  \/ \E c \in Connections : CloseNext(c) \/ CloseCancelled(c)

Next ==
  \/ BeginDrainRegistry \/ ShutdownTimeout \/ Draining
  \/ \E c \in Connections :
       \/ Arrive(c) \/ Authenticate(c) \/ AddCheck(c) \/ AddInsert(c) \/ AddRecheck(c) \/ Refuse(c)
       \/ SendBegins(c) \/ SendEnds(c) \/ ClientLeaves(c) \/ HandlerEnds(c) \/ Dispose(c)
       \/ CloseSent(c)

\* The pod's own steps happen; nothing is assumed of the clients.
StalledSpec ==
  /\ Init /\ [][Next]_vars
  /\ WF_vars(Draining) /\ WF_vars(ShutdownTimeout)
  /\ \A c \in Connections :
       /\ WF_vars(AddRecheck(c) \/ Refuse(c))
       /\ WF_vars(socket[c] = "gone" /\ HandlerEnds(c)) /\ WF_vars(Dispose(c))
       /\ WF_vars(socket[c] # "open" /\ (SendEnds(c) \/ CloseSent(c)))

\* Clients read what they are sent, or their connections break.
Spec == StalledSpec /\ \A c \in Connections : WF_vars(SendEnds(c) \/ CloseSent(c))

-----------------------------------------------------------------------------
TypeOK ==
  /\ handler \in [Connections -> HandlerStates]
  /\ connections \subseteq Connections /\ active \in 0..Cardinality(Connections)
  /\ registryDraining \in BOOLEAN /\ stateDraining \in BOOLEAN
  /\ socket \in [Connections -> {"none", "open", "closed", "gone"}]
  /\ closeRequested \in [Connections -> BOOLEAN]
  /\ sendLock \in [Connections -> {"free", "sender", "drain"}]
  /\ lockDisposed \in [Connections -> BOOLEAN]
  /\ drain \in {"running", "marking", "marked", "delaying", "closing", "completed", "faulted"}
  /\ offered \subseteq Connections /\ toClose \subseteq Connections
  /\ current \subseteq Connections /\ Cardinality(current) <= 1
  /\ withToken \in BOOLEAN /\ shutdownExpired \in BOOLEAN

\* Every connection still being served once the notice has gone out was offered it:
\* Add's two looks at the drain leave no gap for one that registers meanwhile.
NoticeMissesNobody ==
  drain \in {"delaying", "closing", "completed", "faulted"} =>
    \A c \in Connections : handler[c] = "serving" => c \in offered

\* A drain that completes has requested the close of every connection still served.
CompletedDrainAskedAll ==
  drain = "completed" => \A c \in Connections : handler[c] = "serving" => closeRequested[c]

\* The open-connections metric counts exactly the connections whose registration
\* stood; the dictionary also holds those between insertion and the second look.
ActiveMatchesRegistry ==
  active = Cardinality({c \in connections : handler[c] # "added"})

\* A drain, once begun, comes to an end.
DrainEnds == drain = "marking" ~> drain \in {"completed", "faulted"}

\* "remaining sockets close when draining completes": once the drain is under way,
\* every connection being served is asked to close or ends by itself.
RemainingSocketsClose ==
  \A c \in Connections :
    (drain # "running" /\ handler[c] = "serving") ~> (closeRequested[c] \/ handler[c] # "serving")
===============================================================================
