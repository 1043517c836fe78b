----------------------------- MODULE NodeUpgrade -----------------------------
(***************************************************************************)
(* The Node/Express example's process: its start (server.mjs), the upgrade *)
(* handler that proxies a browser's WebSocket to the gateway (upgrade.mjs) *)
(* and the shutdown that drains them (lifecycle.mjs).  Everything runs on  *)
(* one event loop, so a step is one callback.  A destroyed socket emits    *)
(* its "close" later, and another callback may run in between: that is the *)
(* state "destroyed".                                                      *)
(***************************************************************************)
CONSTANT Clients    \* the TCP connections browsers open

VARIABLES
  pc,               \* connecting, binding, serving, stopping, quitting, stopped, ended
  drain,            \* drainWebSockets: "none", "waiting", "done"
  expired,          \* its deadline has fired
  sock,             \* per client: the two sockets and the upstream request
  upgradedSockets,  \* the records of connections not yet closed
  latecomers        \* who was upgraded or answered after the drain was over

vars == <<pc, drain, expired, sock, upgradedSockets, latecomers>>

\* A socket of a client that never came.  An upgrade request waits for the
\* gateway's answer while its state is "pending".
Absent == [browser |-> "none", gateway |-> "none", request |-> "none"]

TypeOK ==
  /\ pc \in {"connecting", "binding", "serving", "stopping", "quitting", "stopped",
           "ended"}
  /\ drain \in {"none", "waiting", "done"} /\ expired \in BOOLEAN
  /\ sock \in [Clients -> [browser : {"none", "accepted", "open", "destroyed", "closed"},
                           gateway : {"none", "open", "destroyed", "closed"},
                           request : {"none", "pending", "over"}]]
  /\ upgradedSockets \in SUBSET Clients /\ latecomers \in SUBSET Clients

Init == /\ pc = "connecting" /\ drain = "none" /\ expired = FALSE
        /\ sock = [c \in Clients |-> Absent]
        /\ upgradedSockets = {} /\ latecomers = {}

\* connectWithDeadline: the connection or the timer wins the race; a lost
\* race ends the process.
RedisConnected == /\ pc = "connecting" /\ pc' = "binding"
                  /\ UNCHANGED <<drain, expired, sock, upgradedSockets, latecomers>>
StartupFailed == /\ pc \in {"connecting", "binding"} /\ pc' = "ended"
                 /\ UNCHANGED <<drain, expired, sock, upgradedSockets, latecomers>>
Listening == /\ pc = "binding" /\ pc' = "serving"
             /\ UNCHANGED <<drain, expired, sock, upgradedSockets, latecomers>>

Running == pc \in {"serving", "stopping", "quitting", "stopped"}

\* latecomers after client c got a socket or a request.
Arrives(c) == latecomers' = IF drain = "done" THEN latecomers \cup {c} ELSE latecomers

\* The listener accepts until server.close().
Accept(c) == /\ pc = "serving" /\ sock[c].browser = "none"
             /\ sock' = [sock EXCEPT ![c].browser = "accepted"]
             /\ UNCHANGED <<pc, drain, expired, upgradedSockets, latecomers>>

Destroyed(s) == IF s \in {"accepted", "open"} THEN "destroyed" ELSE s

browserClosed(r) == r.browser = "closed"
gatewayClosed(r) == r.gateway \in {"none", "closed"}

\* Mutant: one closed side is enough to forget the connection.
ForgetOnEither(c, r) == IF browserClosed(r) \/ gatewayClosed(r)
                        THEN upgradedSockets \ {c} ELSE upgradedSockets

\* forgetIfClosed of client c, whose record is now r.
Forget(c, r) == IF browserClosed(r) /\ gatewayClosed(r)
                THEN upgradedSockets \ {c} ELSE upgradedSockets

\* An upgrade request, also one on a connection accepted before the stop: a
\* wrong path destroys the socket, otherwise the connection is recorded and
\* proxied, and a proxy that throws destroys the socket of a recorded one.
Upgrade(c) ==
  /\ Running /\ sock[c].browser = "accepted"
  /\ \/ /\ sock' = [sock EXCEPT ![c].browser = "destroyed"]
        /\ UNCHANGED upgradedSockets
     \/ /\ sock' = [sock EXCEPT ![c].browser = "open", ![c].request = "pending"]
        /\ upgradedSockets' = upgradedSockets \cup {c}
     \/ /\ sock' = [sock EXCEPT ![c].browser = "destroyed"]
        /\ upgradedSockets' = upgradedSockets \cup {c}
  /\ Arrives(c)
  /\ UNCHANGED <<pc, drain, expired>>

\* The gateway answers: 101 with a socket, another status, or an error, on
\* which server.mjs destroys the browser's socket.  finishHandshake detaches
\* closeUpstream and cancels the deadline.
HandshakeFinished(c) ==
  /\ Running /\ sock[c].request = "pending"
  /\ \E r \in {[sock[c] EXCEPT !.request = "over", !.gateway = "open"],
               [sock[c] EXCEPT !.request = "over"],
               [sock[c] EXCEPT !.request = "over", !.browser = Destroyed(@)]} :
       sock' = [sock EXCEPT ![c] = r]
  /\ Arrives(c)
  /\ UNCHANGED <<pc, drain, expired, upgradedSockets>>

HandshakeTimedOut(c) ==
  /\ Running /\ sock[c].request = "pending"
  /\ sock' = [sock EXCEPT ![c].request = "over", ![c].browser = Destroyed(@)]
  /\ UNCHANGED <<pc, drain, expired, upgradedSockets, latecomers>>

\* A side ends: its peer left, or the other side's end came through the pipe.
SocketEnds(c) ==
  /\ Running
  /\ \/ /\ sock[c].browser \in {"accepted", "open"}
        /\ sock' = [sock EXCEPT ![c].browser = "destroyed"]
     \/ /\ sock[c].gateway = "open"
        /\ sock' = [sock EXCEPT ![c].gateway = "destroyed"]
  /\ UNCHANGED <<pc, drain, expired, upgradedSockets, latecomers>>

\* The "close" events.  closeUpstream is attached while the request waits.
BrowserClosed(c) ==
  /\ Running /\ sock[c].browser = "destroyed"
  /\ \E r \in {[sock[c] EXCEPT !.browser = "closed",
                               !.request = IF @ = "pending" THEN "over" ELSE @]} :
       /\ sock' = [sock EXCEPT ![c] = r]
       /\ upgradedSockets' = Forget(c, r)
  /\ UNCHANGED <<pc, drain, expired, latecomers>>

GatewayClosed(c) ==
  /\ Running /\ sock[c].gateway = "destroyed"
  /\ \E r \in {[sock[c] EXCEPT !.gateway = "closed"]} :
       /\ sock' = [sock EXCEPT ![c] = r]
       /\ upgradedSockets' = Forget(c, r)
  /\ UNCHANGED <<pc, drain, expired, latecomers>>

\* stop(signal): only the first signal counts.  Close frames ask the peers to
\* leave; whether they do is SocketEnds.
Stop ==
  /\ pc = "serving" /\ pc' = "stopping"
  /\ drain' = IF upgradedSockets = {} THEN "done" ELSE "waiting"
  /\ UNCHANGED <<expired, sock, upgradedSockets, latecomers>>

DrainPoll == /\ pc = "stopping" /\ drain = "waiting" /\ upgradedSockets = {}
             /\ drain' = "done"
             /\ UNCHANGED <<pc, expired, sock, upgradedSockets, latecomers>>

\* Mutant: the deadline destroys the browsers' sockets only.
DrainDeadlineBrowsers ==
  /\ pc = "stopping" /\ drain = "waiting" /\ drain' = "done" /\ expired' = TRUE
  /\ sock' = [c \in Clients |->
                IF c \in upgradedSockets THEN [sock[c] EXCEPT !.browser = Destroyed(@)]
                ELSE sock[c]]
  /\ upgradedSockets' = {}
  /\ UNCHANGED <<pc, latecomers>>

DrainDeadline ==
  /\ pc = "stopping" /\ drain = "waiting" /\ drain' = "done" /\ expired' = TRUE
  /\ sock' = [c \in Clients |->
                IF c \in upgradedSockets
                THEN [sock[c] EXCEPT !.browser = Destroyed(@), !.gateway = Destroyed(@)]
                ELSE sock[c]]
  /\ upgradedSockets' = {}
  /\ UNCHANGED <<pc, latecomers>>

\* Promise.all: the server's callback comes when its last connection is gone,
\* upgraded ones included.
ServerClosed ==
  /\ pc = "stopping" /\ drain = "done"
  /\ \A c \in Clients : sock[c].browser \in {"none", "closed"}
  /\ pc' = "quitting"
  /\ UNCHANGED <<drain, expired, sock, upgradedSockets, latecomers>>

\* redisClient.quit() answers and stop() is over, or it fails and the rejection
\* nobody handles takes the process down.
RedisQuit == /\ pc = "quitting" /\ pc' \in {"stopped", "ended"}
             /\ UNCHANGED <<drain, expired, sock, upgradedSockets, latecomers>>

\* Nothing exits after stop(): the process ends with its last socket.
ProcessEnds == /\ pc = "stopped" /\ pc' = "ended"
               /\ \A c \in Clients : sock[c].gateway \in {"none", "closed"}
               /\ UNCHANGED <<drain, expired, sock, upgradedSockets, latecomers>>

\* The timer of stop(), a second after the drain's; the end of stop() clears it.
ForceExit == /\ pc \in {"stopping", "quitting"} /\ pc' = "ended"
             /\ UNCHANGED <<drain, expired, sock, upgradedSockets, latecomers>>

Next == \/ RedisConnected \/ StartupFailed \/ Listening
        \/ Stop \/ DrainPoll \/ DrainDeadline \/ ServerClosed \/ RedisQuit
        \/ ProcessEnds \/ ForceExit
        \/ \E c \in Clients :
             \/ Accept(c) \/ Upgrade(c) \/ HandshakeFinished(c) \/ HandshakeTimedOut(c)
             \/ SocketEnds(c) \/ BrowserClosed(c) \/ GatewayClosed(c)

\* Timers fire, a destroyed socket emits its "close" and a process with nothing
\* left to wait for ends; nothing is assumed of browsers, the gateway or Redis.
Fairness == /\ WF_vars(ForceExit) /\ WF_vars(StartupFailed) /\ WF_vars(ProcessEnds)
            /\ \A c \in Clients : WF_vars(GatewayClosed(c))

Spec == Init /\ [][Next]_vars /\ Fairness
-----------------------------------------------------------------------------
\* upgradedSockets is exactly what the drain has to wait for (upgrade.mjs:26):
\* until the drain's deadline empties it, a connection with a live socket on
\* either side is recorded, and one with both sides closed is not, whatever the
\* order of the handshake's answer and the two "close" events.
RecordMirrorsSockets ==
  expired \/ \A c \in Clients :
    LET r == sock[c] IN
    /\ r.browser = "open" \/ r.gateway \in {"open", "destroyed"} => c \in upgradedSockets
    /\ c \in upgradedSockets => ~(r.browser = "closed" /\ r.gateway \in {"none", "closed"})

\* Once the drain is over no gateway socket is left open, but for connections
\* that were upgraded or answered after it (lifecycle.mjs:52-73).
OnlyLateOutlivesDrain ==
  drain = "done" => \A c \in Clients \ latecomers : sock[c].gateway # "open"

\* A process that was told to stop ends, although a peer may ignore the close
\* frame and Redis may never answer QUIT, unless a connection upgraded or answered
\* after the drain was over still has a gateway socket: stop() has cleared the
\* forced exit by then (lifecycle.mjs:81-90).
StopEndsUnlessLate ==
  pc \in {"stopping", "stopped"} ~>
    \/ pc = "ended"
    \/ pc = "stopped" /\ \E c \in latecomers : sock[c].gateway = "open"
=============================================================================
