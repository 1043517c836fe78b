------------------------ MODULE TypeScriptTransport ------------------------
(***************************************************************************)
(* sdk/typescript/src/transport.ts: the socket the browser client gets     *)
(* when several transports are configured.  InitializingFallbackSocket     *)
(* tries them in order; HttpStreamingSocket is the fetch based one.        *)
(*                                                                         *)
(* sock holds the fields of both classes, the microtasks that wait, and    *)
(* what the application (client.ts) did and heard.  The callbacks nest: a  *)
(* method of one class runs the handler of the other before it returns, so *)
(* every method is an operator from one sock to the next.  server is what  *)
(* the gateway knows of the HTTP connection.                               *)
(***************************************************************************)
EXTENDS Naturals, Sequences, SequencesExt

CONSTANTS
  TransportLists,    \* the transport lists an application may configure
  MaxSends,   \* messages the application sends
  MaxCloses   \* calls of close by the application

VARIABLES sock, server

vars == <<sock, server>>

Http == "http-streaming"

(***************************************************************************)
(* InitializingFallbackSocket: state, opened, index, and socket, the       *)
(* candidate in use (0: undefined).  task is the pending part of tryNext.  *)
(* cand is the readyState of each candidate created so far; detached the   *)
(* candidates whose onclose was set to null.                               *)
(* HttpStreamingSocket: its readyState is its cand entry; start is the     *)
(* point its asynchronous function waits at, sends the chain of sendTail.  *)
(***************************************************************************)
Init ==
  /\ \E transports \in TransportLists, ticket \in BOOLEAN :
       sock = [transports |-> transports, ticket |-> ticket,
               state |-> "connecting", opened |-> FALSE, index |-> 1, socket |-> 0,
               task |-> "tryNext", cand |-> [i \in DOMAIN transports |-> "none"],
               detached |-> {},
               start |-> "none", id |-> FALSE, aborted |-> FALSE, failed |-> FALSE,
               deleted |-> FALSE, sends |-> <<>>, posting |-> FALSE,
               sent |-> <<>>, closes |-> 0, opens |-> 0, closeEvents |-> 0]
  /\ server = [connection |-> "none", received |-> <<>>]

KindOf(i) == sock.transports[i]
HttpIndex == CHOOSE i \in DOMAIN sock.transports : KindOf(i) = Http
WebIndex == CHOOSE i \in DOMAIN sock.transports : KindOf(i) # Http

----------------------------------------------------------------------------
(* The handlers of the application and of the wrapper. *)

HearClose(s) == [s EXCEPT !.closeEvents = @ + 1]

\* advance: the next candidate, or the end of the list.
Advance(s) ==
  IF s.state # "connecting" THEN s
  ELSE LET t == [s EXCEPT !.socket = 0, !.index = @ + 1]
       IN IF t.index <= Len(t.transports) THEN [t EXCEPT !.task = "tryNext"]
          ELSE HearClose([t EXCEPT !.state = "closed"])

\* The candidate's onclose handler, unless it was detached.
CandidateClosed(i, s) ==
  IF i \in s.detached THEN s
  ELSE IF ~s.opened /\ s.state = "connecting" THEN Advance(s)
  ELSE HearClose([s EXCEPT !.state = "closed"])

\* HttpStreamingSocket.close.
HttpClose(i, s) ==
  IF s.cand[i] \in {"closing", "closed"} THEN s
  ELSE CandidateClosed(i, [s EXCEPT !.cand[i] = "closed", !.aborted = TRUE,
                                    !.deleted = @ \/ s.id])

\* close of a candidate: the browser's WebSocket reports the end later.
CandidateClose(i, s) ==
  IF s.transports[i] = Http THEN HttpClose(i, s)
  ELSE IF s.cand[i] = "closed" THEN s
  ELSE [s EXCEPT !.cand[i] = "closing"]

\* Mutant: no close event without a candidate.
CloseNoEvent(s) ==
  LET t == [s EXCEPT !.state = "closing", !.closes = @ + 1]
  IN IF t.socket # 0 THEN CandidateClose(t.socket, t) ELSE t

\* InitializingFallbackSocket.close.
Close(s) ==
  LET t == [s EXCEPT !.state = "closing", !.closes = @ + 1]
  IN IF t.socket # 0 THEN CandidateClose(t.socket, t)
     ELSE HearClose([t EXCEPT !.state = "closed"])

\* The candidate's onerror handler.
CandidateFailed(i, s) ==
  IF s.opened \/ s.state # "connecting" THEN s
  ELSE Advance(CandidateClose(i, [s EXCEPT !.detached = @ \cup {i}]))

\* Mutant: a socket given up on is left open.
HearOpenAlways(s) == [s EXCEPT !.opens = @ + 1]

\* The application's onopen closes a socket it has given up on.
HearOpen(s) ==
  LET t == [s EXCEPT !.opens = @ + 1]
  IN IF s.closes > 0 THEN Close(t) ELSE t

\* The candidate's onopen handler.
CandidateOpened(i, s) ==
  HearOpen([s EXCEPT !.cand[i] = "open", !.opened = TRUE, !.state = "open"])

\* HttpStreamingSocket.fail.
HttpFail(i, s) ==
  IF s.cand[i] = "closed" THEN s
  ELSE LET t == CandidateFailed(i, s)
       IN CandidateClosed(i, [t EXCEPT !.aborted = TRUE, !.cand[i] = "closed",
                                       !.failed = TRUE])

----------------------------------------------------------------------------
(* tryNext, in the pieces between its awaits. *)

Create(s) ==
  [s EXCEPT !.task = "none", !.socket = s.index, !.cand[s.index] = "connecting",
            !.start = IF s.transports[s.index] = Http THEN "queued" ELSE @]

TryNext ==
  /\ sock.task = "tryNext"
  /\ \/ /\ sock.state # "connecting"
        /\ sock' = [sock EXCEPT !.task = "none"]
     \/ /\ sock.state = "connecting"
        /\ sock.index > 1 /\ sock.ticket
        /\ sock' = [sock EXCEPT !.task = "url"]
     \/ /\ sock.state = "connecting"
        /\ sock.index = 1 \/ ~sock.ticket
        /\ \/ sock' = Create(sock)
           \/ sock' = Advance([sock EXCEPT !.task = "none"])   \* the factory throws
  /\ UNCHANGED server

\* nextConnectionUrl is settled; a socket closed meanwhile is left alone.
UrlSettles ==
  /\ sock.task = "url"
  /\ \/ /\ sock.state = "connecting"
        /\ sock' = Create(sock)
     \/ sock' = Advance([sock EXCEPT !.task = "none"])
  /\ UNCHANGED server

----------------------------------------------------------------------------
(* The browser's WebSocket. *)

WebSocketOpens ==
  /\ sock.cand[WebIndex] = "connecting"
  /\ sock' = CandidateOpened(WebIndex, sock)
  /\ UNCHANGED server

\* error, then close, in one task of the event loop.
WebSocketFails ==
  /\ sock.cand[WebIndex] \in {"connecting", "open", "closing"}
  /\ LET t == CandidateFailed(WebIndex, sock)
     IN sock' = CandidateClosed(WebIndex, [t EXCEPT !.cand[WebIndex] = "closed"])
  /\ UNCHANGED server

WebSocketCloses ==
  /\ sock.cand[WebIndex] \in {"open", "closing"}
  /\ sock' = CandidateClosed(WebIndex, [sock EXCEPT !.cand[WebIndex] = "closed"])
  /\ UNCHANGED server

----------------------------------------------------------------------------
(* HttpStreamingSocket.start and poll. *)

\* A rejected fetch or body of start and poll, or one that the signal aborts.
StartFails(s) == LET t == [s EXCEPT !.start = "ended"]
                 IN IF s.aborted THEN t ELSE HttpFail(HttpIndex, t)

StartBegins ==
  /\ sock.start = "queued"
  /\ sock' = IF sock.aborted THEN StartFails(sock) ELSE [sock EXCEPT !.start = "connect"]
  /\ UNCHANGED server

\* The gateway makes the connection; the answer may still be lost.
ServerConnects ==
  /\ sock.start = "connect" /\ server.connection = "none"
  /\ server' = [server EXCEPT !.connection = "live"]
  /\ UNCHANGED sock

ConnectFails ==
  /\ sock.start = "connect"
  /\ sock' = StartFails(sock)
  /\ UNCHANGED server

\* The body of the answer is parsed: the rest of start is a microtask, and
\* another one may run before it.
ConnectAnswered ==
  /\ sock.start = "connect" /\ server.connection # "none" /\ ~sock.aborted
  /\ sock' = [sock EXCEPT !.start = "answered"]
  /\ UNCHANGED server

StartContinues ==
  /\ sock.start = "answered"
  /\ sock' = CandidateOpened(HttpIndex, [sock EXCEPT !.id = TRUE, !.start = "poll"])
  /\ UNCHANGED server

\* One turn of poll: an answer that continues the loop, or its end.
PollTurn ==
  /\ sock.start = "poll"
  /\ \/ sock.cand[HttpIndex] # "open" /\ sock' = [sock EXCEPT !.start = "ended"]
     \/ sock' = StartFails(sock)
  /\ UNCHANGED server

----------------------------------------------------------------------------
(* send: a chain of requests, each started when the one before is done. *)

Send ==
  /\ sock.state = "open" /\ sock.opened /\ Len(sock.sent) < MaxSends
  /\ KindOf(sock.socket) = Http /\ sock.cand[sock.socket] = "open" /\ sock.id
  /\ LET m == Len(sock.sent) + 1
     IN sock' = [sock EXCEPT !.sent = Append(@, m), !.sends = Append(@, m)]
  /\ UNCHANGED server

SendStarts ==
  /\ sock.sends # <<>> /\ ~sock.posting
  /\ sock' = IF sock.aborted THEN HttpFail(HttpIndex, [sock EXCEPT !.sends = Tail(@)])
             ELSE [sock EXCEPT !.posting = TRUE]
  /\ UNCHANGED server

ServerReceives ==
  /\ sock.posting /\ server.connection = "live"
  /\ ~Contains(server.received, Head(sock.sends))
  /\ server' = [server EXCEPT !.received = Append(@, Head(sock.sends))]
  /\ UNCHANGED sock

SendSettles ==
  /\ sock.posting
  /\ LET t == [sock EXCEPT !.posting = FALSE, !.sends = Tail(@)]
     IN \/ /\ Contains(server.received, Head(sock.sends)) /\ ~sock.aborted
           /\ sock' = t
        \/ sock' = HttpFail(HttpIndex, t)
  /\ UNCHANGED server

\* The gateway handles the DELETE, or ends the connection on its own.
ServerEnds ==
  /\ server.connection = "live"
  /\ server' = [server EXCEPT !.connection = "gone"]
  /\ UNCHANGED sock

----------------------------------------------------------------------------
\* The application closes the socket: disconnect, an abort, a failed restoration.
AppCloses ==
  /\ sock.closes < MaxCloses
  /\ sock' = Close(sock)
  /\ UNCHANGED server

Done == sock.state \in {"closed", "closing"} /\ UNCHANGED vars

LocalStep == TryNext \/ UrlSettles \/ StartBegins \/ StartContinues \/ SendStarts
WebSocketStep == WebSocketOpens \/ WebSocketFails \/ WebSocketCloses
NetworkStep == WebSocketStep \/ ConnectFails \/ ConnectAnswered

Next == \/ LocalStep \/ NetworkStep
        \/ ServerConnects \/ PollTurn \/ Send \/ ServerReceives \/ SendSettles
        \/ ServerEnds \/ AppCloses \/ Done

(***************************************************************************)
(* Microtasks run; the browser ends every handshake, closing handshake and *)
(* request one way or the other.                                           *)
(***************************************************************************)
Spec == Init /\ [][Next]_vars /\ WF_vars(LocalStep)
        /\ WF_vars(WebSocketStep) /\ WF_vars(ConnectFails \/ ConnectAnswered)

----------------------------------------------------------------------------
Unsettled == sock.state = "connecting" \/ (sock.closes > 0 /\ sock.closeEvents = 0)

(***************************************************************************)
(* What client.ts relies on.  Until it calls close itself it hears at most *)
(* one open and one close, and hears the close exactly when the socket is  *)
(* closed; a socket it has closed is not open after any later task, though *)
(* the connect answer may be processed after the close (transport.ts:244), *)
(* and if the HTTP connection's id was learnt a DELETE went out.  The      *)
(* gateway has a prefix of what was given to send, in order: after a       *)
(* message that failed nothing else of the chain is posted                 *)
(* (transport.ts:201-210, 276-282).                                        *)
(***************************************************************************)
SocketContract ==
  /\ IsPrefix(server.received, sock.sent)
  /\ sock.closes = 0 => /\ sock.closeEvents = (IF sock.state = "closed" THEN 1 ELSE 0)
                        /\ sock.opens = (IF sock.opened THEN 1 ELSE 0)
  /\ sock.closes > 0 => /\ sock.state # "open"
                        /\ sock.id => sock.deleted \/ sock.failed

(***************************************************************************)
(* The socket does not stay connecting, and an application that has called *)
(* close hears a close event, whichever candidate, url request or handshake *)
(* the call interrupts (transport.ts:97-157).                              *)
(***************************************************************************)
SocketSettles == Unsettled ~> ~Unsettled

=============================================================================
