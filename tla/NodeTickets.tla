----------------------------- MODULE NodeTickets -----------------------------
(***************************************************************************)
(* The requests the Node/Express example proxies to the gateway (app.mjs): *)
(* ticket requests, which have a deadline of their own, and HTTP-transport *)
(* requests, which have none.  All of them share one http-proxy instance,  *)
(* whose "proxyReq" event every waiting ticket hears for every request.    *)
(***************************************************************************)
CONSTANTS Tickets, Fallbacks, None

Requests == Tickets \cup Fallbacks

VARIABLES
  resp,       \* the response: "none", "open", "headers", "ended", "destroyed", "closed"
  up,         \* the upstream request: "none", "waiting" for a socket, "sent",
              \* "dying" (destroyed, its error event to come), "over"
  captured,   \* a ticket's upstreamRequest variable
  armed,      \* tickets whose deadline timer is set
  heard,      \* tickets whose captureUpstream listens to "proxyReq"
  late,       \* ghost: tickets whose deadline fired
  cut         \* ghost: requests whose upstream a deadline destroyed

vars == <<resp, up, captured, armed, heard, late, cut>>

Init == /\ resp = [r \in Requests |-> "none"] /\ up = [r \in Requests |-> "none"]
        /\ captured = [t \in Tickets |-> None]
        /\ armed = {} /\ heard = {} /\ late = {} /\ cut = {}

\* POST /realtime/tickets past the Origin and session checks; if proxy.web
\* throws, finish() runs and the error handler answers 503.
Ticket(t) ==
  /\ resp[t] = "none"
  /\ \/ /\ resp' = [resp EXCEPT ![t] = "open"] /\ up' = [up EXCEPT ![t] = "waiting"]
        /\ armed' = armed \cup {t} /\ heard' = heard \cup {t}
     \/ /\ resp' = [resp EXCEPT ![t] = "ended"]
        /\ UNCHANGED <<up, armed, heard>>
  /\ UNCHANGED <<captured, late, cut>>

\* /realtime/http and the persistence routes; a throw is answered with 503.
Fallback(f) ==
  /\ resp[f] = "none"
  /\ \/ resp' = [resp EXCEPT ![f] = "open"] /\ up' = [up EXCEPT ![f] = "waiting"]
     \/ resp' = [resp EXCEPT ![f] = "ended"] /\ UNCHANGED up
  /\ UNCHANGED <<captured, armed, heard, late, cut>>

\* Mutant: takes the first request it hears of.
captureAny(t, r) == r

\* What ticket t holds once it has heard of the upstream request of r.
captureUpstream(t, r) == IF r = t THEN r ELSE captured[t]

\* The upstream request got its socket: http-proxy emits "proxyReq".
ProxyReq(r) ==
  /\ up[r] = "waiting" /\ up' = [up EXCEPT ![r] = "sent"]
  /\ captured' = [t \in Tickets |-> IF t \in heard THEN captureUpstream(t, r)
                                                   ELSE captured[t]]
  /\ UNCHANGED <<resp, armed, heard, late, cut>>

HeadersSent(r) == resp[r] \in {"headers", "ended"}

\* The gateway's answer: its head, and later the end of its body.
UpstreamAnswers(r) ==
  /\ up[r] = "sent"
  /\ \/ /\ resp[r] = "open" /\ resp' = [resp EXCEPT ![r] = "headers"]
        /\ UNCHANGED up
     \/ /\ resp[r] # "open" /\ up' = [up EXCEPT ![r] = "over"]
        /\ resp' = [resp EXCEPT ![r] = IF @ = "headers" THEN "ended" ELSE @]
  /\ UNCHANGED <<captured, armed, heard, late, cut>>

\* The connection breaks, http-proxy's own timeout aborts it, or the browser
\* leaves; the error event follows.
UpstreamBreaks(r) ==
  /\ up[r] \in {"waiting", "sent"} /\ up' = [up EXCEPT ![r] = "dying"]
  /\ UNCHANGED <<resp, captured, armed, heard, late, cut>>

\* proxy.on("error"): 502, or destroy what already has a head.
ProxyError(r) ==
  /\ up[r] = "dying" /\ up' = [up EXCEPT ![r] = "over"]
  /\ resp' = [resp EXCEPT ![r] = IF @ = "open" THEN "ended"
                                 ELSE IF HeadersSent(r) THEN "destroyed" ELSE @]
  /\ UNCHANGED <<captured, armed, heard, late, cut>>

Leave(r) == /\ resp[r] \in {"open", "headers"}
            /\ resp' = [resp EXCEPT ![r] = "destroyed"]
            /\ UNCHANGED <<up, captured, armed, heard, late, cut>>

\* Mutant: leaves a response alone that has its head.
DeadlineBeforeHead(t) ==
  /\ t \in armed /\ armed' = armed \ {t} /\ late' = late \cup {t}
  /\ resp' = [resp EXCEPT ![t] = IF @ = "open" THEN "ended" ELSE @]
  /\ UNCHANGED <<up, captured, heard, cut>>

\* The deadline destroys the captured upstream request, if there is one, and
\* answers 503 or destroys a response that has its head.
Deadline(t) ==
  /\ t \in armed /\ armed' = armed \ {t} /\ late' = late \cup {t}
  /\ \E hit \in {{captured[t]} \cap {r \in Requests : up[r] = "sent"}} :
       /\ up' = [r \in Requests |-> IF r \in hit THEN "dying" ELSE up[r]]
       /\ cut' = cut \cup hit
  /\ resp' = [resp EXCEPT ![t] = IF HeadersSent(t) THEN "destroyed"
                                 ELSE IF @ = "open" THEN "ended" ELSE @]
  /\ UNCHANGED <<captured, heard>>

\* "finish" or "close": finish() clears the timer and the listener.
Finish(r) ==
  /\ resp[r] \in {"ended", "destroyed"} /\ resp' = [resp EXCEPT ![r] = "closed"]
  /\ armed' = armed \ {r} /\ heard' = heard \ {r}
  /\ UNCHANGED <<up, captured, late, cut>>

Next == \/ \E t \in Tickets : Ticket(t) \/ Deadline(t)
        \/ \E f \in Fallbacks : Fallback(f)
        \/ \E r \in Requests : \/ ProxyReq(r) \/ UpstreamAnswers(r) \/ UpstreamBreaks(r)
                               \/ ProxyError(r) \/ Leave(r) \/ Finish(r)

\* Timers fire and a response's last event comes; the gateway may stay silent.
Fairness == /\ \A t \in Tickets : WF_vars(Deadline(t))
            /\ \A r \in Requests : WF_vars(Finish(r))

Spec == Init /\ [][Next]_vars /\ Fairness
-----------------------------------------------------------------------------
\* A ticket's deadline reaches only the ticket's own upstream request
\* (app.mjs:228), although its listener hears of every proxied request and the
\* upstream sockets come in any order: nobody else's request is cut.
DeadlineCutsItsOwn == cut \subseteq late

\* Every ticket request is over in bounded time, its timer and its listener on
\* the shared proxy released (app.mjs:224), when the gateway never answers, when
\* it stops in the middle of a body and when the deadline races the answer.
TicketReleases ==
  \A t \in Tickets : resp[t] = "open" ~> (resp[t] = "closed" /\ t \notin armed \cup heard)
=============================================================================
