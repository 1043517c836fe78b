-------------------------- MODULE NodeTicketsProofs --------------------------
(***************************************************************************)
(* The deadline of a proxied ticket request (app.mjs) never reaches another *)
(* request, for any number of ticket and HTTP-transport requests.          *)
(***************************************************************************)
EXTENDS NodeTickets, TLAPS

\* A ticket's upstreamRequest variable is unset or the ticket's own request.
OwnUpstream == captured \in [Tickets -> Requests \cup {None}]
               /\ \A t \in Tickets : captured[t] \in {t, None}

IInv == OwnUpstream /\ DeadlineCutsItsOwn

\* Every callback leaves the variable own, and cuts what it names at most.
LEMMA StepKeepsOwn ==
  ASSUME None \notin Requests, IInv, [Next]_vars
  PROVE  IInv'
<1> USE DEF IInv, OwnUpstream, DeadlineCutsItsOwn
<1>1. ASSUME NEW t \in Tickets, Ticket(t)
      PROVE  IInv'
  BY <1>1 DEF Ticket
<1>2. ASSUME NEW t \in Tickets, Deadline(t)
      PROVE  IInv'
  <2>1. PICK hit \in {{captured[t]} \cap {r \in Requests : up[r] = "sent"}} :
          cut' = cut \cup hit
    BY <1>2 DEF Deadline
  <2>2. hit \subseteq {t}
    BY <2>1
  <2> QED
    BY <1>2, <2>1, <2>2 DEF Deadline
<1>3. ASSUME NEW f \in Fallbacks, Fallback(f)
      PROVE  IInv'
  BY <1>3 DEF Fallback
<1>4. ASSUME NEW r \in Requests, ProxyReq(r)
      PROVE  IInv'
  BY <1>4 DEF ProxyReq, captureUpstream
<1>5. ASSUME NEW r \in Requests,
             UpstreamAnswers(r) \/ UpstreamBreaks(r) \/ ProxyError(r) \/ Leave(r) \/ Finish(r)
      PROVE  IInv'
  BY <1>5 DEF UpstreamAnswers, UpstreamBreaks, ProxyError, Leave, Finish
<1>6. CASE UNCHANGED vars
  BY <1>6 DEF vars
<1> QED
  BY <1>1, <1>2, <1>3, <1>4, <1>5, <1>6 DEF Next

\* captureUpstream (app.mjs:228-230) keeps the tickets apart: whatever the order in which
\* upstream sockets come, a request cut by a deadline is one whose own deadline fired.
THEOREM DeadlineIsOwn ==
  ASSUME None \notin Requests
  PROVE  Spec => []DeadlineCutsItsOwn
<1>1. Init => IInv
  BY DEF Init, IInv, OwnUpstream, DeadlineCutsItsOwn
<1>2. IInv /\ [Next]_vars => IInv'
  BY StepKeepsOwn
<1>3. IInv => DeadlineCutsItsOwn
  BY DEF IInv
<1> QED
  BY <1>1, <1>2, <1>3, PTL DEF Spec

=============================================================================
