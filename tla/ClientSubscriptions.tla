-------------------------- MODULE ClientSubscriptions --------------------------
(***************************************************************************)
(* Subscription changes of the .NET client                                 *)
(* (src/src/Realtime.Client/RealtimeClient.cs): SubscribeAsync and         *)
(* UnsubscribeAsync, the server's answers, and the restoration of the      *)
(* desired routes on every new connection.                                 *)
(*                                                                         *)
(* _subscriptionOrderGate lets one call at a time change a subscription,   *)
(* so there is one caller.  Of the run loop (RealtimeClient) the phases of *)
(* a connection are kept; of the send queue, the commands in it.  A        *)
(* command is known by the sequence number of its mutation.                *)
(***************************************************************************)
EXTENDS Naturals, Sequences, FiniteSets

CONSTANTS
  Routes,
  ResponseCapacity,      \* SendQueueCapacity, for _subscriptionResponseSlots
  MaximumSubscriptions,
  MaxMutations           \* bound on the mutations of a behaviour

\* What the options' validation guarantees.
SubscriptionsAssumption ==
  /\ ResponseCapacity \in Nat \ {0} /\ MaximumSubscriptions \in Nat \ {0} /\ MaxMutations \in Nat

VARIABLES
  link,       \* "online", "ending", "down", "replaying", "stopping", "stopped"
  accepting,  \* _acceptingSends
  desired,    \* _subscriptions
  confirmed,  \* _confirmedSubscriptions
  pending,    \* _pendingSubscriptionMutations
  next,       \* _nextSubscriptionMutationSequence
  respFree,   \* _subscriptionResponseSlots
  gate,       \* _subscriptionGate: "free", "caller" or "replay"
  caller,     \* where ChangeSubscriptionAsync is, and for which route
  rollback,   \* _activeSubscriptionRollback of the call
  outbound,   \* commands in the send queue
  replay,     \* where ReplayConnectionStateAsync is
  todo,       \* the routes it has yet to restore
  wire,       \* commands sent on this connection and not yet answered
  server      \* the connection's subscriptions at the gateway

linkVars == <<link, accepting>>
routeVars == <<desired, confirmed, pending>>
callVars == <<caller, rollback>>
replayVars == <<replay, todo>>
vars == <<linkVars, routeVars, next, respFree, gate, callVars, outbound, replayVars, wire, server>>

Mutations == [seq : 1..MaxMutations, route : Routes, subscribe : BOOLEAN]
Idle == [pc |-> "idle"]
NoRollback == [active |-> FALSE]

Init ==
  /\ link = "online" /\ accepting = TRUE
  /\ desired = {} /\ confirmed = {} /\ pending = {} /\ next = 0
  /\ respFree = ResponseCapacity /\ gate = "free"
  /\ caller = Idle /\ rollback = NoRollback
  /\ outbound = <<>> /\ replay = "off" /\ todo = {} /\ wire = <<>> /\ server = {}

-----------------------------------------------------------------------------
Changed(routes, route, subscribe) == IF subscribe THEN routes \cup {route} ELSE routes \ {route}

\* ReconcileDesiredSubscriptionLocked: the latest pending change of the route decides,
\* or else what the server has confirmed.
Reconciled(route, routes, mutations, acknowledged) ==
  LET ofRoute == {m \in mutations : m.route = route}
      latest == CHOOSE m \in ofRoute : \A k \in ofRoute : k.seq <= m.seq
  IN Changed(routes, route, IF ofRoute = {} THEN route \in acknowledged ELSE latest.subscribe)

\* RollbackSubscriptionChange.
RolledBack(mutations) ==
  IF rollback.observed THEN Reconciled(rollback.route, desired, mutations, confirmed)
                       ELSE Changed(desired, rollback.route, rollback.previous)

-----------------------------------------------------------------------------
(* ChangeSubscriptionAsync.                                                *)

\* The checks up to line 272, which change nothing.
CallBegins ==
  /\ caller = Idle /\ link = "online" /\ gate = "free" /\ next < MaxMutations
  /\ \E r \in Routes, s \in BOOLEAN :
       /\ (r \in desired) # s
       /\ caller' = [pc |-> "gate", route |-> r, subscribe |-> s]
  /\ UNCHANGED <<linkVars, routeVars, next, respFree, gate, rollback, outbound, replayVars, wire, server>>

\* The send slot and the gate are obtained and the checks repeated: the call gives up,
\* or records its intent.
CallEnters ==
  /\ caller.pc = "gate" /\ gate = "free"
  /\ LET r == caller.route
         s == caller.subscribe
         refused == \/ link # "online" \/ (r \in desired) = s
                    \/ s /\ Cardinality(desired) >= MaximumSubscriptions
     IN IF refused
          THEN caller' = Idle /\ UNCHANGED <<desired, rollback, gate>>
          ELSE /\ desired' = Changed(desired, r, s)
               /\ rollback' = [active |-> TRUE, route |-> r, previous |-> ~s, observed |-> FALSE]
               /\ caller' = [caller EXCEPT !.pc = "response"]
               /\ gate' = "caller"
  /\ UNCHANGED <<linkVars, confirmed, pending, next, respFree, outbound, replayVars, wire, server>>

\* The caller's token fires while it waits for the send slot or the gate.
CallGivesUp ==
  /\ caller.pc = "gate" /\ caller' = Idle
  /\ UNCHANGED <<linkVars, routeVars, next, respFree, gate, rollback, outbound, replayVars, wire, server>>

CallFailed(mutations) ==
  /\ desired' = RolledBack(mutations) /\ rollback' = NoRollback
  /\ gate' = "free" /\ caller' = Idle

CallTakesResponseSlot ==
  /\ caller.pc = "response" /\ respFree > 0
  /\ respFree' = respFree - 1
  /\ caller' = [caller EXCEPT !.pc = "checking"]
  /\ UNCHANGED <<linkVars, routeVars, next, gate, rollback, outbound, replayVars, wire, server>>

CallCancelled ==
  /\ caller.pc = "response"
  /\ CallFailed(pending)
  /\ UNCHANGED <<linkVars, confirmed, pending, next, respFree, outbound, replayVars, wire, server>>

\* Mutant: a call that finds the connection lost keeps the gate.
CallRechecksKeepsGate ==
  /\ caller.pc = "checking"
  /\ IF link = "online"
       THEN /\ desired' = Changed(desired, caller.route, caller.subscribe)
            /\ caller' = [caller EXCEPT !.pc = "registering"]
            /\ UNCHANGED <<rollback, respFree>>
       ELSE /\ desired' = RolledBack(pending) /\ rollback' = NoRollback
            /\ caller' = Idle /\ respFree' = respFree + 1
  /\ UNCHANGED <<gate, linkVars, confirmed, pending, next, outbound, replayVars, wire, server>>

\* EnsureConnectedForSubscriptionChange once more; an answer to an earlier command for
\* the route may have undone the intent, which is recorded again.
CallRechecks ==
  /\ caller.pc = "checking"
  /\ IF link = "online"
       THEN /\ desired' = Changed(desired, caller.route, caller.subscribe)
            /\ caller' = [caller EXCEPT !.pc = "registering"]
            /\ UNCHANGED <<rollback, gate, respFree>>
       ELSE CallFailed(pending) /\ respFree' = respFree + 1
  /\ UNCHANGED <<linkVars, confirmed, pending, next, outbound, replayVars, wire, server>>

\* RegisterSubscriptionMutation.  Nothing relates it to the connection of the check.
CallRegisters ==
  /\ caller.pc = "registering"
  /\ next < MaxMutations
  /\ next' = next + 1
  /\ pending' = pending \cup {[seq |-> next', route |-> caller.route, subscribe |-> caller.subscribe]}
  /\ caller' = [caller EXCEPT !.pc = "enqueueing"]
  /\ UNCHANGED <<linkVars, desired, confirmed, respFree, gate, rollback, outbound, replayVars, wire, server>>

\* EnqueueOwnedAsync succeeds, or the client is stopping and the change is undone.
CallEnqueues ==
  /\ caller.pc = "enqueueing"
  /\ LET own == {m \in pending : m.seq = next} IN
     IF accepting
       THEN /\ outbound' = Append(outbound, [seq |-> next, route |-> caller.route, subscribe |-> caller.subscribe])
            /\ rollback' = NoRollback /\ gate' = "free" /\ caller' = Idle
            /\ UNCHANGED <<desired, pending, respFree>>
       ELSE /\ pending' = pending \ own
            /\ respFree' = respFree + Cardinality(own)
            /\ CallFailed(pending') /\ UNCHANGED outbound
  /\ UNCHANGED <<linkVars, confirmed, next, replayVars, wire, server>>

-----------------------------------------------------------------------------
(* The connection.                                                         *)

SendLoopSends ==
  /\ link = "online" /\ outbound # <<>>
  /\ wire' = Append(wire, Head(outbound)) /\ outbound' = Tail(outbound)
  /\ UNCHANGED <<linkVars, routeVars, next, respFree, gate, callVars, replayVars, server>>

\* The gateway acknowledges or rejects the oldest command and HandleSubscriptionResponse
\* handles the answer, if the command is still pending.  The receive loop may go on
\* after the end of the connection has been noticed elsewhere.
ResponseArrives ==
  /\ link \in {"online", "replaying", "ending", "stopping"} /\ wire # <<>>
  /\ \E ok \in BOOLEAN :
       LET m == Head(wire) IN
       /\ wire' = Tail(wire)
       /\ server' = IF ok THEN Changed(server, m.route, m.subscribe) ELSE server
       /\ IF m \in pending
            THEN /\ pending' = pending \ {m}
                 /\ confirmed' = IF ok THEN Changed(confirmed, m.route, m.subscribe) ELSE confirmed
                 /\ desired' = Reconciled(m.route, desired, pending', confirmed')
                 /\ rollback' = IF rollback.active /\ rollback.route = m.route
                                THEN [rollback EXCEPT !.observed = TRUE] ELSE rollback
                 /\ respFree' = respFree + 1
            ELSE UNCHANGED <<pending, confirmed, desired, rollback, respFree>>
  /\ UNCHANGED <<linkVars, next, gate, caller, outbound, replayVars>>

\* The connection fails or is closed; the state is no longer Connected.
ConnectionEnds ==
  /\ link \in {"online", "replaying"} /\ link' = "ending"
  /\ UNCHANGED <<accepting, routeVars, next, respFree, gate, callVars, outbound, replayVars, wire, server>>

\* DisconnectAsync, Dispose, a normal close or a fault.
Stop ==
  /\ link \notin {"stopping", "stopped"} /\ link' = "stopping" /\ accepting' = FALSE
  /\ UNCHANGED <<routeVars, next, respFree, gate, callVars, outbound, replayVars, wire, server>>

\* ClearPendingSubscriptionMutations, once the tasks of the connection have ended.
ClearPending ==
  /\ link \in {"ending", "stopping"} /\ replay = "off"
  /\ link' = IF link = "ending" THEN "down" ELSE "stopped"
  /\ respFree' = respFree + Cardinality(pending)
  /\ pending' = {} /\ confirmed' = {}
  /\ wire' = <<>> /\ server' = {}
  /\ UNCHANGED <<accepting, desired, next, gate, callVars, outbound, replayVars>>

-----------------------------------------------------------------------------
(* ReplayConnectionStateAsync on a new connection.                         *)

Reconnects ==
  /\ link = "down" /\ link' = "replaying" /\ replay' = "gate"
  /\ UNCHANGED <<accepting, routeVars, next, respFree, gate, callVars, outbound, todo, wire, server>>

\* Mutant: queued commands survive the reconnection and are sent after the restoration.
ReplayEntersKeepingCommands ==
  /\ replay = "gate" /\ gate = "free"
  /\ gate' = "replay" /\ replay' = "restoring" /\ todo' = desired
  /\ UNCHANGED <<linkVars, routeVars, next, respFree, callVars, outbound, wire, server>>

\* The queued commands are dropped, and the desired routes are restored instead.
ReplayEnters ==
  /\ replay = "gate" /\ gate = "free"
  /\ gate' = "replay" /\ replay' = "restoring"
  /\ todo' = desired /\ outbound' = <<>>
  /\ UNCHANGED <<linkVars, routeVars, next, respFree, callVars, wire, server>>

\* A response slot, the registration of the mutation and the start of its send.
ReplaySends ==
  /\ replay = "restoring" /\ respFree > 0 /\ next < MaxMutations
  /\ \E r \in todo :
       LET m == [seq |-> next + 1, route |-> r, subscribe |-> TRUE] IN
       /\ todo' = todo \ {r}
       /\ pending' = pending \cup {m} /\ wire' = Append(wire, m)
  /\ next' = next + 1 /\ respFree' = respFree - 1
  /\ replay' = "sending"
  /\ UNCHANGED <<linkVars, desired, confirmed, gate, callVars, outbound, server>>

ReplaySent ==
  /\ replay = "sending" /\ replay' = "restoring"
  /\ UNCHANGED <<linkVars, routeVars, next, respFree, gate, callVars, outbound, todo, wire, server>>

\* A send fails or the token fires: a mutation that has not been answered is withdrawn.
ReplayFails ==
  /\ replay \in {"gate", "restoring", "sending"}
  /\ replay # "sending" => link # "replaying"
  /\ LET own == {m \in pending : replay = "sending" /\ m.seq = next} IN
     pending' = pending \ own /\ respFree' = respFree + Cardinality(own)
  /\ gate' = IF replay = "gate" THEN gate ELSE "free"
  /\ replay' = "off" /\ todo' = {}
  /\ link' = IF link = "replaying" THEN "ending" ELSE link
  /\ UNCHANGED <<accepting, desired, confirmed, next, callVars, outbound, wire, server>>

ReplayEnds ==
  /\ replay = "restoring" /\ todo = {}
  /\ gate' = "free" /\ replay' = "off"
  /\ link' = IF link = "replaying" THEN "online" ELSE link
  /\ UNCHANGED <<accepting, routeVars, next, respFree, callVars, outbound, todo, wire, server>>

-----------------------------------------------------------------------------
CallSteps == CallEnters \/ CallTakesResponseSlot \/ CallRechecks \/ CallRegisters \/ CallEnqueues
ReplaySteps == ReplayEnters \/ ReplaySends \/ ReplaySent \/ ReplayFails \/ ReplayEnds

Next ==
  \/ CallBegins \/ CallGivesUp \/ CallCancelled \/ CallSteps
  \/ SendLoopSends \/ ResponseArrives
  \/ ConnectionEnds \/ Stop \/ ClearPending \/ Reconnects \/ ReplaySteps

\* The calls and tasks run, and the gateway answers what it was sent.
Spec ==
  /\ Init /\ [][Next]_vars
  /\ SF_vars(CallSteps) /\ WF_vars(SendLoopSends) /\ WF_vars(ResponseArrives)
  /\ WF_vars(ClearPending) /\ WF_vars(Reconnects) /\ WF_vars(ReplaySteps)

-----------------------------------------------------------------------------

\* Every response slot is free, with the call that has not yet registered its command,
\* or with exactly one pending mutation: answers, cleared connections, failed sends and
\* refused commands never release one twice, nor lose one.  And when nothing is under way
\* the client, the gateway and the client's picture of the gateway agree, whatever was
\* rejected, rolled back, overtaken or restored before.
SettledAgreement ==
  /\ respFree + Cardinality(pending) + (IF caller.pc \in {"checking", "registering"} THEN 1 ELSE 0)
       = ResponseCapacity
  /\ (link = "online" /\ caller = Idle /\ pending = {} /\ outbound = <<>> /\ wire = <<>>)
       => desired = server /\ desired = confirmed

\* A mutation whose command will never be answered: a call registered it after its
\* connection had been cleared, and the restoration has dropped the command.
Orphaned(m) ==
  /\ m \notin {wire[i] : i \in DOMAIN wire} \cup {outbound[i] : i \in DOMAIN outbound}
  /\ caller.pc = "enqueueing" => m.seq # next

\* The only response slot is held by such a mutation, until the connection ends.
Starved == ResponseCapacity = 1 /\ respFree = 0 /\ \A m \in pending : Orphaned(m)

Excused == Starved \/ next = MaxMutations
Calling == caller # Idle

\* A call that changes a subscription returns, although it holds the gate while it waits
\* for a response slot that only an answer or the end of the connection gives back; and a
\* replay ends, although it waits for the gate that such a call holds (RealtimeClient.cs:317,
\* 840).  With a capacity of one a single orphaned mutation can keep both waiting; with two
\* or more no number of lost connections and late registrations does.
ChangesAndReplaysEnd ==
  /\ Calling ~> ~Calling \/ Excused
  /\ replay # "off" ~> replay = "off" \/ Excused
===============================================================================
