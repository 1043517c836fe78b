----------------------------- MODULE MCServices -----------------------------
(***************************************************************************)
(* One small instance of each of the parts that serve connections, streams *)
(* and requests beside the connection itself.  They share no state here,   *)
(* so a behaviour is one of the part that part names, and the others rest. *)
(***************************************************************************)
EXTENDS GatewayDrain, Sequences

CONSTANTS None, Clients, Tickets, Fallbacks, Messages, Foreign, Consumers, Routes, Bodies

VARIABLES
  part, slots,
  pc, expired, nodeDrain, nodeSock, upgradedSockets, latecomers,
  resp, up, captured, armed, heard, late, cut,
  link, accepting, desired, confirmed, mutations, next, respFree, gate, caller, rollback,
  outbound, replay, todo, wire, subscribed,
  sock, server,
  phase, aborted, body, consumed, buffer, seen, tries,
  pub, stream, trimmed, lastRead, pending, idle, acked, poison, cons, handed, faults

upgradeVars == <<pc, expired, nodeDrain, nodeSock, upgradedSockets, latecomers>>
ticketVars == <<resp, up, captured, armed, heard, late, cut>>
subscriptionVars == <<link, accepting, desired, confirmed, mutations, next, respFree, gate, caller,
                      rollback, outbound, replay, todo, wire, subscribed>>
transportVars == <<sock, server>>
streamVars == <<phase, aborted, body, consumed, buffer, seen, tries>>
durableVars == <<pub, stream, trimmed, lastRead, pending, idle, acked, poison, cons, handed, faults>>

Upgrade == INSTANCE NodeUpgrade WITH drain <- nodeDrain, sock <- nodeSock

Ticketing == INSTANCE NodeTickets

\* The client with one response slot, as in its tests, or two.
Subscriptions(k) == INSTANCE ClientSubscriptions WITH
  ResponseCapacity <- k, MaximumSubscriptions <- 2, MaxMutations <- 5,
  pending <- mutations, server <- subscribed

ASSUME \A k \in 1 .. 2 : Subscriptions(k)!SubscriptionsAssumption

Transport == INSTANCE TypeScriptTransport WITH
  TransportLists <- {<<"websocket", "http-streaming">>, <<"http-streaming", "websocket">>},
  MaxSends <- 3, MaxCloses <- 2

\* Two blocks, whole, with an inner line break, disconnecting, broken or a heartbeat, and
\* both kinds of line ends.
Blocks == {<<"1">>, <<"1", "n", "2">>, <<"d">>, <<"b">>, <<"h", "n", "1">>}
LineEnds == {<<"n", "n">>, <<"r", "n", "r", "n">>}
MCBodies == {b \o s \o c \o t : b \in Blocks, s \in LineEnds, c \in Blocks, t \in LineEnds}

Stream == INSTANCE DiagnosticsStream WITH
  Statuses <- {204, 399, 400, 408, 429, 499, 500}, MaxTries <- 2

Durable == INSTANCE DurableStreams WITH ReadCount <- 2, MaxLength <- 1, MaxFaults <- 1

MCInit ==
  /\ part \in {"drain", "upgrade", "tickets", "subscriptions", "transport", "stream", "durable"}
  /\ Init /\ Upgrade!Init /\ Ticketing!Init /\ Stream!Init /\ Durable!Init
  /\ Transport!Init
  /\ slots \in IF part = "subscriptions" THEN 1 .. 2 ELSE {2}
  /\ \E k \in {slots} : Subscriptions(k)!Init
  /\ part # "transport" => sock.ticket /\ sock.transports[1] = "websocket"

MCNext ==
  \/ /\ part = "drain" /\ Next
     /\ UNCHANGED <<part, slots, upgradeVars, ticketVars, subscriptionVars, transportVars,
                    streamVars, durableVars>>
  \/ /\ part = "upgrade" /\ Upgrade!Next
     /\ UNCHANGED <<part, slots, vars, ticketVars, subscriptionVars, transportVars,
                    streamVars, durableVars>>
  \/ /\ part = "tickets" /\ Ticketing!Next
     /\ UNCHANGED <<part, slots, vars, upgradeVars, subscriptionVars, transportVars,
                    streamVars, durableVars>>
  \/ /\ part = "subscriptions" /\ \E k \in {slots} : Subscriptions(k)!Next
     /\ UNCHANGED <<part, slots, vars, upgradeVars, ticketVars, transportVars,
                    streamVars, durableVars>>
  \/ /\ part = "transport" /\ Transport!Next
     /\ UNCHANGED <<part, slots, vars, upgradeVars, ticketVars, subscriptionVars,
                    streamVars, durableVars>>
  \/ /\ part = "stream" /\ Stream!Next
     /\ UNCHANGED <<part, slots, vars, upgradeVars, ticketVars, subscriptionVars, transportVars,
                    durableVars>>
  \/ /\ part = "durable" /\ Durable!Next
     /\ UNCHANGED <<part, slots, vars, upgradeVars, ticketVars, subscriptionVars, transportVars,
                    streamVars>>

MCvars == <<part, slots, vars, upgradeVars, ticketVars, subscriptionVars, transportVars,
            streamVars, durableVars>>

\* The fairness of each part, which only binds in the behaviours of that part.
MCSpec ==
  /\ MCInit /\ [][MCNext]_MCvars
  /\ WF_vars(part = "drain" /\ Draining) /\ WF_vars(part = "drain" /\ ShutdownTimeout)
  /\ \A c \in Connections :
       /\ WF_vars(part = "drain" /\ (AddRecheck(c) \/ Refuse(c)))
       /\ WF_vars(part = "drain" /\ socket[c] = "gone" /\ HandlerEnds(c))
       /\ WF_vars(part = "drain" /\ Dispose(c))
       /\ WF_vars(part = "drain" /\ (SendEnds(c) \/ CloseSent(c)))
  /\ WF_upgradeVars(part = "upgrade" /\ Upgrade!ForceExit)
  /\ WF_upgradeVars(part = "upgrade" /\ Upgrade!StartupFailed)
  /\ WF_upgradeVars(part = "upgrade" /\ Upgrade!ProcessEnds)
  /\ \A c \in Clients : WF_upgradeVars(part = "upgrade" /\ Upgrade!GatewayClosed(c))
  /\ \A t \in Tickets : WF_ticketVars(part = "tickets" /\ Ticketing!Deadline(t))
  /\ \A r \in Tickets \cup Fallbacks : WF_ticketVars(part = "tickets" /\ Ticketing!Finish(r))
  /\ SF_subscriptionVars(part = "subscriptions" /\ \E k \in {slots} : Subscriptions(k)!CallSteps)
  /\ WF_subscriptionVars(part = "subscriptions" /\ \E k \in {slots} : Subscriptions(k)!SendLoopSends)
  /\ WF_subscriptionVars(part = "subscriptions" /\ \E k \in {slots} : Subscriptions(k)!ResponseArrives)
  /\ WF_subscriptionVars(part = "subscriptions" /\ \E k \in {slots} : Subscriptions(k)!ClearPending)
  /\ WF_subscriptionVars(part = "subscriptions" /\ \E k \in {slots} : Subscriptions(k)!Reconnects)
  /\ WF_subscriptionVars(part = "subscriptions" /\ \E k \in {slots} : Subscriptions(k)!ReplaySteps)
  /\ WF_transportVars(part = "transport" /\ Transport!LocalStep)
  /\ WF_transportVars(part = "transport" /\ Transport!WebSocketStep)
  /\ WF_transportVars(part = "transport" /\ (Transport!ConnectFails \/ Transport!ConnectAnswered))
  /\ \A c \in Consumers : WF_durableVars(part = "durable" /\ Durable!Works(c))
  /\ \A e \in Messages \cup Foreign : WF_durableVars(part = "durable" /\ Durable!BecomesIdle(e))

-----------------------------------------------------------------------------
\* Until the drain's deadline empties it, upgradedSockets holds exactly the
\* connections with a live socket on either side (upgrade.mjs:26; NodeUpgrade).
RecordMirrorsSockets == Upgrade!RecordMirrorsSockets

\* A Node process that was told to stop ends, unless a connection that came
\* after the drain keeps it (lifecycle.mjs:81-90; NodeUpgrade).
StopEndsUnlessLate == Upgrade!StopEndsUnlessLate

\* A ticket's deadline destroys only the ticket's own upstream request
\* (app.mjs:228; NodeTickets).
DeadlineCutsItsOwn == Ticketing!DeadlineCutsItsOwn

\* Every ticket request ends and releases its timer and its listener on the
\* shared proxy (app.mjs:224; NodeTickets).
TicketReleases == Ticketing!TicketReleases

\* Every response slot is accounted for, and a settled client, its gateway and
\* its picture of the gateway agree (RealtimeClient.cs, the subscription gate
\* and its response slots; ClientSubscriptions).
SettledAgreement == \A k \in {slots} : Subscriptions(k)!SettledAgreement

\* A call that changes a subscription returns and a replay ends, although they
\* wait for one gate and for response slots, unless the only slot there is went
\* to a command nobody will answer (RealtimeClient.cs:317, 840;
\* ClientSubscriptions).
ChangesAndReplaysEnd ==
  LET Calling == \E k \in {slots} : Subscriptions(k)!Calling
      Excused == \E k \in {slots} : Subscriptions(k)!Excused
  IN /\ Calling ~> ~Calling \/ Excused
     /\ replay # "off" ~> replay = "off" \/ Excused

\* The fallback socket opens and closes once for client.ts, stays closed, and
\* delivers a prefix of what it was given (transport.ts:201-282;
\* TypeScriptTransport).
SocketContract == Transport!SocketContract

\* The fallback socket does not stay connecting, and one that was closed reports
\* it (transport.ts:97-157; TypeScriptTransport).  The socket of a resting part
\* never starts.
SocketSettles == (part = "transport" /\ Transport!Unsettled) ~> ~Transport!Unsettled

\* However a body is cut into chunks, its events are delivered once each, in
\* order, none after a disconnect (diagnostics.ts:241-258; DiagnosticsStream).
ChunkingIrrelevant == Stream!ChunkingIrrelevant

\* A durable message that was acknowledged is in the stream, and leaves the
\* group's books only handled or quarantined (RedisMessaging.cs:263;
\* DurableStreams).
NothingIsLost == Durable!NothingIsLost

\* Every entry of the stream is settled in the end, whichever consumer died
\* (RedisMessaging.cs:166; DurableStreams).
EntriesSettle == Durable!EntriesSettle

=============================================================================
