-------------------------- MODULE NodeUpgradeProofs --------------------------
(***************************************************************************)
(* The record of upgraded connections of the Node example (upgrade.mjs) is *)
(* exact for any set of browsers.                                          *)
(***************************************************************************)
EXTENDS NodeUpgrade, TLAPS

\* Nothing stands behind a browser that has not asked for an upgrade; a request
\* waits only behind a recorded browser socket that is not closed yet.
UpgradeInv ==
  \A c \in Clients : LET r == sock[c] IN
    /\ r.browser \in {"none", "accepted"} =>
         r.gateway = "none" /\ r.request = "none" /\ c \notin upgradedSockets
    /\ r.request = "pending" => r.gateway = "none" /\ r.browser \in {"open", "destroyed"}
    /\ r.request = "pending" => expired \/ c \in upgradedSockets

Sockets == [browser : {"none", "accepted", "open", "destroyed", "closed"},
            gateway : {"none", "open", "destroyed", "closed"},
            request : {"none", "pending", "over"}]

IInv == TypeOK /\ UpgradeInv /\ RecordMirrorsSockets

\* Starting, stopping and the timers leave the sockets alone.
LEMMA ProcessKeepsInv ==
  ASSUME IInv,
         RedisConnected \/ StartupFailed \/ Listening \/ Stop \/ DrainPoll \/ ServerClosed
           \/ RedisQuit \/ ProcessEnds \/ ForceExit \/ UNCHANGED vars
  PROVE  IInv'
  BY DEF IInv, TypeOK, UpgradeInv, RecordMirrorsSockets, RedisConnected, StartupFailed, Listening,
         Stop, DrainPoll, ServerClosed, RedisQuit, ProcessEnds, ForceExit, vars

\* What the "close" event of the browser's socket makes of the connection's state.
AfterClose(s) == [s EXCEPT !.browser = "closed",
                           !.request = IF @ = "pending" THEN "over" ELSE @]

\* The close leaves no request waiting and the gateway's side as it was.
LEMMA ClosedBrowser ==
  ASSUME NEW s \in Sockets
  PROVE  /\ AfterClose(s) \in Sockets /\ AfterClose(s).browser = "closed"
         /\ AfterClose(s).request # "pending" /\ AfterClose(s).gateway = s.gateway
<1>1. CASE s.request = "pending"
  BY <1>1 DEF Sockets, AfterClose
<1>2. CASE s.request # "pending"
  BY <1>2 DEF Sockets, AfterClose
<1> QED
  BY <1>1, <1>2

\* Every event of a connection keeps the record exact.
LEMMA ConnectionKeepsInv ==
  ASSUME IInv, NEW c \in Clients,
         \/ Accept(c) \/ Upgrade(c) \/ HandshakeFinished(c) \/ HandshakeTimedOut(c)
         \/ SocketEnds(c) \/ BrowserClosed(c) \/ GatewayClosed(c)
  PROVE  IInv'
<1> USE DEF IInv, TypeOK, UpgradeInv, RecordMirrorsSockets, Arrives
<1>1. CASE Accept(c)
  BY <1>1 DEF Accept
<1>2. CASE Upgrade(c)
  BY <1>2 DEF Upgrade
<1>3. CASE HandshakeFinished(c)
  <2>1. PICK r \in {[sock[c] EXCEPT !.request = "over", !.gateway = "open"],
                    [sock[c] EXCEPT !.request = "over"],
                    [sock[c] EXCEPT !.request = "over", !.browser = Destroyed(@)]} :
          sock' = [sock EXCEPT ![c] = r]
    BY <1>3 DEF HandshakeFinished
  <2>2. /\ r \in Sockets /\ r.request = "over"
        /\ r.browser \in {"open", "destroyed"}
        /\ r.gateway \in {"none", "open"}
    BY <1>3, <2>1 DEF HandshakeFinished, Destroyed, Sockets
  <2> QED
    BY <1>3, <2>1, <2>2 DEF HandshakeFinished, Sockets
<1>4. CASE HandshakeTimedOut(c)
  <2> DEFINE r == [sock[c] EXCEPT !.request = "over", !.browser = Destroyed(@)]
  <2>1. sock' = [sock EXCEPT ![c] = r]
    BY <1>4 DEF HandshakeTimedOut
  <2>2. sock[c].request = "pending" /\ sock[c].browser \in {"open", "destroyed"}
    BY <1>4 DEF HandshakeTimedOut
  <2>3. r \in Sockets /\ r.browser = "destroyed" /\ r.request = "over"
        /\ r.gateway = sock[c].gateway
    BY <2>2 DEF Sockets, Destroyed
  <2> HIDE DEF r
  <2>4. /\ pc' = pc /\ drain' = drain /\ expired' = expired
        /\ upgradedSockets' = upgradedSockets /\ latecomers' = latecomers
    BY <1>4 DEF HandshakeTimedOut
  <2>5. TypeOK'
    BY <2>1, <2>3, <2>4 DEF Sockets
  <2>6. UpgradeInv'
    BY <2>1, <2>3, <2>4
  <2>7. RecordMirrorsSockets'
    BY <2>1, <2>2, <2>3, <2>4
  <2> QED
    BY <2>5, <2>6, <2>7
<1>5. CASE SocketEnds(c)
  BY <1>5 DEF SocketEnds
<1>6. CASE BrowserClosed(c)
  <2> DEFINE r == AfterClose(sock[c])
  <2>1. sock' = [sock EXCEPT ![c] = r] /\ upgradedSockets' = Forget(c, r)
    BY <1>6 DEF BrowserClosed, AfterClose
  <2>2. r \in Sockets /\ r.browser = "closed" /\ r.request # "pending"
        /\ r.gateway = sock[c].gateway
    <3>1. sock[c] \in Sockets
      BY DEF Sockets
    <3> QED
      BY <3>1, ClosedBrowser, Zenon
  <2> HIDE DEF r
  <2>3. /\ pc' = pc /\ drain' = drain /\ expired' = expired /\ latecomers' = latecomers
        /\ sock[c].browser = "destroyed"
    BY <1>6 DEF BrowserClosed
  <2>4. upgradedSockets' = IF sock[c].gateway \in {"none", "closed"}
                           THEN upgradedSockets \ {c} ELSE upgradedSockets
    BY <2>1, <2>2 DEF Forget, browserClosed, gatewayClosed
  <2>5. TypeOK'
    BY <2>1, <2>2, <2>3, <2>4 DEF Sockets
  <2>6. UpgradeInv'
    BY <2>1, <2>2, <2>3, <2>4
  <2>7. RecordMirrorsSockets'
    BY <2>1, <2>2, <2>3, <2>4
  <2> QED
    BY <2>5, <2>6, <2>7
<1>7. CASE GatewayClosed(c)
  BY <1>7 DEF GatewayClosed, Forget, browserClosed, gatewayClosed
<1> QED
  BY <1>1, <1>2, <1>3, <1>4, <1>5, <1>6, <1>7

\* The drain's deadline gives up the record, and keeps the types.
LEMMA DeadlineKeepsInv ==
  ASSUME IInv, DrainDeadline
  PROVE  IInv'
<1> USE DEF IInv, TypeOK, UpgradeInv, RecordMirrorsSockets
<1> DEFINE cutOff(c) == [sock[c] EXCEPT !.browser = Destroyed(@), !.gateway = Destroyed(@)]
<1>1. sock' = [c \in Clients |-> IF c \in upgradedSockets THEN cutOff(c) ELSE sock[c]]
  BY DEF DrainDeadline
<1>2. ASSUME NEW c \in Clients
      PROVE  /\ cutOff(c) \in Sockets /\ cutOff(c).request = sock[c].request
             /\ sock[c].browser \in {"open", "destroyed"} => cutOff(c).browser = "destroyed"
             /\ sock[c].browser = "closed" => cutOff(c).browser = "closed"
             /\ sock[c].gateway = "none" => cutOff(c).gateway = "none"
  BY DEF Destroyed, Sockets
<1> HIDE DEF cutOff
<1>3. sock' \in [Clients -> Sockets]
  BY <1>1, <1>2 DEF Sockets
<1>4. /\ expired' = TRUE /\ drain' = "done" /\ pc' = pc /\ upgradedSockets' = {}
      /\ latecomers' = latecomers
  BY DEF DrainDeadline
<1>5. TypeOK'
  BY <1>3, <1>4 DEF Sockets
<1>6. UpgradeInv'
  <2> SUFFICES ASSUME NEW c \in Clients
               PROVE  LET r == sock'[c] IN
                        /\ r.browser \in {"none", "accepted"} =>
                             r.gateway = "none" /\ r.request = "none"
                        /\ r.request = "pending" =>
                             r.gateway = "none" /\ r.browser \in {"open", "destroyed"}
    BY <1>4
  <2>1. CASE c \in upgradedSockets
    BY <2>1, <1>1, <1>2 DEF Sockets
  <2>2. CASE c \notin upgradedSockets
    BY <2>2, <1>1
  <2> QED
    BY <2>1, <2>2
<1> QED
  BY <1>4, <1>5, <1>6

\* The record is exact before anybody came.
LEMMA InitIInv == Init => IInv
<1> HAVE Init
<1>1. Absent \in Sockets /\ Absent.browser = "none" /\ Absent.gateway = "none"
      /\ Absent.request = "none"
  BY DEF Absent, Sockets
<1> QED
  BY <1>1 DEF Init, IInv, TypeOK, UpgradeInv, RecordMirrorsSockets, Sockets

\* Every step of the process keeps the record exact.
LEMMA StepIInv == IInv /\ [Next]_vars => IInv'
  BY ProcessKeepsInv, ConnectionKeepsInv, DeadlineKeepsInv DEF Next

\* upgradedSockets (upgrade.mjs:11-60) records exactly the connections with a live side, until
\* the drain's deadline, for any set of browsers and any order of answers and close events.
THEOREM RecordExact == Spec => []RecordMirrorsSockets
<1>1. IInv => RecordMirrorsSockets
  BY DEF IInv
<1> QED
  BY <1>1, InitIInv, StepIInv, PTL DEF Spec

DrainInv ==
  /\ OnlyLateOutlivesDrain
  /\ expired => drain = "done"
  /\ pc \in {"connecting", "binding", "serving"} => drain = "none"

\* The drain of lifecycle.mjs:52-73 leaves no gateway socket open that was there while it
\* ran, for any set of browsers: whatever outlives it was upgraded or answered later.
THEOREM DrainComplete == Spec => []OnlyLateOutlivesDrain
<1>1. Init => IInv /\ DrainInv
  BY InitIInv DEF Init, DrainInv, OnlyLateOutlivesDrain
<1>2. IInv /\ DrainInv /\ [Next]_vars => IInv' /\ DrainInv'
  <2> SUFFICES ASSUME IInv, DrainInv, [Next]_vars PROVE DrainInv'
    BY StepIInv
  <2> USE DEF DrainInv, OnlyLateOutlivesDrain
  <2>1. CASE RedisConnected \/ StartupFailed \/ Listening \/ ServerClosed \/ RedisQuit
               \/ ProcessEnds \/ ForceExit \/ UNCHANGED vars
    BY <2>1 DEF RedisConnected, StartupFailed, Listening, ServerClosed, RedisQuit, ProcessEnds,
                ForceExit, vars
  <2>2. CASE Stop \/ DrainPoll
    BY <2>2 DEF Stop, DrainPoll, IInv, TypeOK, RecordMirrorsSockets
  <2>3. CASE DrainDeadline
    <3> SUFFICES ASSUME NEW c \in Clients PROVE sock'[c].gateway # "open"
      BY <2>3 DEF DrainDeadline
    <3>1. CASE c \in upgradedSockets
      BY <2>3, <3>1 DEF DrainDeadline, Destroyed, IInv, TypeOK
    <3>2. CASE c \notin upgradedSockets
      BY <2>3, <3>2 DEF DrainDeadline, IInv, TypeOK, RecordMirrorsSockets
    <3> QED
      BY <3>1, <3>2
  <2>4. ASSUME NEW c \in Clients,
               \/ Accept(c) \/ Upgrade(c) \/ HandshakeFinished(c) \/ HandshakeTimedOut(c)
               \/ SocketEnds(c) \/ BrowserClosed(c) \/ GatewayClosed(c)
        PROVE  DrainInv'
    <3> USE DEF IInv, TypeOK, Arrives
    <3>1. CASE Accept(c) \/ Upgrade(c)
      BY <3>1 DEF Accept, Upgrade
    <3>2. CASE HandshakeFinished(c)
      BY <3>2 DEF HandshakeFinished
    <3>3. CASE HandshakeTimedOut(c) \/ SocketEnds(c)
      BY <3>3 DEF HandshakeTimedOut, SocketEnds
    <3>4. CASE GatewayClosed(c)
      BY <3>4 DEF GatewayClosed
    <3>5. CASE BrowserClosed(c)
      <4> DEFINE r == [sock[c] EXCEPT !.browser = "closed",
                                      !.request = IF @ = "pending" THEN "over" ELSE @]
      <4>1. sock' = [sock EXCEPT ![c] = r]
        BY <3>5 DEF BrowserClosed
      <4>2. r.gateway = sock[c].gateway
        OBVIOUS
      <4> HIDE DEF r
      <4> QED
        BY <3>5, <4>1, <4>2 DEF BrowserClosed
    <3> QED
      BY <2>4, <3>1, <3>2, <3>3, <3>4, <3>5
  <2> QED
    BY <2>1, <2>2, <2>3, <2>4 DEF Next
<1>3. DrainInv => OnlyLateOutlivesDrain
  BY DEF DrainInv
<1> QED
  BY <1>1, <1>2, <1>3, PTL DEF Spec

=============================================================================
