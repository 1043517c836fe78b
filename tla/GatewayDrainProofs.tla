-------------------------- MODULE GatewayDrainProofs --------------------------
(***************************************************************************)
(* Proofs about GatewayDrain for any finite set of connections.            *)
(***************************************************************************)
EXTENDS GatewayDrain, FiniteSetTheorems, TLAPS

\* The connections the metrics count.
Serving == {c \in Connections : handler[c] = "serving"}

\* The types of the variables, without the bound on the count of connections.
Types ==
  /\ handler \in [Connections -> HandlerStates]
  /\ connections \subseteq Connections
  /\ registryDraining \in BOOLEAN /\ stateDraining \in BOOLEAN
  /\ socket \in [Connections -> {"none", "open", "closed", "gone"}]
  /\ closeRequested \in [Connections -> BOOLEAN]
  /\ sendLock \in [Connections -> {"free", "sender", "drain"}]
  /\ lockDisposed \in [Connections -> BOOLEAN]
  /\ drain \in {"running", "marking", "marked", "delaying", "closing", "completed", "faulted"}
  /\ offered \subseteq Connections /\ toClose \subseteq Connections
  /\ current \in {{}} \cup {{c} : c \in Connections}
  /\ withToken \in BOOLEAN /\ shutdownExpired \in BOOLEAN

\* What makes the two guarantees of the drain inductive: the dictionary holds exactly
\* the connections between insertion and teardown, a drain that has left its first
\* step shows in the registry's flag, only the closing loop awaits a connection, and it
\* still has ahead of it every served connection whose close has not been requested.
DrainInv ==
  /\ \A c \in Connections : c \in connections <=> handler[c] \in {"added", "serving"}
  /\ drain # "running" => registryDraining
  /\ current # {} => drain = "closing"
  /\ drain \in {"delaying", "closing", "completed", "faulted"} => Serving \subseteq offered
  /\ drain = "closing" => \A c \in Serving : closeRequested[c] \/ c \in toClose
  /\ drain = "completed" => \A c \in Serving : closeRequested[c]

\* The metric counts exactly the connections whose handler serves them.
CountInv == active = Cardinality(Serving)

-----------------------------------------------------------------------------
\* A gateway that has just started has values of the declared types.
LEMMA TypesInit == Init => Types
  BY DEF Init, Types, HandlerStates

\* The shape of every action's effect on the function-valued variables.
LEMMA GotoType ==
  ASSUME Types, NEW c \in Connections, NEW pc \in HandlerStates, Goto(c, pc)
  PROVE  handler' \in [Connections -> HandlerStates]
  BY DEF Types, Goto

\* A released send lock is free or with the other of its users.
LEMMA ReleasedType ==
  ASSUME Types, NEW c \in Connections
  PROVE  Released(c) \in [Connections -> {"free", "sender", "drain"}]
  BY DEF Types, Released

\* No step of a handler or of the drain leaves the types.
LEMMA TypesStep == Types /\ [Next]_vars => Types'
<1> SUFFICES ASSUME Types, [Next]_vars PROVE Types'
  OBVIOUS
<1> USE DEF flagVars, connVars, drainVars
<1>1. CASE UNCHANGED vars
  BY <1>1 DEF vars, Types
<1>2. ASSUME NEW c \in Connections,
             Arrive(c) \/ AddCheck(c) \/ AddInsert(c) \/ AddRecheck(c)
      PROVE  Types'
  BY <1>2 DEF Arrive, AddCheck, AddInsert, AddRecheck, Types, Goto, HandlerStates
<1>3. ASSUME NEW c \in Connections, Authenticate(c) \/ Refuse(c) \/ ClientLeaves(c) \/ Dispose(c)
      PROVE  Types'
  BY <1>3 DEF Authenticate, Refuse, ClientLeaves, Dispose, Types, Goto, HandlerStates
<1>4. ASSUME NEW c \in Connections, SendBegins(c) \/ SendEnds(c) \/ HandlerEnds(c)
      PROVE  Types'
  <2>1. CASE SendBegins(c)
    BY <2>1 DEF SendBegins, Types
  <2>2. CASE SendEnds(c)
    BY <2>2, ReleasedType DEF SendEnds, Types
  <2>3. CASE HandlerEnds(c)
    <3>1. sendLock' \in [Connections -> {"free", "sender", "drain"}]
      BY <2>3, ReleasedType DEF HandlerEnds, Types
    <3>2. handler' \in [Connections -> HandlerStates]
      BY <2>3, GotoType DEF HandlerEnds, HandlerStates
    <3> QED
      BY <2>3, <3>1, <3>2 DEF HandlerEnds, Types
  <2> QED
    BY <1>4, <2>1, <2>2, <2>3
<1>5. ASSUME NEW c \in Connections, CloseNext(c) PROVE Types'
  BY <1>5 DEF CloseNext, Types
<1>6. ASSUME NEW c \in Connections, CloseSent(c) PROVE Types'
  BY <1>6, ReleasedType DEF CloseSent, Types
<1>7. ASSUME NEW c \in Connections, CloseCancelled(c) PROVE Types'
  BY <1>7, ReleasedType DEF CloseCancelled, CloseAll, Types
<1>8. CASE BeginDrainRegistry \/ BeginDrainState \/ NotifyServiceRestart \/ ShutdownTimeout
  BY <1>8 DEF BeginDrainRegistry, BeginDrainState, NotifyServiceRestart, ShutdownTimeout, Types
<1>9. CASE DelayEnds \/ DrainCompletes
  BY <1>9 DEF DelayEnds, DrainCompletes, CloseAll, Types
<1> QED
  BY <1>1, <1>2, <1>3, <1>4, <1>5, <1>6, <1>7, <1>8, <1>9 DEF Next, Draining

-----------------------------------------------------------------------------
\* Before the drain there is nobody to notify or to close.
LEMMA DrainInvInit == Init => DrainInv
  BY DEF Init, DrainInv, Serving

\* Every step keeps the drain ahead of the connections: one that registers in the meantime
\* sees the drain, or is still ahead of it.
LEMMA DrainInvStep == Types /\ DrainInv /\ [Next]_vars => DrainInv'
<1> SUFFICES ASSUME Types, DrainInv, [Next]_vars PROVE DrainInv'
  OBVIOUS
<1> USE DEF flagVars, connVars, drainVars, Serving
<1>1. CASE UNCHANGED vars
  BY <1>1 DEF vars, DrainInv
<1>2. ASSUME NEW c \in Connections, Arrive(c) \/ AddCheck(c) PROVE DrainInv'
  BY <1>2 DEF Arrive, AddCheck, Types, DrainInv, Goto
<1>3. ASSUME NEW c \in Connections, AddInsert(c) PROVE DrainInv'
  BY <1>3 DEF AddInsert, Types, DrainInv, Goto
<1>4. ASSUME NEW c \in Connections, AddRecheck(c) PROVE DrainInv'
  BY <1>4 DEF AddRecheck, Types, DrainInv, Goto
<1>5. ASSUME NEW c \in Connections, Authenticate(c) \/ Refuse(c) \/ Dispose(c) PROVE DrainInv'
  BY <1>5 DEF Authenticate, Refuse, Dispose, Types, DrainInv, Goto
<1>6. ASSUME NEW c \in Connections, ClientLeaves(c) \/ SendBegins(c) \/ SendEnds(c) PROVE DrainInv'
  BY <1>6 DEF ClientLeaves, SendBegins, SendEnds, DrainInv
<1>7. ASSUME NEW c \in Connections, HandlerEnds(c) PROVE DrainInv'
  BY <1>7 DEF HandlerEnds, Types, DrainInv, Goto
<1>8. ASSUME NEW c \in Connections, CloseNext(c) PROVE DrainInv'
  BY <1>8 DEF CloseNext, Types, DrainInv
<1>9. ASSUME NEW c \in Connections, CloseSent(c) PROVE DrainInv'
  <2>1. drain = "closing" /\ current' = {}
    BY <1>9 DEF CloseSent, DrainInv
  <2>2. CASE lockDisposed[c]
    BY <1>9, <2>1, <2>2 DEF CloseSent, DrainInv
  <2>3. CASE ~lockDisposed[c]
    BY <1>9, <2>1, <2>3 DEF CloseSent, DrainInv
  <2> QED
    BY <2>2, <2>3
<1>10. ASSUME NEW c \in Connections, CloseCancelled(c) PROVE DrainInv'
  <2>1. drain = "closing" /\ current' = {}
    BY <1>10 DEF CloseCancelled, CloseAll, DrainInv
  <2>2. Serving' = Serving /\ connections' = connections /\ Serving \subseteq connections
    BY <1>10 DEF CloseCancelled, DrainInv
  <2>3. CASE drain' = "faulted"
    BY <1>10, <2>1, <2>2, <2>3 DEF CloseCancelled, DrainInv
  <2>4. CASE drain' = "closing" /\ toClose' = connections
    BY <1>10, <2>1, <2>2, <2>4 DEF CloseCancelled, DrainInv
  <2> QED
    BY <1>10, <2>3, <2>4 DEF CloseCancelled, CloseAll
<1>11. CASE BeginDrainRegistry \/ BeginDrainState \/ ShutdownTimeout
  BY <1>11 DEF BeginDrainRegistry, BeginDrainState, ShutdownTimeout, DrainInv
<1>12. CASE NotifyServiceRestart
  BY <1>12 DEF NotifyServiceRestart, Types, DrainInv
<1>13. CASE DelayEnds
  BY <1>13 DEF DelayEnds, CloseAll, Types, DrainInv
<1>14. CASE DrainCompletes
  BY <1>14 DEF DrainCompletes, DrainInv
<1> QED
  BY <1>1, <1>2, <1>3, <1>4, <1>5, <1>6, <1>7, <1>8, <1>9, <1>10, <1>11, <1>12, <1>13, <1>14
     DEF Next, Draining

-----------------------------------------------------------------------------
\* The connections being served are finitely many.
LEMMA ServingFinite == IsFiniteSet(Serving) /\ Cardinality(Serving) \in 0..Cardinality(Connections)
<1>1. Serving \subseteq Connections
  BY DEF Serving
<1>2. IsFiniteSet(Serving) /\ Cardinality(Serving) <= Cardinality(Connections)
  BY <1>1, ConnectionsAssumption, FS_Subset
<1>3. Cardinality(Serving) \in Nat /\ Cardinality(Connections) \in Nat
  BY <1>2, ConnectionsAssumption, FS_CardinalityType
<1> QED
  BY <1>2, <1>3

\* A gateway that has just started serves nobody.
LEMMA CountInvInit == Init => CountInv
<1> SUFFICES ASSUME Init PROVE CountInv
  OBVIOUS
<1>1. Serving = {}
  BY DEF Init, Serving
<1> QED
  BY <1>1, FS_EmptySet DEF Init, CountInv

\* The count changes with the registration and the removal of a connection, by one.
LEMMA CountInvStep == Types /\ CountInv /\ [Next]_vars => CountInv'
<1> SUFFICES ASSUME Types, CountInv, [Next]_vars PROVE CountInv'
  OBVIOUS
<1> USE DEF flagVars, connVars, drainVars
<1>1. ASSUME Serving' = Serving, active' = active PROVE CountInv'
  BY <1>1 DEF CountInv
<1>2. CASE UNCHANGED <<handler, active>>
  <2>1. Serving' = Serving
    BY <1>2 DEF Serving
  <2> QED
    BY <2>1, <1>1, <1>2
<1>3. ASSUME NEW c \in Connections, NEW pc \in HandlerStates \ {"serving"},
             handler[c] # "serving", Goto(c, pc), active' = active
      PROVE  CountInv'
  <2>1. Serving' = Serving
    BY <1>3 DEF Serving, Goto, Types
  <2> QED
    BY <2>1, <1>1, <1>3
<1>4. ASSUME NEW c \in Connections, handler[c] = "added", Goto(c, "serving"), active' = active + 1
      PROVE  CountInv'
  <2>1. Serving' = Serving \cup {c} /\ c \notin Serving
    BY <1>4 DEF Serving, Goto, Types
  <2>2. Cardinality(Serving') = Cardinality(Serving) + 1
    BY <2>1, ServingFinite, FS_AddElement
  <2> QED
    BY <2>2, <1>4 DEF CountInv
<1>5. ASSUME NEW c \in Connections, HandlerEnds(c) PROVE CountInv'
  <2>1. Serving' = Serving \ {c} /\ c \in Serving
    BY <1>5 DEF Serving, HandlerEnds, Goto, Types
  <2>2. Cardinality(Serving') = Cardinality(Serving) - 1
    BY <2>1, ServingFinite, FS_RemoveElement
  <2> QED
    BY <2>2, <1>5 DEF CountInv, HandlerEnds
<1>6. ASSUME NEW c \in Connections, Arrive(c) \/ Authenticate(c) \/ AddCheck(c) \/ AddInsert(c)
                                    \/ Refuse(c) \/ Dispose(c)
      PROVE  CountInv'
  BY <1>6, <1>3 DEF Arrive, Authenticate, AddCheck, AddInsert, Refuse, Dispose, HandlerStates
<1>7. ASSUME NEW c \in Connections, AddRecheck(c) PROVE CountInv'
  BY <1>7, <1>3, <1>4 DEF AddRecheck, HandlerStates
<1>8. ASSUME NEW c \in Connections, SendBegins(c) \/ SendEnds(c) \/ ClientLeaves(c)
                                    \/ CloseNext(c) \/ CloseSent(c) \/ CloseCancelled(c)
      PROVE  CountInv'
  BY <1>8, <1>2 DEF SendBegins, SendEnds, ClientLeaves, CloseNext, CloseSent, CloseCancelled
<1>9. CASE BeginDrainRegistry \/ BeginDrainState \/ NotifyServiceRestart \/ ShutdownTimeout
           \/ DelayEnds \/ DrainCompletes
  BY <1>9, <1>2 DEF BeginDrainRegistry, BeginDrainState, NotifyServiceRestart, ShutdownTimeout,
                    DelayEnds, DrainCompletes
<1>10. CASE UNCHANGED vars
  BY <1>10, <1>2 DEF vars
<1> QED
  BY <1>5, <1>6, <1>7, <1>8, <1>9, <1>10 DEF Next, Draining

-----------------------------------------------------------------------------
\* The three invariants hold in every state of the specification.
THEOREM DrainInvariant == Spec => [](Types /\ DrainInv /\ CountInv)
<1>1. Init => Types /\ DrainInv /\ CountInv
  BY TypesInit, DrainInvInit, CountInvInit
<1>2. Types /\ DrainInv /\ CountInv /\ [Next]_vars => (Types /\ DrainInv /\ CountInv)'
  BY TypesStep, DrainInvStep, CountInvStep
<1> QED
  BY <1>1, <1>2, PTL DEF Spec, StalledSpec

\* The variables keep their types, and the count of open connections its bounds.
THEOREM DrainTypeCorrect == Spec => []TypeOK
<1>1. Types /\ CountInv => TypeOK
  <2> SUFFICES ASSUME Types, CountInv PROVE TypeOK
    OBVIOUS
  <2>1. active \in 0..Cardinality(Connections)
    BY ServingFinite DEF CountInv
  <2>2. current \subseteq Connections /\ Cardinality(current) <= 1
    <3>1. CASE current = {}
      BY <3>1, FS_EmptySet
    <3>2. ASSUME NEW c \in Connections, current = {c}
          PROVE  current \subseteq Connections /\ Cardinality(current) <= 1
      <4>1. Cardinality({c}) = 1
        BY FS_Singleton
      <4> QED
        BY <3>2, <4>1
    <3> QED
      BY <3>1, <3>2 DEF Types
  <2> QED
    BY <2>1, <2>2 DEF Types, TypeOK
<1> QED
  BY <1>1, DrainInvariant, PTL

\* Whoever is still served after the restart notice was offered it (Add's two looks
\* at the drain, NotifyServiceRestartAsync).
THEOREM NoticeComplete == Spec => []NoticeMissesNobody
<1>1. DrainInv => NoticeMissesNobody
  BY DEF DrainInv, NoticeMissesNobody, Serving
<1> QED
  BY <1>1, DrainInvariant, PTL

\* A completed drain has requested the close of whoever is still served (StoppingAsync
\* with its second round of CloseAllAsync).
THEOREM CompletedDrainComplete == Spec => []CompletedDrainAskedAll
<1>1. DrainInv => CompletedDrainAskedAll
  BY DEF DrainInv, CompletedDrainAskedAll, Serving
<1> QED
  BY <1>1, DrainInvariant, PTL

\* The open-connections metric equals what the registry holds beyond pending insertions.
THEOREM ActiveExact == Spec => []ActiveMatchesRegistry
<1>1. Types /\ DrainInv /\ CountInv => ActiveMatchesRegistry
  <2> SUFFICES ASSUME Types, DrainInv, CountInv PROVE ActiveMatchesRegistry
    OBVIOUS
  <2>1. Serving = {c \in connections : handler[c] # "added"}
    BY DEF Types, DrainInv, Serving
  <2> QED
    BY <2>1 DEF CountInv, ActiveMatchesRegistry
<1> QED
  BY <1>1, DrainInvariant, PTL
===============================================================================
