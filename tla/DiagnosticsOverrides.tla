------------------------ MODULE DiagnosticsOverrides ------------------------
(***************************************************************************)
(* Temporary log-level overrides on several gateway replicas               *)
(* (DiagnosticsCoordination.cs, DiagnosticsRuntime.cs).  Each replica has  *)
(* a RuntimeLogLevelController with its local overrides; replica-wide      *)
(* overrides are also reserved and stored in Redis, announced on a         *)
(* publish/subscribe channel, and reconciled by a background service that  *)
(* compares the local overrides with the index kept in Redis.              *)
(*                                                                         *)
(* A request is one call of ApplyAsync or RevertAsync, step by step, an    *)
(* awaited Redis call being one step that succeeds, or throws a            *)
(* RedisException with or without having taken effect.  Of the replicas in *)
(* Others only the requests are modelled: what they do to Redis and on the *)
(* channel is exact, and what they hold locally, which decides whether a   *)
(* change passes their validation, is left open; their reverts start with  *)
(* the look-up in Redis.  Levels, reasons, actors and the audit entries    *)
(* are left out.                                                           *)
(***************************************************************************)
EXTENDS Integers, Sequences, FiniteSets, SequencesExt

CONSTANTS
  Instances,          \* gateway replicas, modelled in full
  Others,             \* gateway replicas of which only the requests are modelled
  Categories,         \* allowed log categories
  Ids,                \* identifiers of changes (Guid.NewGuid), each used once
  Requests,           \* concurrent operator requests
  MaximumDetailItems, \* limit of active overrides
  WorkCapacity,       \* capacity of a replica's work channel (256, drop oldest)
  Lifetime,           \* DurationSeconds of a change
  MaxTime,            \* bound on the clock
  MaxFaults           \* bound on disconnections, failed calls and restarts

ASSUME DiagnosticsAssumption ==
  /\ IsFiniteSet(Ids)
  /\ Instances \cap Others = {}
  /\ MaximumDetailItems \in Nat \ {0}
  /\ WorkCapacity \in Nat \ {0}
  /\ Lifetime \in Nat \ {0}
  /\ MaxTime \in Nat
  /\ MaxFaults \in Nat

VARIABLES
  now,          \* DateTimeOffset.UtcNow, the same on every replica
  required,     \* RedisOptions.RequiredForReadiness
  change,       \* the change an identifier was drawn for
  overrides,    \* RuntimeLogLevelController._overrides of each replica
  keys,         \* Redis: expiry of the active key of each change, 0 if deleted
  reservation,  \* Redis: the change a category is reserved for, with its expiry
  index,        \* Redis: sorted set of replica-wide changes, scored by expiry
  online,       \* IConnectionMultiplexer.IsConnected of each replica
  request,      \* progress of each operator request
  work,         \* messages and reconciliations a replica has yet to handle
  service,      \* progress of each replica's DiagnosticsCoordinationService
  faults        \* faults so far

redis == <<keys, reservation, index>>
vars == <<now, required, change, overrides, keys, reservation, index, online, request, work, service, faults>>

Replicas == Instances \cup Others
Everyone == "everyone"   \* a null TargetInstanceId
NoChange == [scope |-> "unused"]
NoReservation == [expires |-> 0]
Idle == [step |-> "idle"]
Down == [step |-> "down"]
Ready == [step |-> "ready"]
Reconcile == [action |-> "reconcile"]
ApplyMessageOf(id) == [action |-> "apply", id |-> id]
RevertMessageOf(id) == [action |-> "revert", id |-> id]

ExpiresAt(id) == change[id].startedAt + Lifetime
Unused == {id \in Ids : change[id] = NoChange}
IsAll(id) == change[id].scope = "all"

\* Stored changes that Redis has not expired.
LiveKeys == {id \in Ids : keys[id] > now}

\* GetActive: the local overrides once RemoveExpired has run.
Active(i) == {id \in overrides[i] : ExpiresAt(id) > now}
AllScoped(S) == {id \in S : IsAll(id)}

Init ==
  /\ now = 0
  /\ required \in BOOLEAN
  /\ change = [id \in Ids |-> NoChange]
  /\ overrides = [i \in Instances |-> {}]
  /\ keys = [id \in Ids |-> 0]
  /\ reservation = [c \in Categories |-> NoReservation]
  /\ index = {}
  /\ online = [i \in Replicas |-> TRUE]
  /\ request = [q \in Requests |-> Idle]
  /\ work = [i \in Instances |-> <<>>]
  /\ service = [i \in Instances |-> Down]
  /\ faults = 0

-----------------------------------------------------------------------------
(* RuntimeLogLevelController: operations on the local overrides.           *)

\* TryValidateLocked: the limit of instance overrides, and no second override
\* of the category in the scope.
TryValidate(i, scope, category) ==
  /\ scope = "instance" =>
       Cardinality({id \in Active(i) : ~IsAll(id)}) < MaximumDetailItems
  /\ \A id \in Active(i) : ~(change[id].category = category /\ change[id].scope = scope)

\* The overrides of i after Revert(id).
Reverted(i, id) == IF id \in overrides[i] THEN Active(i) \ {id} ELSE overrides[i]

\* The overrides of i after TryApply of a change it does not have.
TryApply(i, id) ==
  IF TryValidate(i, change[id].scope, change[id].category) THEN Active(i) \cup {id} ELSE Active(i)

\* The sampler's GetActive, once a second.
RemoveExpired(i) ==
  /\ Active(i) # overrides[i]
  /\ overrides' = [overrides EXCEPT ![i] = Active(i)]
  /\ UNCHANGED <<now, required, change, redis, online, request, work, service, faults>>

-----------------------------------------------------------------------------
(* Redis.                                                                  *)

\* The reservation script: 1 when the change was stored, 0 or -1 otherwise.
Reserved(category) == reservation[category].expires > now
Current(time) == {id \in index : ExpiresAt(id) > time}
Store(id) ==
  /\ keys' = [keys EXCEPT ![id] = now + Lifetime]
  /\ reservation' = [reservation EXCEPT ![change[id].category] = [id |-> id, expires |-> now + Lifetime]]

ReservationScript(id) ==
  LET c == change[id].category
      current == Current(change[id].startedAt)
      full == Cardinality(current) >= MaximumDetailItems
  IN /\ index' = IF Reserved(c) THEN index ELSE IF full THEN current ELSE current \cup {id}
     /\ IF Reserved(c) \/ full THEN UNCHANGED <<keys, reservation>> ELSE Store(id)

\* Mutant: the reservation of the category is deleted, whoever holds it.
RemoveActiveUnconditionally(id) ==
  /\ keys' = [keys EXCEPT ![id] = 0]
  /\ index' = index \ {id}
  /\ reservation' = IF IsAll(id) THEN [reservation EXCEPT ![change[id].category] = NoReservation]
                    ELSE reservation

\* RemoveActiveAsync, and the plain deletion of an instance change's key.
RemoveActive(id) ==
  LET c == change[id].category IN
  /\ keys' = [keys EXCEPT ![id] = 0]
  /\ index' = index \ {id}
  /\ reservation' = IF IsAll(id) /\ Reserved(c) /\ reservation[c].id = id
                    THEN [reservation EXCEPT ![c] = NoReservation] ELSE reservation

\* A bounded channel that drops its oldest item.
Enqueue(s, m) == LET t == Append(s, m) IN IF Len(t) > WorkCapacity THEN Tail(t) ELSE t

\* PublishAsync reaches the replicas that are connected and subscribed.
Publish(m) ==
  work' = [i \in Instances |-> IF online[i] /\ service[i] # Down THEN Enqueue(work[i], m) ELSE work[i]]

\* The clock; Redis drops the keys and reservations that expire.
Tick ==
  /\ now < MaxTime
  /\ now' = now + 1
  /\ keys' = [id \in Ids |-> IF keys[id] > now' THEN keys[id] ELSE 0]
  /\ reservation' = [c \in Categories |-> IF reservation[c].expires > now' THEN reservation[c] ELSE NoReservation]
  /\ UNCHANGED <<required, change, overrides, index, online, request, work, service, faults>>

Disconnect(i) ==
  /\ online[i]
  /\ faults < MaxFaults
  /\ online' = [online EXCEPT ![i] = FALSE]
  /\ faults' = faults + 1
  \* messages still on their way are lost
  /\ \E n \in 0..Len(work[i]) :
       /\ \A k \in (n + 1)..Len(work[i]) : work[i][k] # Reconcile
       /\ work' = [work EXCEPT ![i] = SubSeq(work[i], 1, n)]
  /\ UNCHANGED <<now, required, change, overrides, redis, request, service>>

\* A replica's awaited Redis call throws: it is disconnected, or the call
\* fails on its own, and then the effect may have taken place.
CallFails(i, effect, untouched) ==
  \/ ~online[i] /\ untouched /\ UNCHANGED faults
  \/ online[i] /\ faults < MaxFaults /\ faults' = faults + 1 /\ (effect \/ untouched)

-----------------------------------------------------------------------------
(* DiagnosticsControlService.ApplyAsync.                                   *)

Goes(q, step) == request' = [request EXCEPT ![q].step = step]
Returns(q) == request' = [request EXCEPT ![q] = Idle]

\* A local operation of replica i; on one of Others it leaves no trace.
Locally(i, new) == overrides' = [k \in Instances |-> IF k = i THEN new ELSE overrides[k]]
LocallyReverts(q) ==
  LET i == request[q].at IN
  IF i \in Instances THEN Locally(i, Reverted(i, request[q].id)) ELSE UNCHANGED overrides

\* The call validates the change; an instance change is applied at once.
ApplyBegins(q, i, scope, c) ==
  /\ request[q] = Idle
  /\ i \in Instances => TryValidate(i, scope, c)
  /\ Unused # {}
  /\ LET id == CHOOSE id \in Unused : TRUE IN
       /\ change' = [change EXCEPT ![id] = [scope |-> scope, category |-> c, 
                                            target |-> IF scope = "all" THEN Everyone ELSE i, startedAt |-> now]]
       /\ request' = [request EXCEPT ![q] = [step |-> "connect", at |-> i, id |-> id]]
       /\ IF i \in Others THEN UNCHANGED overrides
          ELSE Locally(i, IF scope = "instance" THEN Active(i) \cup {id} ELSE Active(i))
  /\ UNCHANGED <<now, required, redis, online, work, service, faults>>

\* GetConnectionAsync: connected, and the time of a replica-wide change is
\* taken; or not, and the change is refused or stays local; or the caller has
\* gone, and the local override is reverted.
ApplyConnects(q) ==
  LET i == request[q].at  id == request[q].id IN
  /\ request[q].step = "connect"
  /\ \/ /\ online[i]
        /\ change' = IF IsAll(id) THEN [change EXCEPT ![id].startedAt = now] ELSE change
        /\ Goes(q, "store")
        /\ UNCHANGED overrides
     \/ /\ ~online[i]
        /\ Returns(q)
        /\ IF ~IsAll(id) /\ required THEN LocallyReverts(q) ELSE UNCHANGED overrides
        /\ UNCHANGED change
     \/ Returns(q) /\ LocallyReverts(q) /\ UNCHANGED change
  /\ UNCHANGED <<now, required, redis, online, work, service, faults>>

\* StringSetAsync of an instance change.
InstanceStores(q) ==
  LET i == request[q].at  id == request[q].id
      stored == keys' = [keys EXCEPT ![id] = now + Lifetime]
  IN
  /\ request[q].step = "store"
  /\ ~IsAll(id)
  /\ \/ /\ online[i] /\ stored
        /\ Goes(q, "flush")
        /\ UNCHANGED <<overrides, faults>>
     \/ /\ CallFails(i, stored, UNCHANGED keys)
        /\ IF required THEN LocallyReverts(q) /\ Goes(q, "cleanup") ELSE UNCHANGED overrides /\ Returns(q)
  /\ UNCHANGED <<now, required, change, reservation, index, online, work, service>>

\* The reservation of a replica-wide change.
AllReserves(q) ==
  LET i == request[q].at  id == request[q].id IN
  /\ request[q].step = "store"
  /\ IsAll(id)
  /\ \/ /\ online[i]
        /\ ReservationScript(id)
        /\ IF id \in index' THEN Goes(q, "apply") ELSE Returns(q)
        /\ UNCHANGED faults
     \/ /\ CallFails(i, ReservationScript(id), UNCHANGED redis)
        /\ Goes(q, "rollback")
  /\ UNCHANGED <<now, required, change, overrides, online, work, service>>

\* TryApply on the replica that took the request.
AllApplies(q) ==
  LET i == request[q].at  id == request[q].id IN
  /\ request[q].step = "apply"
  /\ \/ /\ i \in Instances
        /\ Locally(i, TryApply(i, id))
        /\ Goes(q, IF TryValidate(i, "all", change[id].category) THEN "publish" ELSE "undo")
     \/ /\ i \in Others
        /\ Goes(q, "publish") \/ Goes(q, "undo")
        /\ UNCHANGED overrides
  /\ UNCHANGED <<now, required, change, redis, online, work, service, faults>>

AllPublishes(q) ==
  LET i == request[q].at  m == ApplyMessageOf(request[q].id) IN
  /\ request[q].step = "publish"
  /\ \/ online[i] /\ Publish(m) /\ Goes(q, "flush") /\ UNCHANGED faults
     \/ CallFails(i, Publish(m), UNCHANGED work) /\ Goes(q, "rollback")
  /\ UNCHANGED <<now, required, change, overrides, redis, online, service>>

\* FlushLocalAuditAsync returns; or it throws because the caller has gone,
\* and the local override is reverted before Redis is cleaned up.
ApplyEnds(q) ==
  /\ request[q].step = "flush"
  /\ \/ Returns(q) /\ UNCHANGED overrides
     \/ Goes(q, "cleanup") /\ LocallyReverts(q)
  /\ UNCHANGED <<now, required, change, redis, online, work, service, faults>>

\* Redis is cleaned up after a local rollback, if it can be reached, or after a
\* refused TryApply, where a RedisException is one of the call like any other.
ApplyCleansUp(q) ==
  LET i == request[q].at  id == request[q].id IN
  /\ request[q].step \in {"cleanup", "undo"}
  /\ \/ online[i] /\ RemoveActive(id) /\ Returns(q) /\ UNCHANGED faults
     \/ /\ CallFails(i, RemoveActive(id), UNCHANGED redis)
        /\ IF request[q].step = "undo" THEN Goes(q, "rollback") ELSE Returns(q)
  /\ UNCHANGED <<now, required, change, overrides, online, work, service>>

\* After a RedisException of a replica-wide change: Redis is cleaned up if it
\* can be reached, then the local override is reverted.
ApplyRollsBack(q) ==
  LET i == request[q].at  id == request[q].id IN
  /\ request[q].step = "rollback"
  /\ \/ online[i] /\ RemoveActive(id) /\ UNCHANGED faults
     \/ CallFails(i, RemoveActive(id), UNCHANGED redis)
  /\ LocallyReverts(q)
  /\ Returns(q)
  /\ UNCHANGED <<now, required, change, online, work, service>>

-----------------------------------------------------------------------------
(* DiagnosticsControlService.RevertAsync.                                  *)

\* An instance change of this replica can be reverted without Redis when
\* Redis is optional.
LocallyOwnedOptional(q) ==
  LET c == change[request[q].id] IN c.target = request[q].at /\ ~required

RevertBegins(q, i, id) ==
  /\ request[q] = Idle
  /\ id \notin Unused
  /\ IF i \in Others THEN UNCHANGED overrides ELSE Locally(i, Active(i))
  /\ LET held == i \in Instances /\ id \in Active(i) IN
     request' = [request EXCEPT ![q] = [step |-> IF held THEN "remove" ELSE "lookup", at |-> i, id |-> id]]
  /\ UNCHANGED <<now, required, change, redis, online, work, service, faults>>

\* A change this replica does not have is looked up in Redis.
RevertLooksUp(q) ==
  LET i == request[q].at IN
  /\ request[q].step = "lookup"
  /\ \/ /\ online[i]
        /\ IF request[q].id \in LiveKeys THEN Goes(q, "remove") ELSE Returns(q)
        /\ UNCHANGED faults
     \/ CallFails(i, UNCHANGED redis, UNCHANGED redis) /\ Returns(q)
  /\ UNCHANGED <<now, required, change, overrides, redis, online, work, service>>

RevertRemoves(q) ==
  LET i == request[q].at  id == request[q].id IN
  /\ request[q].step = "remove"
  /\ \/ online[i] /\ RemoveActive(id) /\ Goes(q, "announce") /\ UNCHANGED faults
     \/ /\ CallFails(i, RemoveActive(id), UNCHANGED redis)
        /\ IF LocallyOwnedOptional(q) THEN Goes(q, "revert") ELSE Returns(q)
  /\ UNCHANGED <<now, required, change, overrides, online, work, service>>

RevertPublishes(q) ==
  LET i == request[q].at  m == RevertMessageOf(request[q].id) IN
  /\ request[q].step = "announce"
  /\ \/ online[i] /\ Publish(m) /\ Goes(q, "revert") /\ UNCHANGED faults
     \/ /\ CallFails(i, Publish(m), UNCHANGED work)
        /\ IF LocallyOwnedOptional(q) THEN Goes(q, "revert") ELSE Returns(q)
  /\ UNCHANGED <<now, required, change, overrides, redis, online, service>>

RevertsLocally(q) ==
  /\ request[q].step = "revert"
  /\ LocallyReverts(q)
  /\ Returns(q)
  /\ UNCHANGED <<now, required, change, redis, online, work, service, faults>>

-----------------------------------------------------------------------------
(* DiagnosticsCoordinationService.                                         *)

ServiceGoes(i, s) == service' = [service EXCEPT ![i] = s]

\* The service subscribes and asks itself for a reconciliation.
Subscribe(i) ==
  /\ service[i] = Down
  /\ online[i]
  /\ ServiceGoes(i, Ready)
  /\ work' = [work EXCEPT ![i] = <<Reconcile>>]
  /\ UNCHANGED <<now, required, change, overrides, redis, online, request, faults>>

\* A RedisException ends the cycle; the channel of work goes with it.
ServiceFails(i) ==
  /\ \/ service[i].step = "keys" /\ service[i].ids # {}
     \/ service[i] = Ready /\ work[i] # <<>> /\ Head(work[i]) = Reconcile
  /\ CallFails(i, UNCHANGED redis, UNCHANGED redis)
  /\ ServiceGoes(i, Down)
  /\ work' = [work EXCEPT ![i] = <<>>]
  /\ UNCHANGED <<now, required, change, overrides, redis, online, request>>

\* The work of a replica once a reconciliation is requested: behind what has
\* arrived and before what is still on its way.  A request that finds another
\* one waiting is left out (a bound).
WithReconciliation(w) ==
  IF \E k \in 1..Len(w) : w[k] = Reconcile THEN {w}
  ELSE IF Len(w) < WorkCapacity THEN {InsertAt(w, n + 1, Reconcile) : n \in 0..Len(w)}
  ELSE {Tail(InsertAt(w, n + 1, Reconcile)) : n \in 1..Len(w)}

\* Five seconds have passed.
QueueReconciliation(i) ==
  /\ service[i] # Down
  /\ \E w \in WithReconciliation(work[i]) : work' = [work EXCEPT ![i] = w]
  /\ UNCHANGED <<now, required, change, overrides, redis, online, request, service, faults>>

\* ApplyMessage on the overrides of i.
ApplyMessage(i, m) ==
  IF m.action = "revert"
  THEN IF change[m.id].target \in {Everyone, i} THEN Reverted(i, m.id) ELSE overrides[i]
  ELSE IF m.id \notin Active(i) /\ ExpiresAt(m.id) > now THEN TryApply(i, m.id) ELSE Active(i)

HandleMessage(i) ==
  /\ service[i] = Ready
  /\ work[i] # <<>>
  /\ Head(work[i]) # Reconcile
  /\ overrides' = [overrides EXCEPT ![i] = ApplyMessage(i, Head(work[i]))]
  /\ work' = [work EXCEPT ![i] = Tail(work[i])]
  /\ UNCHANGED <<now, required, change, redis, online, request, service, faults>>

\* A reconciliation removes expired entries from the index and reads the
\* others.
ReconcileReadsIndex(i) ==
  /\ service[i] = Ready
  /\ work[i] # <<>>
  /\ Head(work[i]) = Reconcile
  /\ online[i]
  /\ index' = Current(now)
  /\ ServiceGoes(i, [step |-> "keys", ids |-> Current(now), active |-> {}])
  /\ work' = [work EXCEPT ![i] = Tail(work[i])]
  /\ UNCHANGED <<now, required, change, overrides, keys, reservation, online, request, faults>>

\* The key of one indexed change is read; an entry without key is removed.
ReconcileReadsKey(i) ==
  /\ service[i].step = "keys"
  /\ online[i]
  /\ \E id \in service[i].ids :
       /\ index' = IF id \in LiveKeys THEN index ELSE index \ {id}
       /\ ServiceGoes(i, [service[i] EXCEPT !.ids = @ \ {id},
                                           !.active = IF id \in LiveKeys THEN @ \cup {id} ELSE @])
  /\ UNCHANGED <<now, required, change, overrides, keys, reservation, online, request, work, faults>>

\* The service with stored changes left to apply.
Applying(ids) == IF ids = {} THEN Ready ELSE [step |-> "apply", active |-> ids]

\* Mutant: nothing local is reverted.
ReconcileKeepsLocal(i) ==
  /\ service[i].step = "keys"
  /\ service[i].ids = {}
  /\ ServiceGoes(i, Applying(service[i].active))
  /\ UNCHANGED <<now, required, change, overrides, redis, online, request, work, faults>>

\* Local replica-wide overrides that Redis does not have are reverted.
ReconcileReverts(i) ==
  /\ service[i].step = "keys"
  /\ service[i].ids = {}
  /\ overrides' = [overrides EXCEPT ![i] = Active(i) \ (AllScoped(Active(i)) \ service[i].active)]
  /\ ServiceGoes(i, Applying(service[i].active))
  /\ UNCHANGED <<now, required, change, redis, online, request, work, faults>>

\* The stored changes are applied one by one.
ReconcileApplies(i) ==
  /\ service[i].step = "apply"
  /\ \E id \in service[i].active :
       /\ overrides' = [overrides EXCEPT ![i] = ApplyMessage(i, ApplyMessageOf(id))]
       /\ ServiceGoes(i, Applying(service[i].active \ {id}))
  /\ UNCHANGED <<now, required, change, redis, online, request, work, faults>>

\* The connection is re-established; ConnectionRestored asks for a
\* reconciliation.
Reconnect(i) ==
  /\ ~online[i]
  /\ online' = [online EXCEPT ![i] = TRUE]
  /\ \E w \in IF service[i] = Down THEN {work[i]} ELSE WithReconciliation(work[i]) :
       work' = [work EXCEPT ![i] = w]
  /\ UNCHANGED <<now, required, change, overrides, redis, request, service, faults>>

\* The process of the replica ends and starts again.
Restart(i) ==
  /\ faults < MaxFaults
  /\ faults' = faults + 1
  /\ overrides' = [overrides EXCEPT ![i] = {}]
  /\ request' = [q \in Requests |-> IF request[q] # Idle /\ request[q].at = i THEN Idle ELSE request[q]]
  /\ work' = [work EXCEPT ![i] = <<>>]
  /\ ServiceGoes(i, Down)
  /\ UNCHANGED <<now, required, change, redis, online>>

-----------------------------------------------------------------------------
RequestSteps(q) ==
  \/ ApplyConnects(q) \/ InstanceStores(q) \/ AllReserves(q) \/ AllApplies(q) \/ AllPublishes(q)
  \/ ApplyEnds(q) \/ ApplyCleansUp(q) \/ ApplyRollsBack(q)
  \/ RevertLooksUp(q) \/ RevertRemoves(q) \/ RevertPublishes(q) \/ RevertsLocally(q)

ServiceSteps(i) ==
  \/ HandleMessage(i) \/ ReconcileReadsIndex(i) \/ ReconcileReadsKey(i)
  \/ ReconcileReverts(i) \/ ReconcileApplies(i) \/ ServiceFails(i)

Next ==
  \/ Tick
  \/ \E q \in Requests : RequestSteps(q)
  \/ \E q \in Requests, i \in Replicas, scope \in {"all", "instance"}, c \in Categories :
       ApplyBegins(q, i, scope, c)
  \/ \E q \in Requests, i \in Replicas, id \in Ids : RevertBegins(q, i, id)
  \/ \E i \in Instances :
       \/ RemoveExpired(i) \/ Subscribe(i) \/ ServiceSteps(i) \/ QueueReconciliation(i)
       \/ Disconnect(i) \/ Reconnect(i) \/ Restart(i)

\* Calls and the service's loop go on, the periodic timer fires, and a lost
\* connection is re-established by the client library.  Nothing makes an
\* operator act or the clock reach an expiry.
Fairness ==
  /\ \A q \in Requests : WF_vars(RequestSteps(q))
  /\ \A i \in Instances :
       /\ WF_vars(ServiceSteps(i))
       /\ WF_vars(QueueReconciliation(i))
       /\ WF_vars(Subscribe(i))
       /\ WF_vars(Reconnect(i))

Spec == Init /\ [][Next]_vars /\ Fairness

-----------------------------------------------------------------------------
(* Properties.                                                             *)

\* A category is overridden replica-wide by at most one change that Redis
\* holds, whatever calls failed half way: the reservation of a change outlives
\* the roll-backs of others.  And no replica ever has two overrides of one
\* category and scope in force, although changes reach it by request, by
\* message and by reconciliation.
OneOverridePerCategory ==
  /\ \A a, b \in AllScoped(LiveKeys) : change[a].category = change[b].category => a = b
  /\ \A i \in Instances : \A a, b \in Active(i) :
       change[a].category = change[b].category /\ change[a].scope = change[b].scope => a = b

Agreement ==
  \A i \in Instances : AllScoped(Active(i)) = {id \in AllScoped(LiveKeys) : ExpiresAt(id) > now}

\* Once faults and new changes have ended, every replica has exactly the
\* replica-wide overrides that Redis holds, for good: lost announcements,
\* half-done roll-backs and reconciliations that worked from an old index are
\* made up for.
ReplicasAgree == <>[]Agreement
=============================================================================
