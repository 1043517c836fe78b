----------------------- MODULE RealtimeConnectionProofs -----------------------
(***************************************************************************)
(* Proofs, for every capacity, message set and set of close calls, of the  *)
(* safety properties of RealtimeConnection.                                *)
(***************************************************************************)
EXTENDS RealtimeConnection, SequenceTheorems, TLAPS

USE CapacityAssumption, StrikeLimitAssumption, MaxAcceptedAssumption, PartiesAssumption

\* A new connection has values of the declared types.
LEMMA TypeInit == Init => TypeOK
<1> SUFFICES ASSUME Init PROVE TypeOK
  OBVIOUS
<1>1. closer \in [Closers -> CloserStates]
  BY DEF Init, CloserStates
<1>2. /\ transport \in TransportStates /\ sender \in SenderStates /\ disposer \in DisposerStates
      /\ sendLock \in SUBSET Parties /\ cancelled \in SUBSET Parties
  BY DEF Init, TransportStates, SenderStates, DisposerStates
<1>3. /\ queuedMessages \in Nat /\ queueDepth \in Int /\ slowConsumerStrikes \in 0..StrikeLimit
      /\ closeCodes \in Nat /\ closeFrames \in Nat
  BY DEF Init
<1>4. /\ outbound \in Seq(Messages) /\ writing \in Seq(Messages) /\ inflight \in Seq(Messages)
      /\ accepted \in Seq(Messages) /\ sent \in Seq(Messages)
  BY DEF Init
<1>5. /\ completed \in BOOLEAN /\ closeRequested \in BOOLEAN
      /\ disposing \in BOOLEAN /\ sendLockDisposed \in BOOLEAN
  BY DEF Init
<1> QED
  BY <1>1, <1>2, <1>3, <1>4, <1>5 DEF TypeOK

\* A strike saturates at the limit.
LEMMA StrikeType == \A n \in 0..StrikeLimit : Strike(n) \in 0..StrikeLimit
  BY DEF Strike

\* The synchronous part of RequestCloseAsync keeps its variables' types.
LEMMA BeginCloseType ==
  ASSUME TypeOK, NEW k \in Closers, BeginClose(k)
  PROVE  /\ closer' \in [Closers -> CloserStates] /\ closeCodes' \in Nat
         /\ sendLock' \in SUBSET Parties
         /\ closeRequested' \in BOOLEAN /\ completed' \in BOOLEAN
<1>1. closer' \in [Closers -> CloserStates] /\ closeCodes' \in Nat
  BY DEF TypeOK, BeginClose, CloserStates
<1>2. sendLock' \in SUBSET Parties
  BY DEF TypeOK, BeginClose, WaitAsync, Parties
<1>3. closeRequested' \in BOOLEAN /\ completed' \in BOOLEAN
  BY DEF TypeOK, BeginClose
<1> QED
  BY <1>1, <1>2, <1>3

\* No step of a caller, the sender, a closer or the disposal leaves the types.
LEMMA TypeStep == TypeOK /\ [Next]_vars => TypeOK'
<1> SUFFICES ASSUME TypeOK, [Next]_vars PROVE TypeOK'
  OBVIOUS
<1> USE DEF TypeOK, TransportStates, SenderStates, CloserStates, DisposerStates, Parties,
            queueVars, closeVars, lockVars, senderVars, wireVars, lifeVars
<1>1. CASE TryEnqueueSaturated
  BY <1>1 DEF TryEnqueueSaturated, Strike
<1>2. ASSUME NEW m \in Messages, TryEnqueueReserve(m) PROVE TypeOK'
  BY <1>2 DEF TryEnqueueReserve
<1>3. CASE TryEnqueueWrite
  <2>1. CASE completed \/ Len(outbound) >= Capacity
    <3>1. slowConsumerStrikes' \in 0..StrikeLimit
      BY <1>3, <2>1, StrikeType DEF TryEnqueueWrite
    <3> QED
      BY <1>3, <2>1, <3>1 DEF TryEnqueueWrite, RemoveQueuedMessage
  <2>2. CASE ~(completed \/ Len(outbound) >= Capacity)
    <3>1. /\ outbound' = outbound \o writing /\ accepted' = accepted \o writing
          /\ writing' = <<>> /\ slowConsumerStrikes' = 0
      BY <1>3, <2>2, Zenon DEF TryEnqueueWrite
    <3>2. outbound' \in Seq(Messages) /\ accepted' \in Seq(Messages) /\ writing' \in Seq(Messages)
      BY <3>1
    <3> QED
      BY <1>3, <2>2, <3>1, <3>2 DEF TryEnqueueWrite
  <2> QED
    BY <2>1, <2>2
<1>4. CASE SenderTake
  BY <1>4 DEF SenderTake, WaitAsync
<1>5. CASE SenderStop
  BY <1>5 DEF SenderStop
<1>6. CASE SenderWaitCancelled
  BY <1>6 DEF SenderWaitCancelled
<1>7. CASE SenderBeginSend
  BY <1>7 DEF SenderBeginSend, ReleaseSendLock, Waiting
<1>8. CASE SendCompleted
  BY <1>8 DEF SendCompleted, ReleaseSendLock, Waiting
<1>9. CASE SendFailed
  BY <1>9 DEF SendFailed, ReleaseSendLock, Waiting
<1>10. CASE SenderRemoveQueued
  BY <1>10 DEF SenderRemoveQueued, RemoveQueuedMessage
<1>11. ASSUME NEW k \in Closers, RequestClose(k) PROVE TypeOK'
  <2>1. BeginClose(k)
    BY <1>11 DEF RequestClose
  <2> QED
    BY <1>11, <2>1, BeginCloseType DEF RequestClose
<1>12. ASSUME NEW k \in Closers, CloseGranted(k) PROVE TypeOK'
  BY <1>12 DEF CloseGranted
<1>13. ASSUME NEW k \in Closers, CloseCompleted(k) PROVE TypeOK'
  BY <1>13 DEF CloseCompleted, ReleaseSendLock, Waiting, AfterRelease
<1>14. ASSUME NEW k \in Closers, CloseFailed(k) PROVE TypeOK'
  BY <1>14 DEF CloseFailed, ReleaseSendLock, Waiting, AfterRelease
<1>15. ASSUME NEW k \in Closers, CloseWaitCancelled(k) PROVE TypeOK'
  BY <1>15 DEF CloseWaitCancelled
<1>16. ASSUME NEW k \in Closers, CloseSendCancelled(k) PROVE TypeOK'
  BY <1>16 DEF CloseSendCancelled, ReleaseSendLock, Waiting
<1>17. ASSUME NEW k \in Closers, Abort(k) PROVE TypeOK'
  <2>1. /\ closer' \in [Closers -> CloserStates] /\ closeCodes' \in Nat
        /\ transport' \in TransportStates
    BY <1>17 DEF Abort
  <2>2. closeRequested' \in BOOLEAN /\ completed' \in BOOLEAN
    BY <1>17 DEF Abort
  <2> QED
    BY <1>17, <2>1, <2>2 DEF Abort
<1>18. CASE DisposeDrain
  BY <1>18 DEF DisposeDrain
<1>19. CASE DisposeRequestClose
  <2>1. CASE transport = "Open"
    <3>1. BeginClose(Disposer)
      BY <1>19, <2>1 DEF DisposeRequestClose
    <3> QED
      BY <1>19, <2>1, <3>1, BeginCloseType DEF DisposeRequestClose
  <2>2. CASE transport # "Open"
    BY <1>19, <2>2 DEF DisposeRequestClose
  <2> QED
    BY <2>1, <2>2
<1>20. CASE DisposeTransport
  BY <1>20 DEF DisposeTransport
<1>21. CASE DisposeSendLock
  BY <1>21 DEF DisposeSendLock
<1>22. CASE PeerCloses
  BY <1>22 DEF PeerCloses
<1>23. CASE NetworkFails
  BY <1>23 DEF NetworkFails
<1>24. ASSUME NEW p \in Parties, Cancel(p) PROVE TypeOK'
  BY <1>24 DEF Cancel
<1>25. CASE UNCHANGED vars
  BY <1>25 DEF vars
<1> QED
  BY <1>1, <1>2, <1>3, <1>4, <1>5, <1>6, <1>7, <1>8, <1>9, <1>10, <1>11, <1>12, <1>13,
     <1>14, <1>15, <1>16, <1>17, <1>18, <1>19, <1>20, <1>21, <1>22, <1>23, <1>24, <1>25
  DEF Next

\* Every variable keeps its type, whatever the interleaving of producers, sender,
\* close calls and disposal.
THEOREM TypeCorrect == Spec => []TypeOK
  BY TypeInit, TypeStep, PTL DEF Spec

-----------------------------------------------------------------------------
(* The queue and its accounting.                                           *)

\* Inductive strengthening of QueueAccounting and BoundedBacklog: the sender has
\* a message in hand exactly while RunSenderAsync is inside an iteration, and a
\* caller inside TryEnqueue keeps DisposeAsync out of the accounting lock.
QueueInv ==
  /\ QueueAccounting
  /\ Len(outbound) + Len(inflight) + Len(writing) <= Capacity
  /\ Len(inflight) <= 1 /\ Len(writing) <= 1
  /\ sender = "reading" => inflight = <<>>
  /\ sender \in {"waiting", "sending", "removing", "removingLast"} => Len(inflight) = 1
  /\ writing # <<>> => ~disposing

queueState == <<outbound, writing, queuedMessages, queueDepth, inflight, sender, disposing>>

\* A new connection has an empty queue and nothing reserved.
LEMMA QueueInit == Init => QueueInv
  BY DEF Init, QueueInv, QueueAccounting

\* A step that leaves the queue alone keeps its invariant.
LEMMA QueueFrame == QueueInv /\ UNCHANGED queueState => QueueInv'
  BY DEF QueueInv, QueueAccounting, queueState

\* Every step keeps the accounting: TryEnqueue reserves before it writes, the sender counts
\* down after it took a message, and DisposeAsync settles what is left.
LEMMA QueueStep == TypeOK /\ QueueInv /\ [Next]_vars => QueueInv'
<1> SUFFICES ASSUME TypeOK, QueueInv, [Next]_vars PROVE QueueInv'
  OBVIOUS
<1>a. /\ outbound \in Seq(Messages) /\ inflight \in Seq(Messages) /\ writing \in Seq(Messages)
      /\ queuedMessages \in Nat /\ queueDepth \in Int
  BY DEF TypeOK
<1> USE DEF QueueInv, QueueAccounting, queueVars, closeVars, lockVars, senderVars, wireVars, lifeVars
<1>1. CASE TryEnqueueSaturated
  BY <1>1 DEF TryEnqueueSaturated
<1>2. ASSUME NEW m \in Messages, TryEnqueueReserve(m) PROVE QueueInv'
  BY <1>2, <1>a DEF TryEnqueueReserve, IsOpen
<1>3. CASE TryEnqueueWrite
  <2>1. CASE completed \/ Len(outbound) >= Capacity
    BY <1>3, <1>a, <2>1 DEF TryEnqueueWrite, RemoveQueuedMessage
  <2>2. CASE ~(completed \/ Len(outbound) >= Capacity)
    BY <1>3, <1>a, <2>2 DEF TryEnqueueWrite
  <2> QED
    BY <2>1, <2>2
<1>4. CASE SenderTake
  BY <1>4, <1>a DEF SenderTake
<1>5. CASE SenderStop
  BY <1>5 DEF SenderStop
<1>6. CASE SenderWaitCancelled
  BY <1>6 DEF SenderWaitCancelled
<1>7. CASE SenderBeginSend
  BY <1>7 DEF SenderBeginSend
<1>8. CASE SendCompleted
  BY <1>8 DEF SendCompleted
<1>9. CASE SendFailed
  BY <1>9 DEF SendFailed
<1>10. CASE SenderRemoveQueued
  <2>1. /\ inflight' = <<>> /\ UNCHANGED <<outbound, writing, disposing>>
        /\ sender' \in {"reading", "done"} /\ Len(inflight) = 1 /\ writing = <<>>
    BY <1>10 DEF SenderRemoveQueued
  <2>2. CASE disposing
    BY <1>10, <1>a, <2>1, <2>2 DEF SenderRemoveQueued, RemoveQueuedMessage
  <2>3. CASE ~disposing
    BY <1>10, <1>a, <2>1, <2>3 DEF SenderRemoveQueued, RemoveQueuedMessage
  <2> QED
    BY <2>2, <2>3
<1>11. ASSUME NEW k \in Closers,
              RequestClose(k) \/ CloseGranted(k) \/ CloseCompleted(k) \/ CloseFailed(k)
                \/ CloseWaitCancelled(k) \/ CloseSendCancelled(k) \/ Abort(k)
       PROVE  QueueInv'
  <2>1. UNCHANGED queueState
    BY <1>11 DEF queueState, RequestClose, CloseGranted, CloseCompleted, CloseFailed,
                 CloseWaitCancelled, CloseSendCancelled, Abort
  <2> QED
    BY <2>1, QueueFrame
<1>12. CASE DisposeDrain
  BY <1>12, <1>a DEF DisposeDrain
<1>13. CASE DisposeRequestClose \/ DisposeTransport \/ DisposeSendLock
  <2>1. UNCHANGED queueState
    BY <1>13 DEF queueState, DisposeRequestClose, DisposeTransport, DisposeSendLock
  <2> QED
    BY <2>1, QueueFrame
<1>14. CASE PeerCloses \/ NetworkFails \/ \E p \in Parties : Cancel(p)
  <2>1. UNCHANGED queueState
    BY <1>14 DEF queueState, PeerCloses, NetworkFails, Cancel
  <2> QED
    BY <2>1, QueueFrame
<1>15. CASE UNCHANGED vars
  <2>1. UNCHANGED queueState
    BY <1>15 DEF queueState, vars
  <2> QED
    BY <2>1, QueueFrame
<1> QED
  BY <1>1, <1>2, <1>3, <1>4, <1>5, <1>6, <1>7, <1>8, <1>9, <1>10, <1>11, <1>12, <1>13,
     <1>14, <1>15 DEF Next

\* The inductive invariant of the queue holds in every state: the count of queued messages
\* accounts for the channel, a write in progress and the message in hand.
THEOREM QueueInvariant == Spec => []QueueInv
  BY TypeInit, TypeStep, QueueInit, QueueStep, PTL DEF Spec

\* The queue-depth gauge never drifts from the messages actually queued, through
\* lost races between TryEnqueue, the sender and DisposeAsync.
THEOREM AccountingExact == Spec => []QueueAccounting
<1>1. QueueInv => QueueAccounting
  BY DEF QueueInv
<1> QED
  BY <1>1, QueueInvariant, PTL

\* The backlog, the message being sent included, never exceeds the capacity, and a
\* reserved message always finds room in the channel.
THEOREM BacklogBounded == Spec => []BoundedBacklog
<1>1. TypeOK /\ QueueInv => BoundedBacklog
  BY DEF TypeOK, QueueInv, BoundedBacklog
<1> QED
  BY <1>1, QueueInvariant, TypeCorrect, PTL

-----------------------------------------------------------------------------
(* The send lock and the close protocol.                                   *)

\* Inductive strengthening of WireExclusion: the send lock has one holder, and
\* whoever is writing to the socket holds it.
LockInv ==
  /\ \A p, q \in sendLock : p = q
  /\ sender = "sending" => Sender \in sendLock
  /\ \A k \in Closers : closer[k] = "closing" => k \in sendLock

lockState == <<sendLock, sender, closer>>

\* The send lock of a new connection is free.
LEMMA LockInit == Init => LockInv
  BY DEF Init, LockInv

\* A step that leaves the lock and its users alone keeps the invariant of the lock.
LEMMA LockFrame == LockInv /\ UNCHANGED lockState => LockInv'
  BY DEF LockInv, lockState

\* Releasing the lock leaves it with one holder at most, a waiter.
LEMMA ReleaseHolder ==
  ASSUME TypeOK, LockInv, ReleaseSendLock
  PROVE  /\ \A p, q \in sendLock' : p = q
         /\ sendLock' # sendLock => \A p \in sendLock' : p \in Waiting
  BY DEF TypeOK, LockInv, ReleaseSendLock, Waiting

\* Every step keeps the lock with one holder: it is taken when free, handed to a waiter on
\* release, and left behind by a disposal.
LEMMA LockStep == TypeOK /\ LockInv /\ [Next]_vars => LockInv'
<1> SUFFICES ASSUME TypeOK, LockInv, [Next]_vars PROVE LockInv'
  OBVIOUS
<1>a. closer \in [Closers -> CloserStates] /\ Sender \notin Closers
  BY PartiesAssumption DEF TypeOK
<1> USE DEF LockInv, closeVars, lockVars, senderVars, wireVars, lifeVars
<1>1. CASE TryEnqueueSaturated \/ (\E m \in Messages : TryEnqueueReserve(m)) \/ TryEnqueueWrite
  <2>1. UNCHANGED lockState
    BY <1>1 DEF lockState, TryEnqueueSaturated, TryEnqueueReserve, TryEnqueueWrite
  <2> QED
    BY <2>1, LockFrame
<1>2. CASE SenderTake
  BY <1>2, <1>a DEF SenderTake, WaitAsync
<1>3. CASE SenderStop \/ SenderWaitCancelled \/ SenderRemoveQueued
  BY <1>3 DEF SenderStop, SenderWaitCancelled, SenderRemoveQueued
<1>4. CASE SenderBeginSend
  BY <1>4, <1>a, ReleaseHolder DEF SenderBeginSend, ReleaseSendLock
<1>5. CASE SendCompleted
  BY <1>5, <1>a, ReleaseHolder DEF SendCompleted, ReleaseSendLock
<1>6. CASE SendFailed
  BY <1>6, <1>a, ReleaseHolder DEF SendFailed, ReleaseSendLock
<1>7. ASSUME NEW k \in Closers, RequestClose(k) PROVE LockInv'
  BY <1>7, <1>a DEF RequestClose, BeginClose, WaitAsync
<1>8. ASSUME NEW k \in Closers, CloseGranted(k) PROVE LockInv'
  BY <1>8, <1>a DEF CloseGranted
<1>9. ASSUME NEW k \in Closers, CloseCompleted(k) PROVE LockInv'
  BY <1>9, <1>a, ReleaseHolder DEF CloseCompleted, AfterRelease
<1>10. ASSUME NEW k \in Closers, CloseFailed(k) PROVE LockInv'
  BY <1>10, <1>a, ReleaseHolder DEF CloseFailed, AfterRelease
<1>11. ASSUME NEW k \in Closers, CloseWaitCancelled(k) PROVE LockInv'
  BY <1>11, <1>a DEF CloseWaitCancelled
<1>12. ASSUME NEW k \in Closers, CloseSendCancelled(k) PROVE LockInv'
  BY <1>12, <1>a, ReleaseHolder DEF CloseSendCancelled
<1>13. ASSUME NEW k \in Closers, Abort(k) PROVE LockInv'
  BY <1>13, <1>a DEF Abort
<1>14. CASE DisposeRequestClose
  BY <1>14, <1>a, PartiesAssumption DEF DisposeRequestClose, BeginClose, WaitAsync
<1>15. CASE DisposeDrain \/ DisposeTransport \/ DisposeSendLock
  <2>1. UNCHANGED lockState
    BY <1>15 DEF lockState, DisposeDrain, DisposeTransport, DisposeSendLock
  <2> QED
    BY <2>1, LockFrame
<1>16. CASE PeerCloses \/ NetworkFails \/ \E p \in Parties : Cancel(p)
  <2>1. UNCHANGED lockState
    BY <1>16 DEF lockState, PeerCloses, NetworkFails, Cancel
  <2> QED
    BY <2>1, LockFrame
<1>17. CASE UNCHANGED vars
  <2>1. UNCHANGED lockState
    BY <1>17 DEF lockState, vars
  <2> QED
    BY <2>1, LockFrame
<1> QED
  BY <1>1, <1>2, <1>3, <1>4, <1>5, <1>6, <1>7, <1>8, <1>9, <1>10, <1>11, <1>12, <1>13,
     <1>14, <1>15, <1>16, <1>17 DEF Next

\* The inductive invariant of the send lock holds in every state: whoever writes holds it.
THEOREM LockInvariant == Spec => []LockInv
  BY TypeInit, TypeStep, LockInit, LockStep, PTL DEF Spec

\* No two tasks write to the socket at once: the sender and every close call
\* exclude each other, also after cancelled waits and a disposed lock.
THEOREM WireExclusive == Spec => []WireExclusion
<1>1. LockInv => WireExclusion
  BY PartiesAssumption DEF LockInv, WireExclusion
<1> QED
  BY <1>1, LockInvariant, PTL

\* Inductive strengthening of CloseCodeOnce: a call that has won the exchange on
\* _closeRequested is alone until it records its code or gives the flag back, and
\* no code is on record while such a call is under way.  DisposeAsync makes its
\* own call once.
Active(k) == closer[k] \in {"waiting", "closing"}

\* At most one call is past the claim of _closeRequested, and while it is no close code has
\* been recorded; DisposeAsync's own call comes after its drain.
CloseInv ==
  /\ \A k \in Closers : Active(k) => closeRequested /\ closeCodes = 0
  /\ \A j, k \in Closers : Active(j) /\ Active(k) => j = k
  /\ closeCodes <= 1
  /\ closeCodes = 1 => closeRequested
  /\ disposer \in {"none", "draining"} => closer[Disposer] = "idle"

\* No close has been requested of a new connection.
LEMMA CloseInit == Init => CloseInv
  BY PartiesAssumption DEF Init, CloseInv, Active

\* A step that leaves the close alone keeps its invariant.
LEMMA CloseFrame ==
  ASSUME CloseInv, UNCHANGED closeVars,
         disposer' \in {"none", "draining"} => disposer \in {"none", "draining"}
  PROVE  CloseInv'
  BY DEF CloseInv, closeVars, Active

\* The synchronous part of RequestCloseAsync, shared by its callers, keeps the invariant.
LEMMA BeginCloseStep ==
  ASSUME TypeOK, CloseInv, NEW k \in Closers, closer[k] = "idle", BeginClose(k),
         disposer' \in {"none", "draining"} => k # Disposer /\ disposer' = disposer
  PROVE  CloseInv'
<1>a. closer \in [Closers -> CloserStates] /\ closeCodes \in Nat
  BY DEF TypeOK
<1>1. CASE closeRequested
  BY <1>a, <1>1 DEF BeginClose, CloseInv, Active
<1>2. CASE ~closeRequested
  <2>1. closeCodes = 0 /\ \A j \in Closers : ~Active(j)
    BY <1>a, <1>2 DEF CloseInv
  <2> QED
    BY <1>a, <1>2, <2>1 DEF BeginClose, CloseInv, Active
<1> QED
  BY <1>1, <1>2

\* Every step keeps the invariant of the close, also a cancelled wait and an Abort.
LEMMA CloseStep == TypeOK /\ CloseInv /\ [Next]_vars => CloseInv'
<1> SUFFICES ASSUME TypeOK, CloseInv, [Next]_vars PROVE CloseInv'
  OBVIOUS
<1>a. closer \in [Closers -> CloserStates] /\ closeCodes \in Nat
  BY DEF TypeOK
<1>1. CASE TryEnqueueSaturated \/ (\E m \in Messages : TryEnqueueReserve(m)) \/ TryEnqueueWrite
  <2>1. /\ UNCHANGED closeVars
        /\ disposer' \in {"none", "draining"} => disposer \in {"none", "draining"}
    BY <1>1 DEF lifeVars, TryEnqueueSaturated, TryEnqueueReserve, TryEnqueueWrite
  <2> QED
    BY <2>1, CloseFrame
<1>2. CASE \/ SenderTake \/ SenderStop \/ SenderWaitCancelled \/ SenderBeginSend
           \/ SendCompleted \/ SendFailed \/ SenderRemoveQueued
  <2>1. /\ UNCHANGED closeVars
        /\ disposer' \in {"none", "draining"} => disposer \in {"none", "draining"}
    BY <1>2 DEF lifeVars, SenderTake, SenderStop, SenderWaitCancelled, SenderBeginSend, SendCompleted,
                SendFailed, SenderRemoveQueued
  <2> QED
    BY <2>1, CloseFrame
<1>3. ASSUME NEW k \in Closers, RequestClose(k) PROVE CloseInv'
  BY <1>3, BeginCloseStep DEF RequestClose, lifeVars
<1>4. ASSUME NEW k \in Closers, CloseGranted(k) PROVE CloseInv'
  BY <1>4, <1>a DEF CloseGranted, CloseInv, Active, lifeVars
<1>5. ASSUME NEW k \in Closers, CloseCompleted(k) \/ CloseFailed(k) PROVE CloseInv'
  <2>1. Active(k) /\ closeRequested /\ closeCodes = 0
    BY <1>5 DEF CloseCompleted, CloseFailed, CloseInv, Active
  <2>2. closer' = [closer EXCEPT ![k] = AfterRelease] /\ closeCodes' = closeCodes + 1
    BY <1>5, Zenon DEF CloseCompleted, CloseFailed
  <2>3. closeRequested' = closeRequested /\ disposer' = disposer
    BY <1>5 DEF CloseCompleted, CloseFailed, lifeVars
  <2>4. closeCodes' = 1 /\ AfterRelease \notin {"waiting", "closing"}
    BY <2>1, <2>2 DEF AfterRelease
  <2> QED
    BY <1>a, <2>1, <2>2, <2>3, <2>4 DEF CloseInv, Active
<1>6. ASSUME NEW k \in Closers, CloseWaitCancelled(k) \/ CloseSendCancelled(k) PROVE CloseInv'
  <2>1. Active(k) /\ closeCodes = 0
    BY <1>6 DEF CloseWaitCancelled, CloseSendCancelled, CloseInv, Active
  <2>2. PICK s \in {"threw", "cancelled"} : closer' = [closer EXCEPT ![k] = s]
    BY <1>6 DEF CloseWaitCancelled, CloseSendCancelled
  <2>3. closeCodes' = 0
    BY <1>6, <2>1 DEF CloseWaitCancelled, CloseSendCancelled
  <2>4. \A j \in Closers : ~Active(j)'
    BY <1>a, <2>1, <2>2 DEF CloseInv, Active
  <2>5. disposer' \in {"none", "draining"} => closer'[Disposer] = "idle"
    BY <1>6, <1>a, <2>1, <2>2 DEF CloseWaitCancelled, CloseSendCancelled, CloseInv, Active, lifeVars
  <2> QED
    BY <2>3, <2>4, <2>5 DEF CloseInv
<1>7. ASSUME NEW k \in Closers, Abort(k) PROVE CloseInv'
  <2>1. \A j \in Closers : Active(j)' => Active(j)
    BY <1>7, <1>a DEF Abort, Active
  <2>2. disposer' \in {"none", "draining"} => closer'[Disposer] = "idle"
    BY <1>7, <1>a, PartiesAssumption DEF Abort, CloseInv, lifeVars
  <2>3. CASE closeRequested
    BY <1>7, <2>1, <2>2, <2>3 DEF Abort, CloseInv
  <2>4. CASE ~closeRequested
    <3>1. closeCodes = 0 /\ \A j \in Closers : ~Active(j)
      BY <1>a, <2>4 DEF CloseInv
    <3>2. closeCodes' = 1 /\ closeRequested'
      BY <1>7, <2>4, <3>1 DEF Abort
    <3> QED
      BY <2>1, <2>2, <3>1, <3>2 DEF CloseInv
  <2> QED
    BY <2>3, <2>4
<1>8. CASE DisposeRequestClose
  <2>1. disposer = "draining" /\ disposer' \in {"closing", "disposing"}
    BY <1>8 DEF DisposeRequestClose
  <2>2. CASE UNCHANGED closeVars
    BY <2>1, <2>2, CloseFrame
  <2>3. CASE BeginClose(Disposer)
    <3>1. closer[Disposer] = "idle"
      BY <2>1 DEF CloseInv
    <3> QED
      BY <2>1, <2>3, <3>1, BeginCloseStep, PartiesAssumption
  <2> QED
    BY <1>8, <2>2, <2>3 DEF DisposeRequestClose
<1>9. CASE DisposeDrain \/ DisposeTransport \/ DisposeSendLock
  <2>1. /\ UNCHANGED closeVars
        /\ disposer' \in {"none", "draining"} => disposer \in {"none", "draining"}
    BY <1>9 DEF DisposeDrain, DisposeTransport, DisposeSendLock
  <2> QED
    BY <2>1, CloseFrame
<1>10. CASE PeerCloses \/ NetworkFails \/ \E p \in Parties : Cancel(p)
  <2>1. /\ UNCHANGED closeVars
        /\ disposer' \in {"none", "draining"} => disposer \in {"none", "draining"}
    BY <1>10 DEF lifeVars, PeerCloses, NetworkFails, Cancel
  <2> QED
    BY <2>1, CloseFrame
<1>11. CASE UNCHANGED vars
  <2>1. /\ UNCHANGED closeVars
        /\ disposer' \in {"none", "draining"} => disposer \in {"none", "draining"}
    BY <1>11 DEF vars, lifeVars
  <2> QED
    BY <2>1, CloseFrame
<1> QED
  BY <1>1, <1>2, <1>3, <1>4, <1>5, <1>6, <1>7, <1>8, <1>9, <1>10, <1>11 DEF Next

\* The inductive invariant of RequestCloseAsync, Abort and DisposeAsync holds in every state.
THEOREM CloseInvariant == Spec => []CloseInv
  BY TypeInit, TypeStep, CloseInit, CloseStep, PTL DEF Spec

\* A connection is counted under at most one close code, however its close calls
\* race, fail, are cancelled and are followed by Abort.
THEOREM CloseCodeRecordedOnce == Spec => []CloseCodeOnce
<1>1. CloseInv => CloseCodeOnce
  BY DEF CloseInv, CloseCodeOnce
<1> QED
  BY <1>1, CloseInvariant, PTL

-----------------------------------------------------------------------------
(* Order on the wire.                                                      *)

\* Messages the sender has taken off the channel and not yet written.
Held == IF sender \in {"waiting", "sending"} THEN 1 ELSE 0

\* Inductive strengthening of FifoDelivery: while the sender loop lives, what was
\* accepted is what was sent, the message in hand and the channel, in that order.
FifoInv ==
  /\ FifoDelivery
  /\ sender \in {"reading", "waiting", "sending", "removing"} =>
       /\ Len(accepted) = Len(sent) + Held + Len(outbound)
       /\ \A i \in 1..Len(outbound) : outbound[i] = accepted[Len(sent) + Held + i]
  /\ sender \in {"waiting", "sending"} => inflight[1] = accepted[Len(sent) + 1]
  /\ Len(accepted) <= Len(sent) + 1 + Len(outbound)

fifoState == <<accepted, sent, outbound, inflight, sender>>

\* A new connection has accepted, queued and sent nothing.
LEMMA FifoInit == Init => FifoInv
  BY DEF Init, FifoInv, FifoDelivery, Held

\* A step that leaves the messages alone keeps their order.
LEMMA FifoFrame == FifoInv /\ UNCHANGED fifoState => FifoInv'
  BY DEF FifoInv, FifoDelivery, Held, fifoState

\* Appending a one-element sequence, by index.
LEMMA AppendIndex ==
  ASSUME NEW s \in Seq(Messages), NEW t \in Seq(Messages), Len(t) = 1
  PROVE  /\ s \o t \in Seq(Messages) /\ Len(s \o t) = Len(s) + 1
         /\ \A i \in 1..Len(s) : (s \o t)[i] = s[i]
         /\ (s \o t)[Len(s) + 1] = t[1]
<1>1. Len(s) \in Nat
  OBVIOUS
<1> QED
  BY <1>1, ConcatProperties

\* The tail of a sequence, by index.
LEMMA TailIndex ==
  ASSUME NEW s \in Seq(Messages), s # <<>>
  PROVE  /\ Tail(s) \in Seq(Messages) /\ Len(s) >= 1 /\ Len(Tail(s)) = Len(s) - 1 /\ Head(s) = s[1]
         /\ \A i \in 1..Len(Tail(s)) : Tail(s)[i] = s[i + 1]
  BY HeadTailProperties

\* Every step keeps the order: TryEnqueue appends to the channel, the sender takes its head
\* and writes it before it takes the next.
LEMMA FifoStep == TypeOK /\ QueueInv /\ FifoInv /\ [Next]_vars => FifoInv'
<1> SUFFICES ASSUME TypeOK, QueueInv, FifoInv, [Next]_vars PROVE FifoInv'
  OBVIOUS
<1>a. /\ outbound \in Seq(Messages) /\ inflight \in Seq(Messages) /\ writing \in Seq(Messages)
      /\ accepted \in Seq(Messages) /\ sent \in Seq(Messages)
  BY DEF TypeOK
<1>b. Len(sent) \in Nat /\ Len(accepted) \in Nat /\ Len(outbound) \in Nat /\ Held \in 0..1
  BY <1>a DEF Held
<1>1. CASE TryEnqueueSaturated \/ \E m \in Messages : TryEnqueueReserve(m)
  <2>1. UNCHANGED fifoState
    BY <1>1 DEF fifoState, senderVars, TryEnqueueSaturated, TryEnqueueReserve
  <2> QED
    BY <2>1, FifoFrame
<1>2. CASE TryEnqueueWrite
  <2>1. CASE completed \/ Len(outbound) >= Capacity
    <3>1. UNCHANGED fifoState
      BY <1>2, <2>1 DEF fifoState, senderVars, TryEnqueueWrite
    <3> QED
      BY <3>1, FifoFrame
  <2>2. CASE ~(completed \/ Len(outbound) >= Capacity)
    <3>1. /\ outbound' = outbound \o writing /\ accepted' = accepted \o writing
          /\ UNCHANGED senderVars
      BY <1>2, <2>2, Zenon DEF TryEnqueueWrite
    <3>2. Len(writing) = 1
      <4>1. Len(writing) <= 1
        BY DEF QueueInv
      <4>2. Len(writing) \in Nat \ {0}
        BY <1>2, <1>a, EmptySeq DEF TryEnqueueWrite
      <4>3. \A n \in Nat \ {0} : n <= 1 => n = 1
        OBVIOUS
      <4> QED
        BY <4>1, <4>2, <4>3, Zenon
    <3>3. /\ Len(outbound') = Len(outbound) + 1 /\ Len(accepted') = Len(accepted) + 1
          /\ outbound'[Len(outbound) + 1] = accepted'[Len(accepted) + 1]
      BY <1>a, <3>1, <3>2, AppendIndex
    <3>4. /\ \A i \in 1..Len(outbound) : outbound'[i] = outbound[i]
          /\ \A i \in 1..Len(accepted) : accepted'[i] = accepted[i]
      BY <1>a, <3>1, <3>2, AppendIndex
    <3>5. UNCHANGED <<sender, sent, inflight, Held>>
      BY <3>1 DEF senderVars, Held
    <3>6. FifoDelivery'
      BY <1>b, <3>3, <3>4, <3>5 DEF FifoInv, FifoDelivery
    <3>7. ASSUME sender \in {"reading", "waiting", "sending", "removing"}
          PROVE  \A i \in 1..Len(outbound') : outbound'[i] = accepted'[Len(sent) + Held + i]
      <4>1. Len(accepted) = Len(sent) + Held + Len(outbound)
        BY <3>7 DEF FifoInv
      <4>2. \A i \in 1..Len(outbound) : outbound[i] = accepted[Len(sent) + Held + i]
        BY <3>7 DEF FifoInv
      <4>3. outbound'[Len(outbound) + 1] = accepted'[Len(sent) + Held + Len(outbound) + 1]
        BY <1>b, <3>3, <4>1
      <4>4. ASSUME NEW i \in 1..Len(outbound)
            PROVE  outbound'[i] = accepted'[Len(sent) + Held + i]
        <5>1. Len(sent) + Held + i \in 1..Len(accepted)
          BY <1>b, <4>1
        <5> QED
          BY <3>4, <4>2, <5>1
      <4>5. \A i \in 1..Len(outbound') : i \in 1..Len(outbound) \/ i = Len(outbound) + 1
        BY <1>b, <3>3
      <4>6. Len(sent) + Held + (Len(outbound) + 1) = Len(sent) + Held + Len(outbound) + 1
        BY <1>b
      <4> QED
        BY <4>3, <4>4, <4>5, <4>6
    <3>8. sender \in {"waiting", "sending"} => inflight[1] = accepted'[Len(sent) + 1]
      <4>1. sender \in {"waiting", "sending"} => Held = 1
        BY DEF Held
      <4> QED
        BY <1>b, <3>4, <4>1 DEF FifoInv
    <3> QED
      BY <1>b, <3>3, <3>5, <3>6, <3>7, <3>8 DEF FifoInv
  <2> QED
    BY <2>1, <2>2
<1>3. CASE SenderTake
  <2>1. /\ sender = "reading" /\ outbound # <<>> /\ sender' \in {"waiting", "removingLast"}
        /\ inflight' = <<Head(outbound)>> /\ outbound' = Tail(outbound)
        /\ UNCHANGED <<accepted, sent>>
    BY <1>3 DEF SenderTake
  <2>2. /\ Len(outbound) >= 1 /\ Len(outbound') = Len(outbound) - 1 /\ inflight'[1] = outbound[1]
        /\ \A i \in 1..Len(outbound') : outbound'[i] = outbound[i + 1]
    BY <1>a, <2>1, TailIndex
  <2>3. Held = 0 /\ (sender' = "waiting" => Held' = 1)
    BY <2>1 DEF Held
  <2>4. /\ Len(accepted) = Len(sent) + Len(outbound)
        /\ \A i \in 1..Len(outbound) : outbound[i] = accepted[Len(sent) + i]
    BY <1>b, <2>1, <2>3 DEF FifoInv
  <2>5. inflight'[1] = accepted[Len(sent) + 1]
    BY <1>b, <2>2, <2>4
  <2>6. \A i \in 1..Len(outbound') : outbound'[i] = accepted[Len(sent) + 1 + i]
    BY <1>b, <2>2, <2>4
  <2>7. FifoDelivery'
    BY <2>1 DEF FifoInv, FifoDelivery
  <2>8. /\ Len(accepted') = Len(sent') + 1 + Len(outbound')
        /\ Len(accepted') <= Len(sent') + 1 + Len(outbound')
    BY <1>b, <2>1, <2>2, <2>4
  <2>9. CASE sender' = "waiting"
    BY <2>1, <2>3, <2>5, <2>6, <2>7, <2>8, <2>9 DEF FifoInv
  <2>10. CASE sender' = "removingLast"
    BY <2>7, <2>8, <2>10 DEF FifoInv
  <2> QED
    BY <2>1, <2>9, <2>10
<1>4. CASE SenderStop \/ SenderWaitCancelled
  BY <1>4, <1>a DEF SenderStop, SenderWaitCancelled, queueVars, FifoInv, FifoDelivery
<1>5. CASE SenderBeginSend
  BY <1>5, <1>a DEF SenderBeginSend, queueVars, FifoInv, FifoDelivery, Held
<1>6. CASE SendCompleted
  <2>1. /\ sender = "sending" /\ sent' = sent \o inflight /\ sender' \in {"done", "removing"}
        /\ UNCHANGED <<inflight, accepted, outbound>>
    BY <1>6 DEF SendCompleted, queueVars
  <2>2. Len(inflight) = 1
    BY <2>1 DEF QueueInv
  <2>3. /\ Len(sent') = Len(sent) + 1 /\ sent'[Len(sent) + 1] = inflight[1]
        /\ \A i \in 1..Len(sent) : sent'[i] = sent[i]
    BY <1>a, <2>1, <2>2, AppendIndex
  <2>4. Held = 1 /\ Held' = 0
    BY <2>1 DEF Held
  <2>5. /\ Len(accepted) = Len(sent) + 1 + Len(outbound) /\ inflight[1] = accepted[Len(sent) + 1]
        /\ \A i \in 1..Len(outbound) : outbound[i] = accepted[Len(sent) + 1 + i]
    BY <2>1, <2>4 DEF FifoInv
  <2>6. FifoDelivery'
    BY <1>b, <2>1, <2>3, <2>5 DEF FifoInv, FifoDelivery
  <2>7. /\ Len(accepted') = Len(sent') + Held' + Len(outbound')
        /\ Len(accepted') <= Len(sent') + 1 + Len(outbound')
    BY <1>b, <2>1, <2>3, <2>4, <2>5
  <2>8. \A i \in 1..Len(outbound') : outbound'[i] = accepted'[Len(sent') + Held' + i]
    <3>1. Len(sent') + Held' = Len(sent) + 1
      BY <1>b, <2>3, <2>4
    <3> QED
      BY <2>1, <2>5, <3>1
  <2> QED
    BY <2>1, <2>6, <2>7, <2>8 DEF FifoInv
<1>7. CASE SendFailed
  BY <1>7, <1>a DEF SendFailed, queueVars, FifoInv, FifoDelivery
<1>8. CASE SenderRemoveQueued
  BY <1>8, <1>a DEF SenderRemoveQueued, FifoInv, FifoDelivery, Held
<1>9. ASSUME NEW k \in Closers,
             RequestClose(k) \/ CloseGranted(k) \/ CloseCompleted(k) \/ CloseFailed(k)
               \/ CloseWaitCancelled(k) \/ CloseSendCancelled(k) \/ Abort(k)
      PROVE  FifoInv'
  <2>1. UNCHANGED fifoState
    BY <1>9 DEF fifoState, senderVars, queueVars, RequestClose, CloseGranted, CloseCompleted,
                CloseFailed, CloseWaitCancelled, CloseSendCancelled, Abort
  <2> QED
    BY <2>1, FifoFrame
<1>10. CASE DisposeDrain \/ DisposeRequestClose \/ DisposeTransport \/ DisposeSendLock
  <2>1. UNCHANGED fifoState
    BY <1>10 DEF fifoState, senderVars, queueVars, DisposeDrain, DisposeRequestClose,
                 DisposeTransport, DisposeSendLock
  <2> QED
    BY <2>1, FifoFrame
<1>11. CASE PeerCloses \/ NetworkFails \/ \E p \in Parties : Cancel(p)
  <2>1. UNCHANGED fifoState
    BY <1>11 DEF fifoState, senderVars, queueVars, PeerCloses, NetworkFails, Cancel
  <2> QED
    BY <2>1, FifoFrame
<1>12. CASE UNCHANGED vars
  <2>1. UNCHANGED fifoState
    BY <1>12 DEF fifoState, vars, senderVars, queueVars
  <2> QED
    BY <2>1, FifoFrame
<1> QED
  BY <1>1, <1>2, <1>3, <1>4, <1>5, <1>6, <1>7, <1>8, <1>9, <1>10, <1>11, <1>12 DEF Next

\* In every state the messages accepted are, while the sender runs, those sent, the one in
\* hand and those in the channel, in that order.
THEOREM FifoInvariant == Spec => []FifoInv
  BY TypeInit, TypeStep, QueueInit, QueueStep, FifoInit, FifoStep, PTL DEF Spec

\* Messages reach the wire in the order they were accepted, for every queue size
\* and every pattern of failed sends, cancelled closes and disposal.
THEOREM DeliveryInOrder == Spec => []FifoDelivery
<1>1. FifoInv => FifoDelivery
  BY DEF FifoInv
<1> QED
  BY <1>1, FifoInvariant, PTL

-----------------------------------------------------------------------------
(* The close frame is final, and the connection implements the queue.      *)

\* A socket that has carried a close frame, or that DisposeAsync has disposed
\* before the lock, carries nothing more.
WireInv ==
  /\ closeFrames > 0 => ~Writable
  /\ disposer \in {"unlocking", "disposed"} => transport = "Disposed"
  /\ sendLockDisposed => transport = "Disposed"

wireState == <<transport, closeFrames, disposer, sendLockDisposed>>

\* A new connection has sent no close frame and its transport is usable.
LEMMA WireInit == Init => WireInv
  BY DEF Init, WireInv

\* A step that leaves the transport and its disposal alone keeps the invariant.
LEMMA WireFrame == WireInv /\ UNCHANGED wireState => WireInv'
  BY DEF WireInv, wireState, Writable

\* Every step keeps it: a close frame is written once, and the transport is disposed before
\* the send lock.
LEMMA WireStep == TypeOK /\ WireInv /\ [Next]_vars => WireInv'
<1> SUFFICES ASSUME TypeOK, WireInv, [Next]_vars PROVE WireInv'
  OBVIOUS
<1>a. closeFrames \in Nat
  BY DEF TypeOK
<1> USE DEF wireVars, lockVars, lifeVars
<1>1. CASE TryEnqueueSaturated \/ (\E m \in Messages : TryEnqueueReserve(m)) \/ TryEnqueueWrite
  <2>1. UNCHANGED wireState
    BY <1>1 DEF wireState, TryEnqueueSaturated, TryEnqueueReserve, TryEnqueueWrite
  <2> QED
    BY <2>1, WireFrame
<1>2. CASE \/ SenderTake \/ SenderStop \/ SenderWaitCancelled \/ SenderBeginSend
           \/ SendCompleted \/ SenderRemoveQueued
  <2>1. UNCHANGED wireState
    BY <1>2 DEF wireState, SenderTake, SenderStop, SenderWaitCancelled, SenderBeginSend,
                SendCompleted, SenderRemoveQueued
  <2> QED
    BY <2>1, WireFrame
<1>3. CASE SendFailed
  BY <1>3 DEF SendFailed, WireInv, Writable
<1>4. ASSUME NEW k \in Closers, RequestClose(k) \/ CloseGranted(k) \/ CloseWaitCancelled(k)
      PROVE  WireInv'
  <2>1. UNCHANGED wireState
    BY <1>4 DEF wireState, RequestClose, CloseGranted, CloseWaitCancelled
  <2> QED
    BY <2>1, WireFrame
<1>5. ASSUME NEW k \in Closers, CloseCompleted(k) PROVE WireInv'
  BY <1>5, <1>a DEF CloseCompleted, WireInv, Writable
<1>6. ASSUME NEW k \in Closers, CloseFailed(k) \/ CloseSendCancelled(k) PROVE WireInv'
  BY <1>6 DEF CloseFailed, CloseSendCancelled, WireInv, Writable
<1>7. ASSUME NEW k \in Closers, Abort(k) PROVE WireInv'
  BY <1>7 DEF Abort, WireInv, Writable
<1>8. CASE DisposeDrain
  BY <1>8 DEF DisposeDrain, WireInv, Writable
<1>9. CASE DisposeRequestClose
  BY <1>9 DEF DisposeRequestClose, WireInv, Writable
<1>10. CASE DisposeTransport
  BY <1>10 DEF DisposeTransport, WireInv, Writable
<1>11. CASE DisposeSendLock
  BY <1>11 DEF DisposeSendLock, WireInv, Writable
<1>12. CASE PeerCloses \/ NetworkFails
  BY <1>12 DEF PeerCloses, NetworkFails, WireInv, Writable
<1>13. ASSUME NEW p \in Parties, Cancel(p) PROVE WireInv'
  BY <1>13 DEF Cancel, WireInv, Writable
<1>14. CASE UNCHANGED vars
  BY <1>14, WireFrame DEF vars, wireState
<1> QED
  BY <1>1, <1>2, <1>3, <1>4, <1>5, <1>6, <1>7, <1>8, <1>9, <1>10, <1>11, <1>12, <1>13, <1>14
  DEF Next

\* Concatenating a one-element sequence is appending its element.
LEMMA AppendOne ==
  ASSUME NEW s \in Seq(Messages), NEW t \in Seq(Messages), Len(t) = 1
  PROVE  t[1] \in Messages /\ s \o t = Append(s, t[1])
<1>1. t[1] \in Messages /\ Len(s) \in Nat
  OBVIOUS
<1>2. /\ s \o t \in Seq(Messages) /\ Len(s \o t) = Len(s) + 1
      /\ \A i \in 1..Len(s) : (s \o t)[i] = s[i]
      /\ (s \o t)[Len(s) + 1] = t[1]
  BY AppendIndex
<1>3. /\ Append(s, t[1]) \in Seq(Messages) /\ Len(Append(s, t[1])) = Len(s) + 1
      /\ \A i \in 1..Len(s) : Append(s, t[1])[i] = s[i]
      /\ Append(s, t[1])[Len(s) + 1] = t[1]
  BY <1>1, AppendProperties
<1>4. \A i \in 1..Len(s \o t) : i \in 1..Len(s) \/ i = Len(s) + 1
  BY <1>1, <1>2
<1>5. \A i \in 1..Len(s \o t) : (s \o t)[i] = Append(s, t[1])[i]
  BY <1>2, <1>3, <1>4
<1> QED
  BY <1>1, <1>2, <1>3, <1>5, SeqEqual

\* A new connection maps to an empty abstract queue.
LEMMA QueueRefinementInit == Init => Queue!AQInit
  BY DEF Init, Queue!AQInit

\* Every step of the connection maps to a step of the abstract queue or changes nothing
\* of it.
LEMMA QueueRefinementStep ==
  TypeOK /\ QueueInv /\ FifoInv /\ WireInv /\ [Next]_vars => [Queue!AQNext]_Queue!aqVars
<1> SUFFICES ASSUME TypeOK, QueueInv, FifoInv, WireInv, [Next]_vars
             PROVE  [Queue!AQNext]_Queue!aqVars
  OBVIOUS
<1>a. /\ outbound \in Seq(Messages) /\ inflight \in Seq(Messages) /\ writing \in Seq(Messages)
      /\ accepted \in Seq(Messages) /\ sent \in Seq(Messages)
      /\ Len(accepted) \in Nat /\ Len(sent) \in Nat /\ Len(outbound) \in Nat
      /\ closeFrames \in Nat
  BY DEF TypeOK
<1> USE DEF Queue!aqVars
<1>1. CASE TryEnqueueSaturated \/ \E m \in Messages : TryEnqueueReserve(m)
  BY <1>1 DEF TryEnqueueSaturated, TryEnqueueReserve, senderVars, wireVars
<1>2. CASE TryEnqueueWrite
  <2>1. CASE completed \/ Len(outbound) >= Capacity
    BY <1>2, <2>1 DEF TryEnqueueWrite, senderVars, wireVars
  <2>2. CASE ~(completed \/ Len(outbound) >= Capacity)
    <3>1. accepted' = accepted \o writing /\ UNCHANGED <<sent, sender, closeFrames>>
      BY <1>2, <2>2, Zenon DEF TryEnqueueWrite, senderVars, wireVars
    <3>2. Len(writing) = 1
      <4>1. Len(writing) <= 1
        BY DEF QueueInv
      <4>2. Len(writing) \in Nat \ {0}
        BY <1>2, <1>a, EmptySeq DEF TryEnqueueWrite
      <4>3. \A n \in Nat \ {0} : n <= 1 => n = 1
        OBVIOUS
      <4> QED
        BY <4>1, <4>2, <4>3, Zenon
    <3>3. writing[1] \in Messages /\ accepted' = Append(accepted, writing[1])
      BY <1>a, <3>1, <3>2, AppendOne
    <3>4. Len(accepted) - Len(sent) < Capacity + 1
      <4>1. Len(outbound) < Capacity
        BY <1>a, <2>2
      <4>2. Len(accepted) <= Len(sent) + 1 + Len(outbound)
        BY DEF FifoInv
      <4> QED
        BY <1>a, <4>1, <4>2
    <3>5. Queue!Accept
      BY <3>1, <3>3, <3>4 DEF Queue!Accept
    <3> QED
      BY <3>5 DEF Queue!AQNext
  <2> QED
    BY <2>1, <2>2
<1>3. CASE SenderTake
  <2>1. sender = "reading" /\ sender' \in {"waiting", "removingLast"} /\ UNCHANGED <<accepted, sent, closeFrames>>
    BY <1>3 DEF SenderTake, wireVars
  <2>2. CASE sender' = "waiting"
    BY <2>1, <2>2
  <2>3. CASE sender' = "removingLast"
    BY <2>1, <2>3 DEF Queue!AQNext, Queue!Stop
  <2> QED
    BY <2>1, <2>2, <2>3
<1>4. CASE SenderStop \/ SenderWaitCancelled
  BY <1>4 DEF SenderStop, SenderWaitCancelled, queueVars, wireVars, Queue!AQNext, Queue!Stop
<1>5. CASE SenderBeginSend
  <2>1. /\ sender = "waiting" /\ sender' \in {"sending", "removingLast", "done"}
        /\ UNCHANGED <<accepted, sent, closeFrames>>
    BY <1>5 DEF SenderBeginSend, queueVars, wireVars
  <2>2. CASE sender' = "sending"
    BY <2>1, <2>2
  <2>3. CASE sender' \in {"removingLast", "done"}
    BY <2>1, <2>3 DEF Queue!AQNext, Queue!Stop
  <2> QED
    BY <2>1, <2>2, <2>3
<1>6. CASE SendCompleted
  <2>1. sender = "sending" /\ sent' = sent \o inflight /\ UNCHANGED <<accepted, closeFrames>>
    BY <1>6 DEF SendCompleted, queueVars, wireVars
  <2>2. Writable /\ ~(closeFrames > 0) /\ ~sendLockDisposed
    BY <1>6 DEF SendCompleted, WireInv, Writable
  <2>3. sender' = "removing"
    BY <1>6, <2>2 DEF SendCompleted
  <2>4. Len(inflight) = 1
    BY <2>1 DEF QueueInv
  <2>5. /\ inflight[1] = accepted[Len(sent) + 1]
        /\ Len(accepted) = Len(sent) + 1 + Len(outbound)
    BY <2>1 DEF FifoInv, Held
  <2>6. sent' = Append(sent, accepted[Len(sent) + 1])
    BY <1>a, <2>1, <2>4, <2>5, AppendOne
  <2>7. Len(sent) < Len(accepted)
    BY <1>a, <2>5
  <2>8. Queue!Deliver
    BY <2>1, <2>2, <2>3, <2>6, <2>7 DEF Queue!Deliver
  <2> QED
    BY <2>8 DEF Queue!AQNext
<1>7. CASE SendFailed
  <2>1. /\ sender = "sending" /\ sender' \in {"removingLast", "done"}
        /\ UNCHANGED <<accepted, sent, closeFrames>>
    BY <1>7 DEF SendFailed, queueVars
  <2> QED
    BY <2>1 DEF Queue!AQNext, Queue!Stop
<1>8. CASE SenderRemoveQueued
  BY <1>8 DEF SenderRemoveQueued, wireVars
<1>9. ASSUME NEW k \in Closers, CloseCompleted(k) PROVE [Queue!AQNext]_Queue!aqVars
  <2>1. UNCHANGED <<accepted, sent, sender>> /\ closeFrames' \in {closeFrames, closeFrames + 1}
    BY <1>9 DEF CloseCompleted, queueVars, senderVars, wireVars
  <2>2. CASE (closeFrames' > 0) = (closeFrames > 0)
    BY <2>1, <2>2
  <2>3. CASE ~(closeFrames > 0) /\ closeFrames' > 0
    BY <2>1, <2>3 DEF Queue!AQNext, Queue!Close
  <2> QED
    BY <1>a, <2>1, <2>2, <2>3
<1>10. ASSUME NEW k \in Closers,
              RequestClose(k) \/ CloseGranted(k) \/ CloseFailed(k) \/ CloseWaitCancelled(k)
                \/ CloseSendCancelled(k) \/ Abort(k)
       PROVE  [Queue!AQNext]_Queue!aqVars
  BY <1>10 DEF RequestClose, CloseGranted, CloseFailed, CloseWaitCancelled, CloseSendCancelled,
               Abort, queueVars, senderVars, wireVars
<1>11. CASE DisposeDrain \/ DisposeRequestClose \/ DisposeTransport \/ DisposeSendLock
  BY <1>11 DEF DisposeDrain, DisposeRequestClose, DisposeTransport, DisposeSendLock,
               queueVars, senderVars, wireVars
<1>12. CASE PeerCloses \/ NetworkFails \/ \E p \in Parties : Cancel(p)
  BY <1>12 DEF PeerCloses, NetworkFails, Cancel, queueVars, senderVars, wireVars
<1>13. CASE UNCHANGED vars
  BY <1>13 DEF vars, queueVars, senderVars, wireVars
<1> QED
  BY <1>1, <1>2, <1>3, <1>4, <1>5, <1>6, <1>7, <1>8, <1>9, <1>10, <1>11, <1>12, <1>13 DEF Next

\* The connection implements the abstract queue for every capacity and every set
\* of close calls.
THEOREM QueueImplemented == Spec => ImplementsQueue
<1>1. Spec => [](TypeOK /\ QueueInv /\ FifoInv /\ WireInv)
  BY TypeInit, TypeStep, QueueInit, QueueStep, FifoInit, FifoStep, WireInit, WireStep, PTL DEF Spec
<1> QED
  BY <1>1, QueueRefinementInit, QueueRefinementStep, PTL DEF Spec, ImplementsQueue, Queue!AQSpec
===============================================================================
