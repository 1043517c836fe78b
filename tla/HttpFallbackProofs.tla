-------------------------- MODULE HttpFallbackProofs --------------------------
(***************************************************************************)
(* What TLAPS proves of a fallback connection, for any number of polls and *)
(* payloads: it has one receiver at a time, what counts as sent was handed *)
(* over in order, and no command loses its connection to a close.          *)
(***************************************************************************)
EXTENDS HttpFallback, TLAPS

Receiving(r) == request[r] \in {"reading", "writing"}

TypeOK ==
  /\ current \in 0..MaxPayloads /\ sentOk \in SUBSET Payloads
  /\ sender \in {"none", "reading", "locking", "checking", "publishing", "published", "writing",
                 "awaiting", "ended"}
  /\ handed \in Seq(Payloads) /\ channel \in {<<>>, <<current>>}
  /\ consumed \in [Payloads -> {"waiting", "completed", "cancelled"}]
  /\ request \in [Requests -> {"idle", "reading", "writing", "ended"}]
  /\ reading \in [Requests -> 0..MaxPayloads]

\* _receiverMode tells who is receiving.
ReceiverInv ==
  /\ \A r \in Requests : Receiving(r) => receiverMode = IF r = Stream THEN 2 ELSE 1
  /\ \A r, s \in Requests : Receiving(r) /\ Receiving(s) => r = s

\* The payload being sent is the one after those handed over, until a request takes it;
\* what is consumed has been taken.
HandedInv ==
  /\ run \in {"creating", "registering"} => sender = "none"
  /\ channel = <<current>> => sender \in {"awaiting", "ended"} /\ current = Len(handed) + 1
  /\ sender \in {"none", "reading"} => current = Len(handed)
  /\ sender \in {"locking", "checking", "publishing", "published", "writing"} =>
       current = Len(handed) + 1
  /\ sender = "awaiting" => current \in Payloads
  /\ sender = "awaiting" /\ channel = <<>> => current = Len(handed)
  /\ \A i \in DOMAIN handed : handed[i] = i
  /\ \A r \in Requests : request[r] = "writing" => reading[r] \in 1..Len(handed)
  /\ \A n \in Payloads : consumed[n] = "completed" \/ n \in sentOk => n <= Len(handed)

\* A command holds the gate of a connection that the manager lists.
CommandInv ==
  /\ run = "creating" => ~entry /\ core = "none" /\ command = "idle"
  /\ entry => core = "none"
  /\ command = "dispatching" => Created /\ entry /\ gate = "command"

\* Nothing that the payload bookkeeping depends on moves; a wait may be cancelled.
Quiet ==
  /\ UNCHANGED <<channel, current, sender, handed, request, reading, sentOk>>
  /\ consumed' \in [Payloads -> {"waiting", "completed", "cancelled"}]
  /\ \A n \in Payloads : consumed'[n] = "completed" => consumed[n] = "completed"
  /\ run' \in {"creating", "registering"} => run \in {"creating", "registering"}

\* A quiet step keeps the payload bookkeeping.
LEMMA QuietStep ==
  ASSUME TypeOK, HandedInv, Quiet
  PROVE  TypeOK' /\ HandedInv'
<1>1. TypeOK'
  BY DEF TypeOK, Quiet
<1>2. HandedInv'
  BY DEF TypeOK, HandedInv, Quiet
<1> QED
  BY <1>1, <1>2

\* Cancelling a wait completes none.
LEMMA CancelledCompletesNone ==
  ASSUME TypeOK, NEW k
  PROVE  /\ Cancelled(k) \in [Payloads -> {"waiting", "completed", "cancelled"}]
         /\ \A n \in Payloads : Cancelled(k)[n] = "completed" => consumed[n] = "completed"
  BY DEF TypeOK, Cancelled

\* Closing the transport leaves the channel's content, and completes no wait.
LEMMA CloseTransportQuiet ==
  ASSUME TypeOK, CloseTransport
  PROVE  /\ channel' = channel
         /\ consumed' \in [Payloads -> {"waiting", "completed", "cancelled"}]
         /\ \A n \in Payloads : consumed'[n] = "completed" => consumed[n] = "completed"
<1>1. CASE consumed' = Cancelled(pending)
  BY <1>1, CancelledCompletesNone DEF CloseTransport
<1>2. CASE consumed' = consumed
  BY <1>2 DEF CloseTransport, TypeOK
<1> QED
  BY <1>1, <1>2 DEF CloseTransport

\* The closers, the manager, the commands and the background task are quiet.
LEMMA OthersQuiet ==
  ASSUME TypeOK,
         \/ CreateEntry \/ RegistryRequestsClose \/ ManagerRuns
         \/ \E k \in Closers : CloserRuns(k) \/ CloseCancelled(k)
         \/ \E c \in Callers : CloseCall(c)
         \/ CommandBegins \/ CommandEnds \/ CommandCloses \/ ClientRequestsClose
         \/ ReceiverAttached \/ RunCloses \/ RunEnds \/ BecomesIdle
         \/ UNCHANGED vars
  PROVE  Quiet
<1> USE DEF vars, transportVars, senderVars, lockVars, closeVars, managerVars, receiverVars, runVars
<1>1. CASE CreateEntry \/ RegistryRequestsClose
  BY <1>1 DEF TypeOK, Quiet, CreateEntry, RegistryRequestsClose
<1>2. CASE CoreRequestsClose \/ CoreDisposes \/ CoreDisposesLock
  BY <1>2 DEF TypeOK, Quiet, CoreRequestsClose, CoreDisposes, CoreDisposesLock
<1>3. CASE CoreDisposesTransport
  BY <1>3, CloseTransportQuiet DEF Quiet, CoreDisposesTransport
<1>4. ASSUME NEW k \in Closers,
             CancelFlag(k) \/ CloseLock(k) \/ CloseGranted(k) \/ CloseCancelled(k)
      PROVE  Quiet
  BY <1>4 DEF TypeOK, Quiet, CancelFlag, CloseLock, CloseGranted, CloseCancelled
<1>5. ASSUME NEW k \in Closers, CancelExchange(k)
      PROVE  Quiet
  <2>1. CASE consumed' = consumed
    BY <1>5, <2>1 DEF TypeOK, Quiet, CancelExchange
  <2>2. CASE consumed' = Cancelled(pending)
    BY <1>5, <2>2, CancelledCompletesNone DEF Quiet, CancelExchange
  <2> QED
    BY <1>5, <2>1, <2>2 DEF CancelExchange
<1>6. ASSUME NEW k \in Closers, CloseEnds(k)
      PROVE  Quiet
  BY <1>6, CloseTransportQuiet DEF Quiet, CloseEnds
<1>7. ASSUME NEW k \in Closers, Abort(k)
      PROVE  Quiet
  <2>1. CASE closeRequested
    BY <1>7, <2>1 DEF TypeOK, Quiet, Abort
  <2>2. CASE ~closeRequested
    BY <1>7, <2>2, CloseTransportQuiet DEF Quiet, Abort
  <2> QED
    BY <2>1, <2>2
<1>8. ASSUME NEW c \in Callers, CloseCall(c)
      PROVE  Quiet
  BY <1>8 DEF TypeOK, Quiet, CloseCall
<1>9. CASE CommandBegins \/ CommandEnds \/ CommandCloses \/ ClientRequestsClose
  BY <1>9 DEF TypeOK, Quiet, CommandBegins, CommandEnds, CommandCloses, ClientRequestsClose
<1>10. CASE ReceiverAttached \/ RunCloses \/ RunEnds \/ BecomesIdle
  BY <1>10 DEF TypeOK, Quiet, ReceiverAttached, RunCloses, RunEnds, BecomesIdle
<1>11. CASE UNCHANGED vars
  BY <1>11 DEF TypeOK, Quiet
<1> QED
  BY <1>1, <1>2, <1>3, <1>4, <1>5, <1>6, <1>7, <1>8, <1>9, <1>10, <1>11
  DEF ManagerRuns, CloserRuns

\* The sender takes one payload after another and puts each into the channel once.
LEMMA SenderHands ==
  ASSUME HttpFallbackAssumption, TypeOK, HandedInv, SenderTake \/ SenderRuns \/ CreateRegisters
  PROVE  TypeOK' /\ HandedInv'
<1> USE DEF transportVars, senderVars, lockVars, closeVars, managerVars, receiverVars, runVars
<1> USE DEF HttpFallbackAssumption
<1>1. CASE SenderTake
  <2>1. current' = current + 1 /\ current' \in 0..MaxPayloads /\ channel = <<>>
    BY <1>1 DEF SenderTake, TypeOK, HandedInv
  <2>2. sender' \in {"checking", "locking"}
        /\ UNCHANGED <<channel, handed, request, reading, sentOk, consumed, run>>
    BY <1>1 DEF SenderTake
  <2>3. channel' # <<current'>>
    BY <2>1, <2>2
  <2> QED
    BY <1>1, <2>1, <2>2, <2>3 DEF SenderTake, TypeOK, HandedInv
<1>2. CASE SenderStop \/ SenderGranted \/ SendCheck \/ SendPublish
  <2>1. UNCHANGED <<channel, current, handed, request, reading, sentOk, consumed, run>>
    BY <1>2 DEF SenderStop, SenderGranted, SendCheck, SendPublish
  <2>2. sender' \in {"checking", "publishing", "published", "ended"}
    BY <1>2 DEF SenderStop, SenderGranted, SendCheck, SendPublish
  <2>3. sender' # "ended" => sender \in {"locking", "checking", "publishing"}
    BY <1>2 DEF SenderStop, SenderGranted, SendCheck, SendPublish
  <2>4. sender \in {"reading", "locking", "checking", "publishing"}
    BY <1>2 DEF SenderStop, SenderGranted, SendCheck, SendPublish
  <2> QED
    BY <2>1, <2>2, <2>3, <2>4 DEF TypeOK, HandedInv
<1>3. CASE SendRecheck
  <2>1. UNCHANGED <<channel, current, handed, request, reading, sentOk, run>>
        /\ sender = "published" /\ sender' = "writing"
    BY <1>3 DEF SendRecheck
  <2>2. /\ consumed' \in [Payloads -> {"waiting", "completed", "cancelled"}]
        /\ \A n \in Payloads : consumed'[n] = "completed" => consumed[n] = "completed"
    <3>1. CASE pendingCancelled
      BY <1>3, <3>1, CancelledCompletesNone DEF SendRecheck
    <3>2. CASE ~pendingCancelled
      BY <1>3, <3>2 DEF SendRecheck, TypeOK
    <3> QED
      BY <3>1, <3>2
  <2> QED
    BY <2>1, <2>2 DEF TypeOK, HandedInv
<1>4. CASE SendWrite
  <2>1. UNCHANGED <<current, handed, request, reading, sentOk, consumed, run>>
        /\ sender = "writing" /\ sender' = "awaiting" /\ channel' = <<current>>
    BY <1>4 DEF SendWrite
  <2>2. Len(handed) \in Nat /\ current = Len(handed) + 1 /\ current \in Payloads
    BY <2>1 DEF TypeOK, HandedInv, Payloads
  <2>3. channel' # <<>>
    BY <2>1
  <2> QED
    BY <2>1, <2>2, <2>3 DEF TypeOK, HandedInv
<1>5. CASE SendSucceeds
  <2>1. UNCHANGED <<channel, current, handed, request, reading, consumed, run>>
        /\ sender = "awaiting" /\ sender' \in {"ended", "reading"}
        /\ consumed[current] = "completed" /\ sentOk' = sentOk \cup {current}
    BY <1>5 DEF SendSucceeds
  <2>2. current \in Payloads /\ current <= Len(handed) /\ Len(handed) \in Nat /\ current \in Nat
    BY <2>1 DEF TypeOK, HandedInv, Payloads
  <2>3. channel = <<>> /\ current = Len(handed) /\ channel # <<current>>
    BY <2>1, <2>2 DEF TypeOK, HandedInv
  <2> QED
    BY <2>1, <2>2, <2>3 DEF TypeOK, HandedInv
<1>6. CASE SendFails
  <2>1. UNCHANGED <<channel, current, handed, request, reading, consumed, sentOk, run>>
        /\ sender \in {"awaiting", "writing"} /\ sender' = "ended"
    BY <1>6 DEF SendFails
  <2> QED
    BY <2>1 DEF TypeOK, HandedInv
<1>7. CASE CreateRegisters
  <2>1. UNCHANGED <<channel, current, handed, request, reading, sentOk>>
        /\ sender = "none" /\ sender' \in {"none", "reading"}
        /\ run' \in {"awaitingReceiver", "refused"}
    BY <1>7 DEF CreateRegisters, HandedInv, CloseTransport
  <2>2. /\ consumed' \in [Payloads -> {"waiting", "completed", "cancelled"}]
        /\ \A n \in Payloads : consumed'[n] = "completed" => consumed[n] = "completed"
    <3>1. CASE CloseTransport
      BY <3>1, CloseTransportQuiet
    <3>2. CASE UNCHANGED transportVars
      BY <3>2 DEF TypeOK
    <3> QED
      BY <1>7, <3>1, <3>2 DEF CreateRegisters
  <2> QED
    BY <2>1, <2>2 DEF TypeOK, HandedInv
<1> QED
  BY <1>1, <1>2, <1>3, <1>4, <1>5, <1>6, <1>7 DEF SenderRuns

\* A request takes the payload in the channel, and completes no other.
LEMMA RequestsTake ==
  ASSUME HttpFallbackAssumption, TypeOK, HandedInv,
         \/ TryAttachStream \/ StreamEnds
         \/ \E p \in Polls : TryBeginPoll(p) \/ PollEnds(p)
         \/ \E r \in Requests : Read(r) \/ Written(r)
  PROVE  TypeOK' /\ HandedInv'
<1> USE DEF transportVars, senderVars, lockVars, closeVars, managerVars, receiverVars, runVars
<1> USE DEF HttpFallbackAssumption
<1>1. ASSUME NEW r \in Requests, NEW to \in {"reading", "ended"}, Goto(r, to),
             UNCHANGED <<channel, current, sender, handed, reading, sentOk, consumed, run>>
      PROVE  TypeOK' /\ HandedInv'
  BY <1>1 DEF Goto, TypeOK, HandedInv
<1>2. CASE TryAttachStream \/ StreamEnds
  BY <1>1, <1>2 DEF TryAttachStream, StreamEnds, Requests
<1>3. ASSUME NEW p \in Polls, TryBeginPoll(p) \/ PollEnds(p)
      PROVE  TypeOK' /\ HandedInv'
  BY <1>1, <1>3 DEF TryBeginPoll, PollEnds, Requests
<1>4. ASSUME NEW r \in Requests, Read(r)
      PROVE  TypeOK' /\ HandedInv'
  <2>1. channel = <<current>> /\ channel' = <<>> /\ channel' # <<current>> /\ Head(channel) = current
    BY <1>4 DEF Read, TypeOK
  <2>2. current = Len(handed) + 1 /\ Len(handed) \in Nat /\ current \in Payloads
    BY <2>1 DEF TypeOK, HandedInv, Payloads
  <2>3. handed' = Append(handed, current) /\ handed' \in Seq(Payloads) /\ Len(handed') = current
    BY <1>4, <2>1, <2>2 DEF Read, TypeOK
  <2>4. \A i \in DOMAIN handed' : handed'[i] = i
    <3> TAKE i \in DOMAIN handed'
    <3>1. i \in 1..(Len(handed) + 1)
      BY <2>2, <2>3
    <3>2. CASE i = current
      BY <2>2, <2>3, <3>2 DEF TypeOK
    <3>3. CASE i # current
      <4>1. i \in 1..Len(handed) /\ handed'[i] = handed[i]
        BY <2>2, <2>3, <3>1, <3>3 DEF TypeOK
      <4> QED
        BY <4>1 DEF TypeOK, HandedInv
    <3> QED
      BY <3>2, <3>3
  <2>5. reading' = [reading EXCEPT ![r] = current] /\ request' = [request EXCEPT ![r] = "writing"]
        /\ UNCHANGED <<current, sender, sentOk, consumed, run>>
    BY <1>4, <2>1 DEF Read, Goto
  <2>6. TypeOK'
    BY <2>1, <2>2, <2>3, <2>5 DEF TypeOK
  <2>7. \A s \in Requests : request'[s] = "writing" => reading'[s] \in 1..Len(handed')
    BY <2>2, <2>3, <2>5 DEF TypeOK, HandedInv
  <2>8. \A n \in Payloads : consumed'[n] = "completed" \/ n \in sentOk' => n <= Len(handed')
    BY <2>2, <2>3, <2>5 DEF TypeOK, HandedInv, Payloads
  <2>9. sender' \in {"awaiting", "ended"}
    BY <2>1, <2>5 DEF HandedInv
  <2> QED
    BY <2>1, <2>2, <2>3, <2>4, <2>5, <2>6, <2>7, <2>8, <2>9 DEF HandedInv
<1>5. ASSUME NEW r \in Requests, Written(r)
      PROVE  TypeOK' /\ HandedInv'
  <2>1. UNCHANGED <<channel, current, sender, handed, sentOk, run>>
        /\ reading' = [reading EXCEPT ![r] = 0]
        /\ consumed' = [consumed EXCEPT ![reading[r]] = IF @ = "waiting" THEN "completed" ELSE @]
    BY <1>5 DEF Written
  <2>2. PICK to \in {"reading", "ended"} : request' = [request EXCEPT ![r] = to]
    BY <1>5 DEF Written, Goto
  <2>3. reading[r] \in 1..Len(handed)
    BY <1>5 DEF Written, HandedInv
  <2>4. TypeOK'
    <3>1. consumed' \in [Payloads -> {"waiting", "completed", "cancelled"}]
      BY <2>1 DEF TypeOK
    <3>2. request' \in [Requests -> {"idle", "reading", "writing", "ended"}]
      BY <2>2 DEF TypeOK
    <3>3. reading' \in [Requests -> 0..MaxPayloads]
      BY <2>1 DEF TypeOK
    <3> QED
      BY <2>1, <3>1, <3>2, <3>3 DEF TypeOK
  <2>5. \A n \in Payloads : consumed'[n] = "completed" \/ n \in sentOk' => n <= Len(handed')
    BY <2>1, <2>3 DEF TypeOK, HandedInv
  <2>6. \A s \in Requests : request'[s] = "writing" => reading'[s] \in 1..Len(handed')
    BY <2>1, <2>2 DEF TypeOK, HandedInv
  <2> QED
    BY <2>1, <2>4, <2>5, <2>6 DEF HandedInv
<1> QED
  BY <1>2, <1>3, <1>4, <1>5

\* A request begins only when none is receiving, and frees the mode as it ends.
LEMMA ReceiverStep ==
  ASSUME HttpFallbackAssumption, TypeOK, ReceiverInv, [Next]_vars
  PROVE  ReceiverInv'
<1> USE DEF HttpFallbackAssumption, Receiving, Requests
<1>1. CASE UNCHANGED <<request, receiverMode>>
  BY <1>1 DEF ReceiverInv
<1>2. ASSUME NEW r \in Requests, receiverMode = 0, Goto(r, "reading"),
             receiverMode' = IF r = Stream THEN 2 ELSE 1
      PROVE  ReceiverInv'
  BY <1>2 DEF ReceiverInv, Goto, TypeOK
<1>3. ASSUME NEW p \in Polls, Receiving(p), Goto(p, "ended"), receiverMode' = 0
      PROVE  ReceiverInv'
  BY <1>3 DEF ReceiverInv, Goto, TypeOK
<1>4. ASSUME NEW r \in Requests, NEW to \in {"reading", "writing", "ended"}, Receiving(r),
             Goto(r, to), receiverMode' = receiverMode
      PROVE  ReceiverInv'
  BY <1>4 DEF ReceiverInv, Goto, TypeOK
<1>5. ASSUME NEW p \in Polls, TryBeginPoll(p)
      PROVE  ReceiverInv'
  BY <1>2, <1>5 DEF TryBeginPoll
<1>6. CASE TryAttachStream
  BY <1>2, <1>6 DEF TryAttachStream
<1>7. ASSUME NEW p \in Polls, PollEnds(p)
      PROVE  ReceiverInv'
  BY <1>3, <1>7 DEF PollEnds
<1>8. CASE StreamEnds
  BY <1>4, <1>8 DEF StreamEnds
<1>9. ASSUME NEW r \in Requests, Read(r)
      PROVE  ReceiverInv'
  BY <1>4, <1>9 DEF Read
<1>10. ASSUME NEW r \in Requests, Written(r)
       PROVE  ReceiverInv'
  BY <1>3, <1>4, <1>10 DEF Written
<1>11. CASE SenderTake \/ SenderRuns \/ CreateRegisters
  BY <1>1, <1>11 DEF SenderTake, SenderRuns, CreateRegisters, SenderStop, SenderGranted, SendCheck,
     SendPublish, SendRecheck, SendWrite, SendSucceeds, SendFails, receiverVars
<1>12. CASE CreateEntry \/ RegistryRequestsClose \/ ManagerRuns
  BY <1>1, <1>12 DEF CreateEntry, RegistryRequestsClose, ManagerRuns, CoreRequestsClose,
     CoreDisposes, CoreDisposesTransport, CoreDisposesLock, receiverVars
<1>13. ASSUME NEW k \in Closers, CloserRuns(k) \/ CloseCancelled(k)
       PROVE  ReceiverInv'
  BY <1>1, <1>13 DEF CloserRuns, CloseCancelled, CancelFlag, CancelExchange, CloseLock,
     CloseGranted, CloseEnds, Abort, receiverVars
<1>14. ASSUME NEW c \in Callers, CloseCall(c)
       PROVE  ReceiverInv'
  BY <1>1, <1>14 DEF CloseCall, receiverVars
<1>15. CASE CommandBegins \/ CommandEnds \/ CommandCloses \/ ClientRequestsClose
  BY <1>1, <1>15 DEF CommandBegins, CommandEnds, CommandCloses, ClientRequestsClose, receiverVars
<1>16. CASE ReceiverAttached \/ RunCloses \/ RunEnds \/ BecomesIdle \/ UNCHANGED vars
  BY <1>1, <1>16 DEF ReceiverAttached, RunCloses, RunEnds, BecomesIdle, vars, receiverVars
<1> QED
  BY <1>5, <1>6, <1>7, <1>8, <1>9, <1>10, <1>11, <1>12, <1>13, <1>14, <1>15, <1>16 DEF Next

\* Whoever removes the entry has the gate, and the core runs only after that.
LEMMA CommandStep ==
  ASSUME CommandInv, [Next]_vars
  PROVE  CommandInv'
<1> USE DEF managerVars, runVars, Created
<1>1. CASE UNCHANGED <<run, entry, core, command, gate>>
  BY <1>1 DEF CommandInv
<1>2. CASE CreateEntry \/ CreateRegisters
  BY <1>2 DEF CommandInv, CreateEntry, CreateRegisters
<1>3. ASSUME NEW c \in Callers, CloseCall(c)
      PROVE  CommandInv'
  BY <1>3 DEF CommandInv, CloseCall
<1>4. CASE ManagerRuns
  BY <1>4 DEF CommandInv, ManagerRuns, CoreRequestsClose, CoreDisposes, CoreDisposesTransport,
     CoreDisposesLock
<1>5. CASE CommandBegins \/ CommandEnds \/ CommandCloses \/ ClientRequestsClose
  BY <1>5 DEF CommandInv, CommandBegins, CommandEnds, CommandCloses, ClientRequestsClose, IsActive
<1>6. CASE ReceiverAttached \/ RunCloses \/ RunEnds \/ BecomesIdle
  BY <1>6 DEF CommandInv, ReceiverAttached, RunCloses, RunEnds, BecomesIdle
<1>7. CASE SenderTake \/ SenderRuns
  BY <1>1, <1>7 DEF SenderTake, SenderRuns, SenderStop, SenderGranted, SendCheck, SendPublish,
     SendRecheck, SendWrite, SendSucceeds, SendFails
<1>8. ASSUME NEW k \in Closers, CloserRuns(k) \/ CloseCancelled(k)
      PROVE  CommandInv'
  BY <1>1, <1>8 DEF CloserRuns, CloseCancelled, CancelFlag, CancelExchange, CloseLock,
     CloseGranted, CloseEnds, Abort
<1>9. CASE RegistryRequestsClose \/ TryAttachStream \/ StreamEnds \/ UNCHANGED vars
  BY <1>1, <1>9 DEF RegistryRequestsClose, TryAttachStream, StreamEnds, vars
<1>10. ASSUME NEW p \in Polls, TryBeginPoll(p) \/ PollEnds(p)
       PROVE  CommandInv'
  BY <1>1, <1>10 DEF TryBeginPoll, PollEnds
<1>11. ASSUME NEW r \in Requests, Read(r) \/ Written(r)
       PROVE  CommandInv'
  BY <1>1, <1>11 DEF Read, Written
<1> QED
  BY <1>2, <1>3, <1>4, <1>5, <1>6, <1>7, <1>8, <1>9, <1>10, <1>11 DEF Next

INSTANCE FiniteSetTheorems

\* A set without two different members has at most one.
LEMMA AtMostOne ==
  ASSUME NEW S, \A x, y \in S : x = y
  PROVE  Cardinality(S) <= 1
<1>1. CASE S = {}
  BY <1>1, FS_EmptySet
<1>2. CASE S # {}
  <2>1. PICK x : S = {x}
    BY <1>2
  <2> QED
    BY <2>1, FS_Singleton
<1> QED
  BY <1>1, <1>2

\* TryBeginPoll and TryAttachStream admit one receiver (HttpFallbackConnectionManager.cs:216-234),
\* the transport's channel of one keeps the sender behind it, and the inbound gate keeps the
\* entry in place while a command runs: for any number of polls and payloads, and under every
\* interleaving of closes, cancellations and disposals, the use is exclusive.
THEOREM UseIsExclusive ==
  ASSUME HttpFallbackAssumption
  PROVE  Spec => []ExclusiveUse
<1> DEFINE Inv == TypeOK /\ ReceiverInv /\ HandedInv /\ CommandInv
<1>1. Init => Inv
  <2> SUFFICES ASSUME Init
               PROVE  Inv
    OBVIOUS
  <2>1. current = 0 /\ handed = <<>> /\ channel = <<>> /\ channel # <<current>> /\ sentOk = {}
        /\ Len(handed) = 0
    BY DEF Init
  <2>2. TypeOK
    BY <2>1 DEF Init, TypeOK, HttpFallbackAssumption
  <2>3. HandedInv
    BY <2>1 DEF Init, HandedInv
  <2>4. ReceiverInv /\ CommandInv
    BY DEF Init, ReceiverInv, Receiving, CommandInv
  <2> QED
    BY <2>2, <2>3, <2>4
<1>2. Inv /\ [Next]_vars => Inv'
  <2> SUFFICES ASSUME Inv, [Next]_vars
               PROVE  Inv'
    OBVIOUS
  <2>1. ReceiverInv' /\ CommandInv'
    BY ReceiverStep, CommandStep
  <2>2. TypeOK' /\ HandedInv'
    BY OthersQuiet, QuietStep, SenderHands, RequestsTake DEF Next
  <2> QED
    BY <2>1, <2>2
<1>3. Inv => ExclusiveUse
  <2> SUFFICES ASSUME Inv
               PROVE  ExclusiveUse
    OBVIOUS
  <2>1. Cardinality({r \in Requests : request[r] \in {"reading", "writing"}}) <= 1
    BY AtMostOne DEF ReceiverInv, Receiving
  <2>2. \A n \in sentOk : n <= Len(handed)
    BY DEF TypeOK, HandedInv
  <2>3. \A i \in DOMAIN handed : handed[i] = i
    BY DEF HandedInv
  <2>4. command = "dispatching" => entry /\ core = "none"
    BY DEF CommandInv
  <2> QED
    BY <2>1, <2>2, <2>3, <2>4 DEF ExclusiveUse
<1> QED
  BY <1>1, <1>2, <1>3, PTL DEF Spec
=============================================================================
