------------------------ MODULE RealtimeClientProofs ------------------------
(***************************************************************************)
(* What TLAPS proves of the .NET client, for every capacity of its send    *)
(* queue and any number of calls, heartbeats and reconnections: its slots  *)
(* are conserved, what it accepted is sent in order, and a run that has    *)
(* ended leaves it in a terminal state for good.                           *)
(***************************************************************************)
EXTENDS RealtimeClient, TLAPS

-----------------------------------------------------------------------------
(* The send queue of the client.                                           *)

\* What the queues hold: heartbeats, and the messages of calls that were accepted.
Queued == {n \in Sends : call[n] = "accepted"} \cup Heartbeats

\* The calls that own a slot and have not enqueued yet.
Owners == {n \in Sends : call[n] \in {"checking", "slotted"}}

\* The values of what the queues and the calls keep.
ClientTypes ==
  /\ call \in [Sends -> {"idle", "waiting", "checking", "slotted", "accepted", "rejected"}]
  /\ commands \subseteq Sends /\ freeSlots \in Nat /\ completed \in BOOLEAN
  /\ beats \in MaxSends .. MaxSends + MaxHeartbeats /\ tracked \subseteq Heartbeats
  /\ heartbeat \in {"waiting", "slotted"} => beats \in Heartbeats
  /\ accepted \in Seq(Sends) /\ sent \in Seq(Sends)
  /\ backlog \in Seq(Queued) /\ pending \in Seq(Queued)
  /\ sending \in Seq(Queued) /\ outbound \in Seq(Queued)

\* Which tasks run where RunAsync is: the replay before the sender and the heartbeats, and
\* none of the three outside a connection.
TasksFit ==
  /\ replay \in {"gate", "subscribing", "sending"} =>
       run \in {"replaying", "teardown", "observing"} /\ send = "off" /\ heartbeat = "off"
  /\ send \in {"waiting", "sending"} =>
       run \in {"online", "teardown", "observing"} /\ replay = "done"
  /\ heartbeat \in {"delaying", "waiting", "slotted"} =>
       run \in {"online", "teardown", "observing"}
  /\ run = "replaying" => send = "off" /\ heartbeat = "off"
  /\ run = "establishing" => replay = "done" /\ send = "off" /\ heartbeat = "off"

\* Which queue may hold something then: only a replay has pending messages, only a send one
\* that is being sent, and the backlog is empty while either could overtake it.
QueuesFit ==
  /\ pending # <<>> => replay \in {"subscribing", "sending"}
  /\ replay \in {"subscribing", "sending"} => backlog = <<>>
  /\ send \in {"waiting", "sending"} \/ (replay = "done" /\ send = "off") => backlog = <<>>
  /\ IF send = "sending" THEN \E m \in Queued : sending = <<m>> ELSE sending = <<>>

\* The inductive invariant.
ClientInv == ClientTypes /\ TasksFit /\ QueuesFit /\ SlotsConserved /\ AcceptedInOrder

-----------------------------------------------------------------------------
(* Induction over sequences, from the least element of a set of numbers,   *)
(* and what the filter of the replay keeps.                                *)

INSTANCE WellFoundedInduction
INSTANCE FiniteSetTheorems

\* A set of natural numbers has a least one.
LEMMA Least ==
  ASSUME NEW T, T \subseteq Nat, T # {}
  PROVE  \E x \in T : \A y \in T : x <= y
<1> DEFINE R == OpToRel(<, Nat)
<1>1. IsWellFoundedOn(R, Nat)
  BY NatLessThanWellFounded, Zenon
<1>2. \A x, y \in Nat : y < x => <<y, x>> \in R
  BY DEF OpToRel
<1> HIDE DEF R
<1>3. PICK x \in T : \A y \in T : ~(<<y, x>> \in R)
  BY <1>1, WFMin, Zenon
<1>4. \A y \in T : x <= y
  <2> TAKE y \in T
  <2>1. x \in Nat /\ y \in Nat /\ ~(y < x)
    BY <1>2, <1>3
  <2> QED
    BY <2>1
<1> QED
  BY <1>4

\* Induction over the natural numbers, with a set for the predicate.
LEMMA NatInd ==
  ASSUME NEW G, 0 \in G, \A n \in Nat : n \in G => n + 1 \in G
  PROVE  Nat \subseteq G
<1> SUFFICES ASSUME Nat \ G # {} PROVE FALSE
  OBVIOUS
<1>1. PICK n \in Nat \ G : \A y \in Nat \ G : n <= y
  BY Least
<1>2. n # 0 /\ n - 1 \in Nat /\ (n - 1) + 1 = n /\ ~(n <= n - 1)
  BY <1>1
<1> QED
  BY <1>1, <1>2

\* Induction over the sequences of a set, from their ends.
LEMMA SeqInd ==
  ASSUME NEW A, NEW G, <<>> \in G, \A s \in Seq(A), e \in A : s \in G => Append(s, e) \in G
  PROVE  Seq(A) \subseteq G
<1> DEFINE N == {n \in Nat : \A s \in Seq(A) : Len(s) = n => s \in G}
<1>1. 0 \in N
  <2>1. \A s \in Seq(A) : Len(s) = 0 => s = <<>>
    OBVIOUS
  <2> QED
    BY <2>1
<1>2. ASSUME NEW n \in Nat, n \in N PROVE n + 1 \in N
  <2> SUFFICES ASSUME NEW s \in Seq(A), Len(s) = n + 1 PROVE s \in G
    OBVIOUS
  <2> DEFINE t == SubSeq(s, 1, n)
  <2>1. t \in Seq(A) /\ Len(t) = n /\ s[n + 1] \in A /\ \A i \in 1 .. n : t[i] = s[i]
    OBVIOUS
  <2> HIDE DEF t
  <2>2. Append(t, s[n + 1]) = s
    BY <2>1
  <2>3. t \in G
    BY <1>2, <2>1
  <2> QED
    BY <2>1, <2>2, <2>3
<1> HIDE DEF N
<1>3. Nat \subseteq N
  BY <1>1, <1>2, NatInd
<1> QED
  BY <1>3 DEF N

\* One step of the filter.
Keep(g, i, s, S) ==
  IF i = 0 THEN <<>> ELSE IF s[i] \in S THEN Append(g[i - 1], s[i]) ELSE g[i - 1]

\* The filter's recursion has a solution.
LEMMA Solution ==
  ASSUME NEW s, NEW S, NEW n \in Nat
  PROVE  \E g : g = [i \in 0 .. n |-> Keep(g, i, s, S)]
<1> DEFINE G == {m \in Nat : \E g : g = [i \in 0 .. m |-> Keep(g, i, s, S)]}
<1>1. 0 \in G
  <2> DEFINE g == [i \in 0 .. 0 |-> <<>>]
  <2>1. g = [i \in 0 .. 0 |-> Keep(g, i, s, S)]
    BY DEF Keep
  <2> QED
    BY <2>1
<1>2. ASSUME NEW m \in Nat, m \in G PROVE m + 1 \in G
  <2>1. PICK g : g = [i \in 0 .. m |-> Keep(g, i, s, S)]
    BY <1>2
  <2> DEFINE h == [i \in 0 .. m + 1 |-> IF i = m + 1 THEN Keep(g, i, s, S) ELSE g[i]]
  <2>2. \A i \in 0 .. m : h[i] = g[i]
    OBVIOUS
  <2>3. \A i \in 0 .. m + 1 : h[i] = Keep(h, i, s, S)
    <3> TAKE i \in 0 .. m + 1
    <3>1. Keep(h, i, s, S) = Keep(g, i, s, S)
      <4>1. i = 0 \/ i - 1 \in 0 .. m
        OBVIOUS
      <4> QED
        BY <4>1, <2>2 DEF Keep
    <3>2. h[i] = Keep(g, i, s, S)
      BY <2>1
    <3> QED
      BY <3>1, <3>2
  <2>4. h = [i \in 0 .. m + 1 |-> h[i]]
    OBVIOUS
  <2> HIDE DEF h
  <2>5. h = [i \in 0 .. m + 1 |-> Keep(h, i, s, S)]
    BY <2>3, <2>4
  <2> QED
    BY <2>5
<1> HIDE DEF G
<1>3. n \in G
  BY <1>1, <1>2, NatInd
<1> QED
  BY <1>3 DEF G

\* The filter is a solution.
LEMMA AmongSolves ==
  ASSUME NEW s, NEW S, Len(s) \in Nat
  PROVE  \E g : (\A i \in 0 .. Len(s) : g[i] = Keep(g, i, s, S)) /\ Among(s, S) = g[Len(s)]
<1> DEFINE g == CHOOSE g : g = [i \in 0 .. Len(s) |-> Keep(g, i, s, S)]
<1>1. g = [i \in 0 .. Len(s) |-> Keep(g, i, s, S)]
  BY Solution
<1>2. Among(s, S) = g[Len(s)]
  BY DEF Among, Keep
<1> HIDE DEF g
<1>3. \A i \in 0 .. Len(s) : g[i] = Keep(g, i, s, S)
  BY <1>1
<1> QED
  BY <1>2, <1>3

\* The filter of no message, and of one message more.
LEMMA AmongEmpty ==
  ASSUME NEW S
  PROVE  Among(<<>>, S) = <<>>
<1>1. \E g : (\A i \in 0 .. Len(<<>>) : g[i] = Keep(g, i, <<>>, S)) /\ Among(<<>>, S) = g[Len(<<>>)]
  BY AmongSolves
<1>2. PICK g : g[0] = Keep(g, 0, <<>>, S) /\ Among(<<>>, S) = g[0]
  BY <1>1
<1> QED
  BY <1>2 DEF Keep

\* The filter of a sequence with one member more.
LEMMA AmongAppend ==
  ASSUME NEW A, NEW s \in Seq(A), NEW e \in A, NEW S
  PROVE  Among(Append(s, e), S) = IF e \in S THEN Append(Among(s, S), e) ELSE Among(s, S)
<1> DEFINE t == Append(s, e) n == Len(s)
<1>1. /\ n \in Nat /\ Len(t) = n + 1 /\ t[n + 1] = e /\ \A i \in 1 .. n : s[i] = t[i]
      /\ n <= Len(t) /\ Len(t) \in Nat /\ n + 1 # 0 /\ (n + 1) - 1 = n
  OBVIOUS
<1> HIDE DEF t, n
<1>2. PICK g : (\A i \in 0 .. n : g[i] = Keep(g, i, s, S)) /\ Among(s, S) = g[n]
  BY <1>1, AmongSolves DEF n
<1>3. PICK h : (\A i \in 0 .. Len(t) : h[i] = Keep(h, i, t, S)) /\ Among(t, S) = h[Len(t)]
  BY <1>1, AmongSolves
<1>4. g[n] = h[n]
  <2> DEFINE G == {k \in Nat : k <= n => g[k] = h[k]}
  <2>0. \A i \in 0 .. n : g[i] = Keep(g, i, s, S) /\ h[i] = Keep(h, i, t, S)
    BY <1>1, <1>2, <1>3
  <2>1. 0 \in G
    BY <1>1, <2>0 DEF Keep
  <2>2. ASSUME NEW k \in Nat, k \in G PROVE k + 1 \in G
    <3> SUFFICES ASSUME k + 1 <= n PROVE g[k + 1] = h[k + 1]
      OBVIOUS
    <3>1. g[k + 1] = Keep(g, k + 1, s, S) /\ h[k + 1] = Keep(h, k + 1, t, S)
      BY <1>1, <2>0
    <3>2. g[k] = h[k] /\ s[k + 1] = t[k + 1] /\ (k + 1) - 1 = k /\ k + 1 # 0
      BY <1>1, <2>2
    <3> QED
      BY <3>1, <3>2 DEF Keep
  <2> HIDE DEF G
  <2>3. n \in G
    BY <1>1, <2>1, <2>2, NatInd
  <2> QED
    BY <1>1, <2>3 DEF G
<1>5. h[n + 1] = Keep(h, n + 1, t, S)
  BY <1>1, <1>3
<1>6. Among(t, S) = IF e \in S THEN Append(Among(s, S), e) ELSE Among(s, S)
  BY <1>1, <1>2, <1>3, <1>4, <1>5 DEF Keep
<1> QED
  BY <1>6 DEF t

\* What the filter keeps, and how much.
LEMMA AmongKeeps ==
  ASSUME NEW A, NEW s \in Seq(A), NEW S
  PROVE  Among(s, S) \in Seq(A \cap S) /\ Len(Among(s, S)) <= Len(s)
<1> DEFINE G == {r \in Seq(A) : Among(r, S) \in Seq(A \cap S) /\ Len(Among(r, S)) <= Len(r)}
<1>1. <<>> \in G
  <2>1. <<>> \in Seq(A) /\ <<>> \in Seq(A \cap S) /\ Len(<<>>) <= Len(<<>>)
    OBVIOUS
  <2> QED
    BY <2>1, AmongEmpty
<1>2. ASSUME NEW r \in Seq(A), NEW e \in A, r \in G PROVE Append(r, e) \in G
  <2>1. Among(r, S) \in Seq(A \cap S) /\ Len(Among(r, S)) <= Len(r)
    BY <1>2
  <2>2. Among(Append(r, e), S) = IF e \in S THEN Append(Among(r, S), e) ELSE Among(r, S)
    BY AmongAppend
  <2>3. Append(r, e) \in Seq(A) /\ Len(Append(r, e)) = Len(r) + 1 /\ Len(r) \in Nat
    OBVIOUS
  <2>4. CASE e \in S
    <3>1. Append(Among(r, S), e) \in Seq(A \cap S) /\ Len(Append(Among(r, S), e)) <= Len(r) + 1
      BY <2>1, <2>3, <2>4
    <3> QED
      BY <2>2, <2>3, <2>4, <3>1
  <2>5. CASE e \notin S
    BY <2>1, <2>2, <2>3, <2>5
  <2> QED
    BY <2>4, <2>5
<1> HIDE DEF G
<1>3. s \in G
  BY <1>1, <1>2, SeqInd
<1> QED
  BY <1>3 DEF G

\* The filter of two sequences in a row.
LEMMA AmongConcat ==
  ASSUME NEW A, NEW s \in Seq(A), NEW t \in Seq(A), NEW S
  PROVE  Among(s \o t, S) = Among(s, S) \o Among(t, S)
<1> DEFINE G == {r \in Seq(A) : Among(s \o r, S) = Among(s, S) \o Among(r, S)}
<1>0. PICK x \in Seq(A) : x = Among(s, S)
  <2>1. Among(s, S) \in Seq(A \cap S)
    BY AmongKeeps
  <2> QED
    BY <2>1
<1>1. <<>> \in G
  <2>1. s \o <<>> = s /\ x \o <<>> = x /\ <<>> \in Seq(A)
    OBVIOUS
  <2> QED
    BY <1>0, <2>1, AmongEmpty
<1>2. ASSUME NEW r \in Seq(A), NEW e \in A, r \in G PROVE Append(r, e) \in G
  <2>1. s \o Append(r, e) = Append(s \o r, e) /\ s \o r \in Seq(A) /\ Append(r, e) \in Seq(A)
    OBVIOUS
  <2>2. PICK y \in Seq(A) : y = Among(r, S)
    <3>1. Among(r, S) \in Seq(A \cap S)
      BY AmongKeeps
    <3> QED
      BY <3>1
  <2>3. Among(s \o r, S) = x \o y
    BY <1>0, <1>2, <2>2
  <2>4. Among(Append(s \o r, e), S) = IF e \in S THEN Append(x \o y, e) ELSE x \o y
    <3>1. PICK z \in Seq(A) : z = s \o r
      BY <2>1
    <3>2. Among(Append(z, e), S) = IF e \in S THEN Append(Among(z, S), e) ELSE Among(z, S)
      BY AmongAppend
    <3> QED
      BY <2>3, <3>1, <3>2
  <2>5. Among(Append(r, e), S) = IF e \in S THEN Append(y, e) ELSE y
    BY <2>2, AmongAppend
  <2>6. x \o Append(y, e) = Append(x \o y, e)
    OBVIOUS
  <2>7. Among(s \o Append(r, e), S) = x \o Among(Append(r, e), S)
    BY <2>1, <2>4, <2>5, <2>6
  <2>8. Among(s \o Append(r, e), S) = Among(s, S) \o Among(Append(r, e), S)
    BY <1>0, <2>7
  <2> QED
    BY <2>1, <2>8
<1> HIDE DEF G
<1>3. t \in G
  BY <1>1, <1>2, SeqInd
<1> QED
  BY <1>3 DEF G

\* A second filter that keeps less.
LEMMA AmongTwice ==
  ASSUME NEW A, NEW s \in Seq(A), NEW S, NEW T, A \cap S \subseteq T
  PROVE  Among(Among(s, T), S) = Among(s, S)
<1> DEFINE G == {r \in Seq(A) : Among(Among(r, T), S) = Among(r, S)}
<1>1. <<>> \in G
  BY AmongEmpty
<1>2. ASSUME NEW r \in Seq(A), NEW e \in A, r \in G PROVE Append(r, e) \in G
  <2>1. Among(Append(r, e), S) = IF e \in S THEN Append(Among(r, S), e) ELSE Among(r, S)
    BY AmongAppend
  <2>2. Among(Append(r, e), T) = IF e \in T THEN Append(Among(r, T), e) ELSE Among(r, T)
    BY AmongAppend
  <2>3. Among(r, T) \in Seq(A)
    <3>1. Among(r, T) \in Seq(A \cap T)
      BY AmongKeeps
    <3> QED
      BY <3>1
  <2>4. Among(Append(Among(r, T), e), S)
          = IF e \in S THEN Append(Among(Among(r, T), S), e) ELSE Among(Among(r, T), S)
    BY <2>3, AmongAppend
  <2>5. e \in S => e \in T
    OBVIOUS
  <2>6. Append(r, e) \in Seq(A)
    OBVIOUS
  <2> QED
    BY <1>2, <2>1, <2>2, <2>4, <2>5, <2>6
<1> HIDE DEF G
<1>3. s \in G
  BY <1>1, <1>2, SeqInd
<1> QED
  BY <1>3 DEF G

\* Two filters that agree on the messages there are.
LEMMA AmongSame ==
  ASSUME NEW A, NEW s \in Seq(A), NEW S, NEW T, A \cap S = A \cap T
  PROVE  Among(s, S) = Among(s, T)
<1> DEFINE G == {r \in Seq(A) : Among(r, S) = Among(r, T)}
<1>1. <<>> \in G
  BY AmongEmpty
<1>2. ASSUME NEW r \in Seq(A), NEW e \in A, r \in G PROVE Append(r, e) \in G
  <2>1. /\ Among(Append(r, e), S) = IF e \in S THEN Append(Among(r, S), e) ELSE Among(r, S)
        /\ Among(Append(r, e), T) = IF e \in T THEN Append(Among(r, T), e) ELSE Among(r, T)
    BY AmongAppend
  <2>2. Append(r, e) \in Seq(A)
    OBVIOUS
  <2>3. e \in S <=> e \in T
    OBVIOUS
  <2> QED
    BY <1>2, <2>1, <2>2, <2>3
<1> HIDE DEF G
<1>3. s \in G
  BY <1>1, <1>2, SeqInd
<1> QED
  BY <1>3 DEF G

-----------------------------------------------------------------------------
(* The invariant of the client.                                            *)

\* What is in the smaller of two sets is in the larger.
LEMMA Wider ==
  ASSUME NEW A, NEW B, A \subseteq B, NEW s \in Seq(A)
  PROVE  s \in Seq(B)
  OBVIOUS

\* Pairs of sequences, their lengths and their members.
LEMMA Lengths ==
  ASSUME NEW A, NEW s \in Seq(A), NEW t \in Seq(A)
  PROVE  /\ s \o t \in Seq(A) /\ Len(s \o t) = Len(s) + Len(t) /\ Len(s) \in Nat /\ Len(t) \in Nat
         /\ s # <<>> => /\ Head(s) \in A /\ Tail(s) \in Seq(A) /\ Len(Tail(s)) = Len(s) - 1
                        /\ s = <<Head(s)>> \o Tail(s) /\ Len(s) > 0
         /\ \A e \in A : /\ Append(s, e) \in Seq(A) /\ Len(Append(s, e)) = Len(s) + 1
                         /\ <<e>> \in Seq(A) /\ Len(<<e>>) = 1 /\ s \o <<e>> = Append(s, e)
         /\ s \o <<>> = s /\ <<>> \o s = s /\ Len(<<>>) = 0 /\ <<>> \in Seq(A)
  OBVIOUS

\* Concatenation is associative.
LEMMA Grouped ==
  ASSUME NEW A, NEW s \in Seq(A), NEW t \in Seq(A), NEW u \in Seq(A)
  PROVE  (s \o t) \o u = s \o (t \o u)
  OBVIOUS

\* What the proofs use of the constants.
LEMMA ClientConstants ==
  /\ SendQueueCapacity \in Nat /\ MaxSends \in Nat /\ MaxHeartbeats \in Nat
  /\ Sends \cap Heartbeats = {}
  /\ \A b \in MaxSends .. MaxSends + MaxHeartbeats :
       b < MaxSends + MaxHeartbeats => b + 1 \in Heartbeats
  /\ Heartbeats \subseteq MaxSends .. MaxSends + MaxHeartbeats
  BY ClientAssumption DEF Sends, Heartbeats

\* The tasks: one step of the run loop.
LEMMA TasksRun ==
  ASSUME TasksFit, RunSteps
  PROVE  TasksFit'
<1>1. CASE ConnectFails
  BY <1>1 DEF TasksFit, ConnectFails, taskVars
<1>2. CASE TransportConnected
  BY <1>2 DEF TasksFit, TransportConnected
<1>3. CASE ReplayAwaited
  BY <1>3 DEF TasksFit, ReplayAwaited, taskVars, ReplayDone
<1>4. CASE Establish
  BY <1>4 DEF TasksFit, Establish
<1>5. CASE OnlineEnds
  BY <1>5 DEF TasksFit, OnlineEnds, taskVars
<1>6. CASE Teardown
  BY <1>6 DEF TasksFit, Teardown, taskVars
<1>7. CASE SiblingsObserved
  BY <1>7 DEF TasksFit, SiblingsObserved, taskVars, ReplayDone, SendDone, HeartbeatDone
<1>8. CASE Cleanup
  BY <1>8 DEF TasksFit, Cleanup, taskVars
<1>9. CASE DelayEnds
  BY <1>9 DEF TasksFit, DelayEnds, taskVars
<1>10. CASE RunCompletes
  BY <1>10 DEF TasksFit, RunCompletes, taskVars
<1>11. CASE RunFinishes
  BY <1>11 DEF TasksFit, RunFinishes, taskVars
<1> QED
  BY <1>1, <1>2, <1>3, <1>4, <1>5, <1>6, <1>7, <1>8, <1>9, <1>10, <1>11 DEF RunSteps

\* The tasks: their own steps.
LEMMA TasksOwn ==
  ASSUME TasksFit, UNCHANGED run, SendSteps \/ HeartbeatSteps \/ ReplaySteps
  PROVE  TasksFit'
<1>1. CASE SendSteps
  <2>1. /\ UNCHANGED <<replay, heartbeat>> /\ send \in {"waiting", "sending"}
        /\ send' \in {"waiting", "sending", "error", "canceled"}
    BY <1>1 DEF SendSteps, SendLoopReads, SendLoopCancelled, SendLoopSent, SendLoopFails, Failures
  <2> QED
    BY <2>1 DEF TasksFit
<1>2. CASE HeartbeatSteps
  <2>1. UNCHANGED <<replay, send>> /\ heartbeat \in {"delaying", "waiting", "slotted"}
    BY <1>2 DEF HeartbeatSteps, HeartbeatDue, HeartbeatSlot, HeartbeatEnqueues,
         HeartbeatCancelled
  <2> QED
    BY <2>1 DEF TasksFit
<1>3. CASE ReplaySteps
  <2>1. /\ UNCHANGED <<send, heartbeat>> /\ replay \in {"gate", "subscribing", "sending"}
    BY <1>3 DEF ReplaySteps, DrainPending, ReplayCancelled, ReplaySubscribed, ReplayFails,
         ReplaySends
  <2> QED
    BY <2>1 DEF TasksFit
<1> QED
  BY <1>1, <1>2, <1>3

\* The tasks: every step.
LEMMA TasksStep ==
  ASSUME TasksFit, [Next]_vars
  PROVE  TasksFit'
<1>1. CASE RunSteps
  BY <1>1, TasksRun
<1>2. CASE SendSteps \/ HeartbeatSteps \/ ReplaySteps
  <2>1. UNCHANGED run
    BY <1>2 DEF SendSteps, HeartbeatSteps, ReplaySteps, SendLoopReads, SendLoopCancelled,
         SendLoopSent, SendLoopFails, HeartbeatDue, HeartbeatSlot, HeartbeatEnqueues,
         HeartbeatCancelled, DrainPending, ReplayCancelled, ReplaySubscribed, ReplayFails,
         ReplaySends, runVars
  <2> QED
    BY <1>2, <2>1, TasksOwn
<1>3. CASE ReceiveSteps
  <2>1. UNCHANGED <<run, replay, send, heartbeat>>
    BY <1>3 DEF ReceiveSteps, ReceiveClose, ReceiveInvalid, ReceiveFails, ReceiveAck,
         ReceiveMessage, Delivered, runVars
  <2> QED
    BY <2>1 DEF TasksFit
<1>4. CASE \E n \in Sends : SendCall(n) \/ CallerCancels(n) \/ CallSteps(n)
  <2>1. UNCHANGED <<run, replay, send, heartbeat>>
    BY <1>4 DEF SendCall, CallerCancels, CallSteps, SlotAwaited, CommandChecks, EnqueueOwned,
         runVars, taskVars
  <2> QED
    BY <2>1 DEF TasksFit
<1>5. CASE ConnectAsync \/ ConnectCancelled
  <2>1. /\ UNCHANGED <<replay, send, heartbeat>>
        /\ run' = run \/ (run = "notStarted" /\ run' = "connecting")
    BY <1>5 DEF ConnectAsync, ConnectCancelled, taskVars
  <2> QED
    BY <2>1 DEF TasksFit
<1>6. CASE DisconnectAsync \/ Dispose
  <2>1. /\ UNCHANGED <<replay, send, heartbeat>>
        /\ run' = run \/ (run = "notStarted" /\ run' = "done")
    BY <1>6 DEF DisconnectAsync, Dispose, StopWithoutRun, taskVars
  <2> QED
    BY <2>1 DEF TasksFit
<1>7. CASE UNCHANGED vars
  BY <1>7 DEF TasksFit, vars, runVars, taskVars
<1> QED
  BY <1>1, <1>2, <1>3, <1>4, <1>5, <1>6, <1>7 DEF Next

-----------------------------------------------------------------------------
(* What a step does to the queues.                                         *)

\* The four queues in a row.
LEMMA FourQueues ==
  ASSUME NEW A, NEW b \in Seq(A), NEW p \in Seq(A), NEW s \in Seq(A), NEW o \in Seq(A)
  PROVE  /\ b \o p \o s \o o \in Seq(A)
         /\ Len(b \o p \o s \o o) = Len(b) + Len(p) + Len(s) + Len(o)
         /\ Len(b) \in Nat /\ Len(p) \in Nat /\ Len(s) \in Nat /\ Len(o) \in Nat
<1>1. /\ b \o p \in Seq(A) /\ Len(b \o p) = Len(b) + Len(p)
      /\ Len(b) \in Nat /\ Len(p) \in Nat /\ Len(s) \in Nat /\ Len(o) \in Nat
  OBVIOUS
<1> DEFINE x == b \o p
<1> HIDE DEF x
<1>2. x \o s \in Seq(A) /\ Len(x \o s) = Len(x) + Len(s)
  BY <1>1 DEF x
<1> DEFINE y == x \o s
<1> HIDE DEF y
<1>3. y \o o \in Seq(A) /\ Len(y \o o) = Len(y) + Len(o)
  BY <1>2 DEF y
<1> QED
  BY <1>1, <1>2, <1>3 DEF x, y

\* The slots and the order, queue by queue.
Beat == IF heartbeat = "slotted" THEN 1 ELSE 0

\* The sum of the slots, with what holds them counted one by one.
SlotSum ==
  ~completed => freeSlots + Cardinality(Owners) + Beat
                  + (Len(backlog) + Len(pending) + Len(sending) + Len(outbound)) = SendQueueCapacity

\* The invariant is about this sum.
LEMMA SumIsConserved ==
  ASSUME ClientTypes
  PROVE  SlotSum <=> SlotsConserved
  BY FourQueues DEF ClientTypes, SlotSum, SlotsConserved, Held, Owners, Beat

\* So it is after a step.
LEMMA SumIsConservedNext ==
  ASSUME ClientTypes'
  PROVE  SlotSum' <=> SlotsConserved'
  BY FourQueues DEF ClientTypes, SlotSum, SlotsConserved, Held, Owners, Beat

\* A released slot.
LEMMA ReleasedSlots ==
  ASSUME NEW slots \in Nat, NEW n \in Nat, completed \in BOOLEAN
  PROVE  /\ Released(slots, n) \in Nat
         /\ ~completed /\ slots + n <= SendQueueCapacity => Released(slots, n) = slots + n
  BY ClientConstants DEF Released

\* Where a call can be.
CallKindsOf == {"idle", "waiting", "checking", "slotted", "accepted", "rejected"}

\* What the functions of calls are after a call has moved on.
LEMMA CallMovesOn ==
  ASSUME ClientTypes, NEW n \in Sends, NEW pc \in CallKindsOf, call[n] # "accepted",
         CallStep(n, pc)
  PROVE  /\ call' \in [Sends -> CallKindsOf]
         /\ Queued' = IF pc = "accepted" THEN Queued \cup {n} ELSE Queued
         /\ Owners' = IF pc \in {"checking", "slotted"} THEN Owners \cup {n} ELSE Owners \ {n}
<1>1. call \in [Sends -> CallKindsOf] /\ call' = [call EXCEPT ![n] = pc]
  BY DEF ClientTypes, CallKindsOf, CallStep
<1>2. call' \in [Sends -> CallKindsOf] /\ call'[n] = pc /\ \A m \in Sends \ {n} : call'[m] = call[m]
  BY <1>1
<1>3. Queued' = IF pc = "accepted" THEN Queued \cup {n} ELSE Queued
  BY <1>2 DEF Queued
<1>4. Owners' = IF pc \in {"checking", "slotted"} THEN Owners \cup {n} ELSE Owners \ {n}
  BY <1>2 DEF Owners
<1> QED
  BY <1>2, <1>3, <1>4

\* How many calls own a slot then.
LEMMA OwnersCounted ==
  /\ IsFiniteSet(Owners) /\ Cardinality(Owners) \in Nat
  /\ \A n : n \notin Owners => Cardinality(Owners \cup {n}) = Cardinality(Owners) + 1
  /\ \A n \in Owners : Cardinality(Owners \ {n}) = Cardinality(Owners) - 1 /\ Cardinality(Owners) > 0
<1>1. IsFiniteSet(Sends)
  BY FS_Interval, ClientConstants DEF Sends
<1>2. IsFiniteSet(Owners)
  BY <1>1, FS_Subset DEF Owners
<1>3. Cardinality(Owners) \in Nat
  BY <1>2, FS_CardinalityType
<1>4. \A n : n \notin Owners => Cardinality(Owners \cup {n}) = Cardinality(Owners) + 1
  BY <1>2, FS_AddElement
<1>5. ASSUME NEW n \in Owners
      PROVE  Cardinality(Owners \ {n}) = Cardinality(Owners) - 1 /\ Cardinality(Owners) > 0
  <2>1. /\ IsFiniteSet(Owners \ {n}) /\ Cardinality(Owners \ {n}) = Cardinality(Owners) - 1
    BY <1>2, FS_RemoveElement
  <2>2. Cardinality(Owners \ {n}) \in Nat
    BY <2>1, FS_CardinalityType
  <2> QED
    BY <1>3, <2>1, <2>2
<1> QED
  BY <1>2, <1>3, <1>4, <1>5

\* A step that leaves the queues, the calls and the heartbeat's slot alone.
LEMMA QuietStep ==
  ASSUME ClientInv, UNCHANGED <<queueVars, appVars>>, TasksFit', QueuesFit',
         heartbeat' = "slotted" <=> heartbeat = "slotted",
         tracked' \subseteq Heartbeats, beats' \in MaxSends .. MaxSends + MaxHeartbeats,
         heartbeat' \in {"waiting", "slotted"} => beats' \in Heartbeats
  PROVE  ClientInv'
<1>0. UNCHANGED <<outbound, backlog, pending, sending, freeSlots, completed, call, commands, accepted, sent>>
  BY DEF queueVars, appVars
<1>1. Queued' = Queued /\ Owners' = Owners /\ Held' = Held
  BY <1>0 DEF Queued, Owners, Held
<1>2. ClientTypes'
  BY <1>0, <1>1 DEF ClientInv, ClientTypes
<1>3. SlotsConserved'
  BY <1>0, <1>1 DEF ClientInv, SlotsConserved
<1>4. AcceptedInOrder'
  BY <1>0, <1>1 DEF ClientInv, AcceptedInOrder
<1> QED
  BY <1>2, <1>3, <1>4 DEF ClientInv

\* The run loop and the calls that stop it.
LEMMA RunQuiet ==
  ASSUME ClientInv, TasksFit', \/ RunSteps /\ ~RunCompletes
                               \/ ConnectAsync \/ ConnectCancelled
                               \/ (DisconnectAsync \/ Dispose) /\ ~StopWithoutRun
  PROVE  ClientInv'
<1>1. CASE \/ ConnectFails \/ ReplayAwaited \/ OnlineEnds \/ Teardown \/ SiblingsObserved
           \/ Cleanup \/ DelayEnds \/ RunFinishes \/ ConnectAsync \/ ConnectCancelled
           \/ (DisconnectAsync \/ Dispose) /\ ~StopWithoutRun
  <2>1. UNCHANGED <<queueVars, appVars, replay, send, heartbeat, beats, tracked>>
    BY <1>1 DEF ConnectFails, ReplayAwaited, OnlineEnds, Teardown, SiblingsObserved, Cleanup,
         DelayEnds, RunFinishes, ConnectAsync, ConnectCancelled, DisconnectAsync, Dispose,
         taskVars, beatVars
  <2>2. QueuesFit'
    BY <2>1 DEF ClientInv, QueuesFit, queueVars, appVars, Queued
  <2> QED
    BY <2>1, <2>2, QuietStep DEF ClientInv, ClientTypes
<1>2. CASE TransportConnected
  <2>1. /\ UNCHANGED <<queueVars, appVars, beats, tracked>>
        /\ replay' = "gate" /\ send' = "off" /\ heartbeat' = "off" /\ run = "connecting"
    BY <1>2 DEF TransportConnected
  <2>2. /\ send \notin {"waiting", "sending"} /\ replay \notin {"gate", "subscribing", "sending"}
        /\ heartbeat # "slotted"
    BY <2>1 DEF ClientInv, TasksFit
  <2>3. QueuesFit'
    BY <2>1, <2>2 DEF ClientInv, QueuesFit, queueVars
  <2> QED
    BY <2>1, <2>2, <2>3, QuietStep DEF ClientInv, ClientTypes
<1>3. CASE Establish
  <2>1. /\ UNCHANGED <<queueVars, appVars, beats, tracked, replay>>
        /\ send' = "waiting" /\ heartbeat' = "delaying" /\ run = "establishing"
    BY <1>3 DEF Establish, beatVars
  <2>2. send = "off" /\ heartbeat = "off" /\ replay = "done"
    BY <2>1 DEF ClientInv, TasksFit
  <2>3. QueuesFit'
    BY <2>1, <2>2 DEF ClientInv, QueuesFit, queueVars
  <2> QED
    BY <2>1, <2>2, <2>3, QuietStep DEF ClientInv, ClientTypes
<1> QED
  BY <1>1, <1>2, <1>3 DEF RunSteps

\* The channels are completed.
LEMMA CompletedStep ==
  ASSUME ClientInv, TasksFit', CompleteChannels,
         UNCHANGED <<taskVars, pending, sending, appVars, freeSlots, beats>>
  PROVE  ClientInv'
<1>0. /\ completed' = TRUE /\ outbound' = <<>> /\ backlog' = <<>> /\ tracked' = {}
      /\ UNCHANGED <<pending, sending, call, commands, accepted, sent, freeSlots, beats>>
      /\ UNCHANGED <<replay, send, heartbeat>>
  BY DEF CompleteChannels, taskVars, appVars
<1>1. Queued' = Queued
  BY <1>0 DEF Queued
<1>2. ClientTypes'
  BY <1>0, <1>1 DEF ClientInv, ClientTypes
<1>3. QueuesFit'
  BY <1>0, <1>1 DEF ClientInv, QueuesFit
<1> QED
  BY <1>0, <1>2, <1>3 DEF ClientInv, SlotsConserved, AcceptedInOrder

\* The steps of the tasks that move no message.
LEMMA TasksQuiet ==
  ASSUME ClientInv, TasksFit',
         \/ ReceiveSteps \/ HeartbeatDue \/ HeartbeatCancelled
         \/ SendLoopCancelled \/ ReplayCancelled \/ ReplaySubscribed
  PROVE  ClientInv'
<1>1. CASE ReceiveSteps
  <2>1. UNCHANGED <<queueVars, appVars, replay, send, heartbeat, beats>> /\ tracked' \subseteq tracked
    BY <1>1 DEF ReceiveSteps, ReceiveClose, ReceiveInvalid, ReceiveFails, ReceiveAck,
         ReceiveMessage, Delivered, beatVars
  <2>2. QueuesFit'
    BY <2>1 DEF ClientInv, QueuesFit, queueVars, appVars, Queued
  <2> QED
    BY <2>1, <2>2, QuietStep DEF ClientInv, ClientTypes
<1>2. CASE HeartbeatDue
  <2>1. /\ UNCHANGED <<queueVars, appVars, replay, send>> /\ heartbeat = "delaying"
        /\ heartbeat' = "waiting" /\ beats < MaxSends + MaxHeartbeats /\ beats' = beats + 1
        /\ tracked' \subseteq tracked \cup {beats + 1}
    BY <1>2 DEF HeartbeatDue
  <2>2. QueuesFit'
    BY <2>1 DEF ClientInv, QueuesFit, queueVars, appVars, Queued
  <2>3. beats + 1 \in Heartbeats /\ beats + 1 \in MaxSends .. MaxSends + MaxHeartbeats
    BY <2>1, ClientConstants DEF ClientInv, ClientTypes
  <2> QED
    BY <2>1, <2>2, <2>3, QuietStep DEF ClientInv, ClientTypes
<1>3. CASE HeartbeatCancelled
  <2>1. /\ UNCHANGED <<queueVars, appVars, replay, send, beats>> /\ heartbeat # "slotted"
        /\ heartbeat' = "canceled" /\ tracked' \subseteq tracked
    BY <1>3 DEF HeartbeatCancelled
  <2>2. QueuesFit'
    BY <2>1 DEF ClientInv, QueuesFit, queueVars, appVars, Queued
  <2> QED
    BY <2>1, <2>2, QuietStep DEF ClientInv, ClientTypes
<1>4. CASE SendLoopCancelled \/ ReplayCancelled \/ ReplaySubscribed
  <2>1. /\ UNCHANGED <<queueVars, appVars, heartbeat, beats, tracked>>
        /\ \/ send = "waiting" /\ send' = "canceled" /\ UNCHANGED replay
           \/ replay = "gate" /\ replay' = "canceled" /\ UNCHANGED send
           \/ replay = "subscribing" /\ replay' = "sending" /\ UNCHANGED send
    BY <1>4 DEF SendLoopCancelled, ReplayCancelled, ReplaySubscribed, beatVars
  <2>2. QueuesFit'
    BY <2>1 DEF ClientInv, QueuesFit, queueVars, appVars, Queued
  <2> QED
    BY <2>1, <2>2, QuietStep DEF ClientInv, ClientTypes
<1> QED
  BY <1>1, <1>2, <1>3, <1>4

\* Whoever holds a slot or a message finds room when the slot is given back.
LEMMA SlotToGiveBack ==
  ASSUME ClientInv, ~completed
  PROVE  /\ Owners # {} => Released(freeSlots, 1) = freeSlots + 1
         /\ heartbeat = "slotted" => Released(freeSlots, 1) = freeSlots + 1
         /\ pending # <<>> => Released(freeSlots, 1) = freeSlots + 1
         /\ sending # <<>> => Released(freeSlots, 1) = freeSlots + 1
         /\ \A n \in Nat : n <= Len(backlog) + Len(outbound) => Released(freeSlots, n) = freeSlots + n
<1>1. /\ freeSlots + Cardinality(Owners) + Beat
           + (Len(backlog) + Len(pending) + Len(sending) + Len(outbound)) = SendQueueCapacity
      /\ freeSlots \in Nat /\ SendQueueCapacity \in Nat
  BY SumIsConserved, ClientConstants DEF ClientInv, SlotSum, ClientTypes
<1>2. /\ Len(backlog) \in Nat /\ Len(outbound) \in Nat /\ Len(pending) \in Nat /\ Len(sending) \in Nat
      /\ pending # <<>> => Len(pending) > 0
      /\ sending # <<>> => Len(sending) > 0
  BY DEF ClientInv, ClientTypes
<1>3. /\ Cardinality(Owners) \in Nat /\ (Owners # {} => Cardinality(Owners) > 0)
      /\ Beat \in Nat /\ (heartbeat = "slotted" => Beat = 1)
  BY OwnersCounted DEF Beat
<1>4. \A n \in Nat : freeSlots + n <= SendQueueCapacity => Released(freeSlots, n) = freeSlots + n
  BY <1>1, ReleasedSlots DEF ClientInv, ClientTypes
<1> DEFINE owned == Cardinality(Owners)
<1> HIDE DEF owned
<1>5. /\ owned > 0 \/ Beat = 1 \/ Len(pending) > 0 \/ Len(sending) > 0 => freeSlots + 1 <= SendQueueCapacity
      /\ \A n \in Nat : n <= Len(backlog) + Len(outbound) => freeSlots + n <= SendQueueCapacity
  BY <1>1, <1>2, <1>3 DEF owned
<1> QED
  BY <1>2, <1>3, <1>4, <1>5 DEF owned

\* Three queues in a row.
LEMMA ThreeQueues ==
  ASSUME NEW A, NEW b \in Seq(A), NEW p \in Seq(A), NEW s \in Seq(A)
  PROVE  b \o p \o s \in Seq(A)
<1>1. b \o p \in Seq(A)
  OBVIOUS
<1> DEFINE x == b \o p
<1> HIDE DEF x
<1>2. x \o s \in Seq(A)
  BY <1>1 DEF x
<1> QED
  BY <1>2 DEF x

\* A message at the end of the second of two queues.
LEMMA AppendedToBoth ==
  ASSUME NEW A, NEW s \in Seq(A), NEW t \in Seq(A), NEW e \in A
  PROVE  s \o Append(t, e) = Append(s \o t, e)
  OBVIOUS

-----------------------------------------------------------------------------
(* The steps that move messages and slots.                                 *)

\* A call moves on without enqueueing: it takes a slot, gives one back, or neither.
LEMMA CallStepKeeps ==
  ASSUME ClientInv, TasksFit', NEW n \in Sends, NEW pc \in CallKindsOf \ {"accepted"},
         call[n] # "accepted", CallStep(n, pc), completed' = completed,
         UNCHANGED <<taskVars, outbound, backlog, pending, sending, accepted, sent, beatVars>>,
         commands' = commands \/ (commands' = commands \cup {n} /\ call[n] = "idle"),
         freeSlots' \in Nat,
         ~completed => freeSlots' + Cardinality(Owners') = freeSlots + Cardinality(Owners)
  PROVE  ClientInv'
<1>0. UNCHANGED <<replay, send, heartbeat, beats, tracked>>
  BY DEF taskVars, beatVars
<1>1. Queued' = Queued /\ call' \in [Sends -> CallKindsOf]
  BY CallMovesOn DEF ClientInv
<1>2. ClientTypes'
  BY <1>0, <1>1 DEF ClientInv, ClientTypes, CallKindsOf
<1>3. QueuesFit'
  BY <1>0, <1>1 DEF ClientInv, QueuesFit
<1>4. SlotsConserved'
  <2>1. SlotSum /\ Beat' = Beat
    BY <1>0, SumIsConserved DEF ClientInv, Beat
  <2>2. freeSlots \in Nat /\ Cardinality(Owners) \in Nat
    BY OwnersCounted DEF ClientInv, ClientTypes
  <2>3. SlotSum'
    BY <2>1, <2>2 DEF SlotSum
  <2> QED
    BY <1>2, <2>3, SumIsConservedNext
<1>5. AcceptedInOrder'
  <2>1. Held' = Held /\ Held \in Seq(Queued)
    BY FourQueues DEF ClientInv, ClientTypes, Held
  <2>2. Queued \cap (Sends \ commands') = Queued \cap (Sends \ commands)
    BY ClientConstants DEF Queued
  <2>3. Among(Held, Sends \ commands') = Among(Held, Sends \ commands)
    BY <2>1, <2>2, AmongSame
  <2> QED
    BY <2>1, <2>3 DEF ClientInv, AcceptedInOrder
<1> QED
  BY <1>2, <1>3, <1>4, <1>5 DEF ClientInv

\* A call is made, waits, is cancelled, or is checked.
LEMMA CallsQuiet ==
  ASSUME ClientInv, TasksFit', NEW n \in Sends,
         SendCall(n) \/ CallerCancels(n) \/ SlotAwaited(n) \/ CommandChecks(n)
  PROVE  ClientInv'
<1>0. /\ freeSlots \in Nat /\ Cardinality(Owners) \in Nat /\ completed \in BOOLEAN
      /\ call[n] = "idle" \/ call[n] = "waiting" => n \notin Owners
      /\ call[n] = "checking" \/ call[n] = "slotted" => n \in Owners
  BY OwnersCounted DEF ClientInv, ClientTypes, Owners
<1>1. CASE SendCall(n)
  <2>1. PICK pc \in {"waiting", "rejected"} : CallStep(n, pc)
    BY <1>1 DEF SendCall
  <2>2. Owners' = Owners \ {n} /\ call[n] = "idle"
    BY <1>1, <2>1, CallMovesOn DEF SendCall, CallKindsOf, ClientInv
  <2>3. Owners' = Owners
    BY <1>0, <2>2
  <2> QED
    BY <1>0, <1>1, <2>1, <2>3, CallStepKeeps DEF SendCall, queueVars, CallKindsOf
<1>2. CASE CallerCancels(n)
  <2>1. Owners' = Owners \ {n} /\ call[n] = "waiting" /\ CallStep(n, "rejected")
    BY <1>2, CallMovesOn DEF CallerCancels, CallKindsOf, ClientInv
  <2>2. Owners' = Owners
    BY <1>0, <2>1
  <2> QED
    BY <1>0, <1>2, <2>1, <2>2, CallStepKeeps DEF CallerCancels, queueVars, CallKindsOf
<1>3. CASE SlotAwaited(n)
  <2>0. /\ call[n] = "waiting" /\ completed' = completed /\ commands' = commands
        /\ UNCHANGED <<taskVars, outbound, backlog, pending, sending, accepted, sent, beatVars>>
    BY <1>3 DEF SlotAwaited
  <2>1. CASE freeSlots > 0 /\ freeSlots' = freeSlots - 1 /\ CallStep(n, "checking")
    <3>1. Owners' = Owners \cup {n}
      BY <2>0, <2>1, CallMovesOn DEF CallKindsOf, ClientInv
    <3>2. freeSlots' \in Nat /\ freeSlots' + Cardinality(Owners') = freeSlots + Cardinality(Owners)
      BY <1>0, <2>0, <2>1, <3>1, OwnersCounted
    <3> QED
      BY <2>0, <2>1, <3>2, CallStepKeeps DEF CallKindsOf
  <2>2. CASE freeSlots > 0 /\ freeSlots' = freeSlots - 1 /\ CallStep(n, "slotted")
    <3>1. Owners' = Owners \cup {n}
      BY <2>0, <2>2, CallMovesOn DEF CallKindsOf, ClientInv
    <3>2. freeSlots' \in Nat /\ freeSlots' + Cardinality(Owners') = freeSlots + Cardinality(Owners)
      BY <1>0, <2>0, <2>2, <3>1, OwnersCounted
    <3> QED
      BY <2>0, <2>2, <3>2, CallStepKeeps DEF CallKindsOf
  <2>3. CASE freeSlots' = freeSlots /\ CallStep(n, "rejected")
    <3>1. Owners' = Owners \ {n}
      BY <2>0, <2>3, CallMovesOn DEF CallKindsOf, ClientInv
    <3>2. freeSlots' \in Nat /\ freeSlots' + Cardinality(Owners') = freeSlots + Cardinality(Owners)
      BY <1>0, <2>0, <2>3, <3>1
    <3> QED
      BY <2>0, <2>3, <3>2, CallStepKeeps DEF CallKindsOf
  <2> QED
    BY <1>3, <2>1, <2>2, <2>3 DEF SlotAwaited
<1>4. CASE CommandChecks(n)
  <2>0. /\ call[n] = "checking" /\ completed' = completed /\ commands' = commands
        /\ UNCHANGED <<taskVars, outbound, backlog, pending, sending, accepted, sent, beatVars>>
    BY <1>4 DEF CommandChecks
  <2>1. CASE freeSlots' = freeSlots /\ CallStep(n, "slotted")
    <3>1. Owners' = Owners \cup {n}
      BY <2>0, <2>1, CallMovesOn DEF CallKindsOf, ClientInv
    <3>2. Owners' = Owners
      BY <1>0, <2>0, <3>1
    <3> QED
      BY <1>0, <2>0, <2>1, <3>2, CallStepKeeps DEF CallKindsOf
  <2>2. CASE freeSlots' = Released(freeSlots, 1) /\ CallStep(n, "rejected")
    <3>1. Owners' = Owners \ {n}
      BY <2>0, <2>2, CallMovesOn DEF CallKindsOf, ClientInv
    <3>2. freeSlots' \in Nat
      BY <1>0, <2>2, ReleasedSlots
    <3>3. ~completed => freeSlots' + Cardinality(Owners') = freeSlots + Cardinality(Owners)
      BY <1>0, <2>0, <2>2, <3>1, SlotToGiveBack, OwnersCounted
    <3> QED
      BY <2>0, <2>2, <3>2, <3>3, CallStepKeeps DEF CallKindsOf
  <2> QED
    BY <1>4, <2>1, <2>2 DEF CommandChecks, ReleaseSendSlot
<1> QED
  BY <1>1, <1>2, <1>3, <1>4

\* A call enqueues its message, or finds that sends are no longer accepted.
LEMMA EnqueueStep ==
  ASSUME ClientInv, TasksFit', NEW n \in Sends, EnqueueOwned(n)
  PROVE  ClientInv'
<1>0. /\ freeSlots \in Nat /\ Cardinality(Owners) \in Nat /\ completed \in BOOLEAN
      /\ call[n] = "slotted" /\ n \in Owners /\ n \notin Queued
      /\ commands' = commands /\ sent' = sent /\ completed' = completed
      /\ UNCHANGED <<taskVars, backlog, pending, sending, beatVars>>
  BY OwnersCounted, ClientConstants DEF ClientInv, ClientTypes, Owners, EnqueueOwned, Queued
<1>1. CASE acceptingSends
  <2>0. /\ outbound' = Append(outbound, n) /\ CallStep(n, "accepted") /\ freeSlots' = freeSlots
        /\ accepted' = IF n \in commands THEN accepted ELSE Append(accepted, n)
        /\ UNCHANGED <<replay, send, heartbeat, beats, tracked>>
    BY <1>0, <1>1 DEF EnqueueOwned, taskVars, beatVars
  <2>1. Queued' = Queued \cup {n} /\ Owners' = Owners \ {n} /\ call' \in [Sends -> CallKindsOf]
    BY <1>0, <2>0, CallMovesOn DEF ClientInv, CallKindsOf
  <2>2. /\ backlog \in Seq(Queued') /\ pending \in Seq(Queued') /\ sending \in Seq(Queued')
        /\ outbound \in Seq(Queued')
    BY <2>1, Wider DEF ClientInv, ClientTypes
  <2>3. outbound' \in Seq(Queued') /\ Len(outbound') = Len(outbound) + 1 /\ Len(outbound) \in Nat
    BY <2>0, <2>1, <2>2, Lengths
  <2>4. accepted' \in Seq(Sends)
    BY <2>0 DEF ClientInv, ClientTypes
  <2>5. ClientTypes'
    BY <1>0, <2>0, <2>1, <2>2, <2>3, <2>4 DEF ClientInv, ClientTypes, CallKindsOf
  <2>6. QueuesFit'
    BY <1>0, <2>0, <2>1 DEF ClientInv, QueuesFit
  <2>7. SlotsConserved'
    <3>1. SlotSum /\ Beat' = Beat
      BY <2>0, SumIsConserved DEF ClientInv, Beat
    <3>2. Cardinality(Owners') = Cardinality(Owners) - 1
      BY <1>0, <2>1, OwnersCounted
    <3>3. Len(backlog) \in Nat /\ Len(pending) \in Nat /\ Len(sending) \in Nat
      BY DEF ClientInv, ClientTypes
    <3>4. Beat \in Nat
      BY DEF Beat
    <3>5. SlotSum'
      BY <1>0, <2>0, <2>3, <3>1, <3>2, <3>3, <3>4 DEF SlotSum
    <3> QED
      BY <2>5, <3>5, SumIsConservedNext
  <2>8. AcceptedInOrder'
    <3> DEFINE ours == Sends \ commands
    <3>1. Held' = Append(Held, n) /\ Held \in Seq(Queued') /\ n \in Queued'
      <4>1. n \in Queued' /\ Held \in Seq(Queued')
        BY <2>1, <2>2, FourQueues DEF Held
      <4>2. PICK x \in Seq(Queued') : x = backlog \o pending \o sending
        BY <2>2, ThreeQueues
      <4>3. Held = x \o outbound /\ Held' = x \o Append(outbound, n)
        BY <1>0, <2>0, <4>2 DEF Held
      <4>4. x \o Append(outbound, n) = Append(x \o outbound, n)
        BY <2>2, <4>1, AppendedToBoth
      <4> QED
        BY <4>1, <4>3, <4>4
    <3>2. Among(Held', ours) = IF n \in ours THEN Append(Among(Held, ours), n) ELSE Among(Held, ours)
      BY <3>1, AmongAppend
    <3>3. Among(Held, ours) \in Seq(Sends)
      <4>1. Among(Held, ours) \in Seq(Queued' \cap ours)
        BY <3>1, AmongKeeps
      <4>2. Queued' \cap ours \subseteq Sends
        OBVIOUS
      <4> HIDE DEF ours
      <4> QED
        BY <4>1, <4>2, Wider
    <3>4. ~completed => accepted = sent \o Among(Held, ours)
      BY DEF ClientInv, AcceptedInOrder
    <3> HIDE DEF ours
    <3>5. sent \o Append(Among(Held, ours), n) = Append(sent \o Among(Held, ours), n)
      BY <3>3, AppendedToBoth DEF ClientInv, ClientTypes
    <3>6. n \in ours <=> n \notin commands
      BY DEF ours
    <3>7. ~completed => accepted' = sent \o Among(Held', ours)
      BY <2>0, <3>2, <3>4, <3>5, <3>6
    <3> QED
      BY <1>0, <3>7 DEF AcceptedInOrder, ours
  <2> QED
    BY <2>5, <2>6, <2>7, <2>8 DEF ClientInv
<1>2. CASE ~acceptingSends
  <2>0. /\ CallStep(n, "rejected") /\ freeSlots' = Released(freeSlots, 1)
        /\ UNCHANGED <<outbound, accepted>>
    BY <1>2 DEF EnqueueOwned, ReleaseSendSlot
  <2>1. Owners' = Owners \ {n}
    BY <1>0, <2>0, CallMovesOn DEF ClientInv, CallKindsOf
  <2>2. freeSlots' \in Nat
    BY <1>0, <2>0, ReleasedSlots
  <2>3. ~completed => freeSlots' + Cardinality(Owners') = freeSlots + Cardinality(Owners)
    BY <1>0, <2>0, <2>1, SlotToGiveBack, OwnersCounted
  <2> QED
    BY <1>0, <2>0, <2>2, <2>3, CallStepKeeps DEF CallKindsOf
<1> QED
  BY <1>1, <1>2

\* The queues when only two of them hold messages.
LEMMA TwoQueues ==
  ASSUME NEW A, NEW x \in Seq(A), NEW y \in Seq(A)
  PROVE  /\ <<>> \o <<>> \o x \o y = x \o y /\ <<>> \o x \o <<>> \o y = x \o y
         /\ x \o <<>> \o <<>> \o y = x \o y /\ <<>> \o x \o <<>> \o <<>> = x
         /\ x \o y \in Seq(A) /\ Len(x \o y) = Len(x) + Len(y)
<1>1. <<>> \o x = x /\ x \o <<>> = x /\ <<>> \o <<>> = <<>>
  OBVIOUS
<1>2. x \o y \in Seq(A) /\ Len(x \o y) = Len(x) + Len(y)
  OBVIOUS
<1> QED
  BY <1>1, <1>2

\* The first message of a queue.
LEMMA FirstOfQueue ==
  ASSUME NEW A, NEW s \in Seq(A), s # <<>>
  PROVE  /\ Head(s) \in A /\ Tail(s) \in Seq(A) /\ <<Head(s)>> \in Seq(A)
         /\ <<Head(s)>> \o Tail(s) = s /\ Len(Tail(s)) = Len(s) - 1 /\ Len(<<Head(s)>>) = 1
  OBVIOUS

\* The filter of one message.
LEMMA AmongOne ==
  ASSUME NEW A, NEW z \in Seq(A), Len(z) = 1, NEW S
  PROVE  Among(z, S) = IF z[1] \in S THEN z ELSE <<>>
<1>1. <<>> \in Seq(A)
  OBVIOUS
<1>2. PICK m \in A : m = z[1] /\ Append(<<>>, m) = z
  OBVIOUS
<1>3. Among(Append(<<>>, m), S) = IF m \in S THEN Append(Among(<<>>, S), m) ELSE Among(<<>>, S)
  BY <1>1, AmongAppend
<1> QED
  BY <1>2, <1>3, AmongEmpty

\* The first of what is left becomes the last of what is done.
LEMMA HeadMoves ==
  ASSUME NEW A, NEW s \in Seq(A), NEW y \in Seq(A), NEW m \in A
  PROVE  s \o (<<m>> \o y) = Append(s, m) \o y
  OBVIOUS

\* The first of the messages leaves for the server: it is now the last of those sent.
LEMMA SentInOrder ==
  ASSUME NEW A, NEW x \in Seq(A), NEW z \in Seq(A), Len(z) = 1, sent \in Seq(Sends),
         ~completed => accepted = sent \o Among(z \o x, Sends \ commands)
  PROVE  ~completed => accepted = Sent(z[1]) \o Among(x, Sends \ commands)
<1> DEFINE ours == Sends \ commands
<1>0. ~completed => accepted = sent \o Among(z \o x, ours)
  OBVIOUS
<1>1. ours \subseteq Sends /\ Sent(z[1]) = IF z[1] \in ours THEN Append(sent, z[1]) ELSE sent
  BY DEF Sent
<1> HIDE DEF ours
<1>2. PICK y \in Seq(Sends) : y = Among(x, ours)
  <2>1. Among(x, ours) \in Seq(A \cap ours)
    BY AmongKeeps
  <2>2. A \cap ours \subseteq Sends
    BY <1>1
  <2> QED
    BY <2>1, <2>2, Wider
<1>3. Among(z, ours) = IF z[1] \in ours THEN z ELSE <<>>
  BY AmongOne
<1>4. Among(z \o x, ours) = Among(z, ours) \o Among(x, ours)
  BY AmongConcat
<1>5. CASE z[1] \in ours
  <2>1. PICK m \in Sends : m = z[1] /\ z = <<m>>
    BY <1>1, <1>5
  <2>2. sent \o (<<m>> \o y) = Append(sent, m) \o y
    BY <1>0, HeadMoves
  <2> QED
    BY <1>0, <1>1, <1>2, <1>3, <1>4, <1>5, <2>1, <2>2 DEF ours
<1>6. CASE z[1] \notin ours
  <2>1. <<>> \o y = y
    OBVIOUS
  <2> QED
    BY <1>0, <1>1, <1>2, <1>3, <1>4, <1>6, <2>1 DEF ours
<1> QED
  BY <1>5, <1>6

\* Messages change queues and keep their order; no slot changes hands.
LEMMA RequeuedStep ==
  ASSUME ClientInv, TasksFit', UNCHANGED <<appVars, freeSlots, completed, heartbeat, beats, tracked>>,
         backlog' \in Seq(Queued), pending' \in Seq(Queued), sending' \in Seq(Queued),
         outbound' \in Seq(Queued), QueuesFit', Held' = Held
  PROVE  ClientInv'
<1>0. UNCHANGED <<call, commands, accepted, sent>>
  BY DEF appVars
<1>1. Queued' = Queued /\ Owners' = Owners
  BY <1>0 DEF Queued, Owners
<1>2. ClientTypes'
  BY <1>0, <1>1 DEF ClientInv, ClientTypes
<1>3. SlotsConserved'
  BY <1>0, <1>1 DEF ClientInv, SlotsConserved
<1>4. AcceptedInOrder'
  BY <1>0 DEF ClientInv, AcceptedInOrder
<1> QED
  BY <1>2, <1>3, <1>4 DEF ClientInv

\* The sender takes the first message of the queue, or puts back one it failed to send.
LEMMA SendLoopStep ==
  ASSUME ClientInv, TasksFit', SendLoopReads \/ SendLoopFails
  PROVE  ClientInv'
<1>0. /\ UNCHANGED <<replay, heartbeat, pending, freeSlots, completed, appVars, beats, tracked>>
      /\ send \in {"waiting", "sending"}
  BY DEF SendLoopReads, SendLoopFails, beatVars
<1>1. backlog = <<>> /\ pending = <<>> /\ replay = "done"
  BY <1>0 DEF ClientInv, TasksFit, QueuesFit
<1>2. outbound \in Seq(Queued) /\ sending \in Seq(Queued) /\ <<>> \in Seq(Queued)
  BY DEF ClientInv, ClientTypes
<1>3. Queued' = Queued
  BY <1>0 DEF appVars, Queued
<1>4. CASE SendLoopReads
  <2>1. /\ send = "waiting" /\ send' = "sending" /\ outbound # <<>> /\ sending = <<>>
        /\ sending' = <<Head(outbound)>> /\ outbound' = Tail(outbound) /\ backlog' = <<>>
        /\ pending' = <<>>
    BY <1>0, <1>1, <1>4 DEF SendLoopReads, ClientInv, QueuesFit
  <2>2. /\ sending' \in Seq(Queued) /\ outbound' \in Seq(Queued) /\ Head(outbound) \in Queued
        /\ sending' \o outbound' = outbound
    BY <1>2, <2>1, FirstOfQueue
  <2>3. Held' = Held
    <3>1. Held = <<>> \o outbound
      BY <1>1, <1>2, <2>1, TwoQueues DEF Held
    <3>2. Held' = sending' \o outbound'
      BY <2>1, <2>2, TwoQueues DEF Held
    <3>3. <<>> \o outbound = outbound
      BY <1>2
    <3> QED
      BY <2>2, <3>1, <3>2, <3>3
  <2>4. QueuesFit'
    BY <1>0, <1>1, <1>3, <2>1, <2>2 DEF QueuesFit
  <2> QED
    BY <1>0, <1>2, <2>1, <2>2, <2>3, <2>4, RequeuedStep
<1>5. CASE SendLoopFails
  <2>1. /\ send = "sending" /\ send' \in {"error", "canceled"} /\ backlog' = <<>> \o sending
        /\ sending' = <<>> /\ outbound' = outbound /\ pending' = <<>>
    BY <1>0, <1>1, <1>5 DEF SendLoopFails, Failures
  <2>2. backlog' = sending
    BY <1>2, <2>1
  <2>3. Held' = Held
    <3>1. Held = sending \o outbound
      BY <1>1, <1>2, TwoQueues DEF Held
    <3>2. Held' = sending \o outbound
      BY <1>2, <2>1, <2>2, TwoQueues DEF Held
    <3> QED
      BY <3>1, <3>2
  <2>4. QueuesFit'
    BY <1>0, <1>1, <2>1 DEF QueuesFit
  <2> QED
    BY <1>0, <1>2, <2>1, <2>2, <2>3, <2>4, RequeuedStep
<1> QED
  BY <1>4, <1>5

\* The length of two sequences in a row.
LEMMA JoinedLength ==
  ASSUME NEW A, NEW z \in Seq(A), NEW x \in Seq(A)
  PROVE  Len(z \o x) = Len(z) + Len(x) /\ Len(x) \in Nat
  OBVIOUS

\* A message has reached the server: its slot is free again.
LEMMA SentStep ==
  ASSUME ClientInv, TasksFit', QueuesFit', NEW z \in Seq(Queued), Len(z) = 1,
         NEW x \in Seq(Queued), Held = z \o x, Held' = x, sent' = Sent(z[1]), freeSlots' = Released(freeSlots, 1),
         ~completed => Released(freeSlots, 1) = freeSlots + 1,
         UNCHANGED <<call, commands, accepted, completed, heartbeat, beats, tracked>>,
         backlog' \in Seq(Queued), pending' \in Seq(Queued), sending' \in Seq(Queued),
         outbound' \in Seq(Queued)
  PROVE  ClientInv'
<1>1. Queued' = Queued /\ Owners' = Owners
  BY DEF Queued, Owners
<1>2. freeSlots' \in Nat
  BY ReleasedSlots DEF ClientInv, ClientTypes
<1>3. sent' \in Seq(Sends)
  BY DEF Sent, ClientInv, ClientTypes
<1>4. ClientTypes'
  BY <1>1, <1>2, <1>3 DEF ClientInv, ClientTypes
<1>5. SlotsConserved'
  <2>1. Len(z \o x) = 1 + Len(x) /\ Len(x) \in Nat
    <3>1. Len(z \o x) = Len(z) + Len(x) /\ Len(x) \in Nat
      BY JoinedLength, Zenon
    <3> QED
      BY <3>1
  <2>2. /\ freeSlots \in Nat /\ Cardinality(Owners) \in Nat /\ Beat \in Nat /\ Beat' = Beat
    BY OwnersCounted DEF ClientInv, ClientTypes, Beat
  <2>3. ~completed => freeSlots + Cardinality(Owners) + Beat + (1 + Len(x)) = SendQueueCapacity
    BY <2>1 DEF ClientInv, SlotsConserved, Owners, Beat
  <2>4. ~completed' => freeSlots' + Cardinality(Owners') + Beat' + Len(Held') = SendQueueCapacity
    <3> DEFINE owned == Cardinality(Owners)
    <3>1. Cardinality(Owners') = owned /\ Len(Held') = Len(x) /\ owned \in Nat
      BY <1>1, <2>2
    <3> HIDE DEF owned
    <3>2. ~completed => freeSlots + owned + Beat + (1 + Len(x)) = SendQueueCapacity
      BY <2>3 DEF owned
    <3>3. ~completed => (freeSlots + 1) + owned + Beat + Len(x) = SendQueueCapacity
      BY <2>1, <2>2, <3>1, <3>2
    <3> QED
      BY <2>2, <3>1, <3>3
  <2> QED
    BY <2>4 DEF SlotsConserved, Owners, Beat
<1>6. AcceptedInOrder'
  <2>1. ~completed => accepted = sent \o Among(z \o x, Sends \ commands)
    BY DEF ClientInv, AcceptedInOrder
  <2>2. sent \in Seq(Sends)
    BY DEF ClientInv, ClientTypes
  <2>3. ~completed => accepted = Sent(z[1]) \o Among(x, Sends \ commands)
    BY <2>1, <2>2, SentInOrder
  <2> QED
    BY <2>3 DEF AcceptedInOrder
<1> QED
  BY <1>4, <1>5, <1>6 DEF ClientInv

\* The send loop has sent its message.
LEMMA SendLoopSentStep ==
  ASSUME ClientInv, TasksFit', SendLoopSent
  PROVE  ClientInv'
<1>0. /\ UNCHANGED <<replay, heartbeat, outbound, backlog, pending, completed>>
      /\ UNCHANGED <<call, commands, accepted, beats, tracked>>
      /\ send = "sending" /\ send' = "waiting" /\ sending' = <<>>
      /\ sent' = Sent(Head(sending)) /\ freeSlots' = Released(freeSlots, 1)
  BY DEF SendLoopSent, ReleaseSendSlot
<1>1. backlog = <<>> /\ pending = <<>> /\ replay = "done"
  BY <1>0 DEF ClientInv, TasksFit, QueuesFit
<1>2. PICK m \in Queued : sending = <<m>>
  BY <1>0 DEF ClientInv, QueuesFit
<1>3. outbound \in Seq(Queued) /\ sending \in Seq(Queued) /\ <<>> \in Seq(Queued)
  BY DEF ClientInv, ClientTypes
<1>4. Held = sending \o outbound
  BY <1>1, <1>3, TwoQueues DEF Held
<1>5. Held' = outbound
  <2>1. Held' = <<>> \o outbound
    BY <1>0, <1>1, <1>3, TwoQueues DEF Held
  <2> QED
    BY <1>3, <2>1
<1>6. Head(sending) = sending[1] /\ sending # <<>> /\ Len(sending) = 1
  BY <1>2
<1>7. QueuesFit'
  BY <1>0, <1>1 DEF QueuesFit
<1>8. ~completed => Released(freeSlots, 1) = freeSlots + 1
  BY <1>6, SlotToGiveBack
<1> QED
  BY <1>0, <1>1, <1>3, <1>4, <1>5, <1>6, <1>7, <1>8, SentStep

\* The replay has sent a message, or all of them.
LEMMA ReplaySendsStep ==
  ASSUME ClientInv, TasksFit', ReplaySends
  PROVE  ClientInv'
<1>0. /\ UNCHANGED <<send, heartbeat, outbound, backlog, sending, completed>>
      /\ UNCHANGED <<call, commands, accepted, beats, tracked>> /\ replay = "sending"
  BY DEF ReplaySends
<1>1. send = "off" /\ heartbeat = "off" /\ backlog = <<>> /\ sending = <<>>
  BY <1>0 DEF ClientInv, TasksFit, QueuesFit
<1>2. CASE pending = <<>>
  <2>1. UNCHANGED <<queueVars, appVars>> /\ replay' = "done"
    BY <1>0, <1>2 DEF ReplaySends, queueVars, appVars
  <2>2. QueuesFit'
    BY <1>0, <1>1, <1>2, <2>1 DEF QueuesFit, queueVars
  <2> QED
    BY <1>0, <2>1, <2>2, QuietStep DEF ClientInv, ClientTypes
<1>3. CASE pending # <<>>
  <2>1. /\ pending' = Tail(pending) /\ freeSlots' = Released(freeSlots, 1) /\ replay' = replay
        /\ sent' = Sent(Head(pending))
    BY <1>3 DEF ReplaySends, ReleaseSendSlot
  <2>2. outbound \in Seq(Queued) /\ pending \in Seq(Queued) /\ <<>> \in Seq(Queued)
    BY DEF ClientInv, ClientTypes
  <2> DEFINE z == <<Head(pending)>> x == Tail(pending) \o outbound
  <2>3. /\ Tail(pending) \in Seq(Queued) /\ z \in Seq(Queued) /\ Len(z) = 1
        /\ z[1] = Head(pending) /\ z \o Tail(pending) = pending
    BY <1>3, <2>2, FirstOfQueue
  <2>4. x \in Seq(Queued)
    BY <2>2, <2>3, TwoQueues
  <2>5. Held = z \o x
    <3>1. Held = pending \o outbound
      BY <1>1, <2>2, TwoQueues DEF Held
    <3> HIDE DEF z
    <3>2. (z \o Tail(pending)) \o outbound = z \o x
      BY <2>2, <2>3, Grouped
    <3> QED
      BY <2>3, <3>1, <3>2
  <2>6. Held' = x
    BY <1>0, <1>1, <2>1, <2>2, <2>3, TwoQueues DEF Held
  <2>7. QueuesFit'
    BY <1>0, <1>1, <2>1 DEF QueuesFit
  <2>8. ~completed => Released(freeSlots, 1) = freeSlots + 1
    BY <1>3, SlotToGiveBack
  <2> HIDE DEF z, x
  <2>9. sent' = Sent(z[1]) /\ pending' \in Seq(Queued)
    BY <2>1, <2>3
  <2> QED
    BY <1>0, <1>1, <2>1, <2>2, <2>3, <2>4, <2>5, <2>6, <2>7, <2>8, <2>9, SentStep
<1> QED
  BY <1>2, <1>3

\* The replay fails: what it has not sent goes back to the backlog.
LEMMA ReplayFailsStep ==
  ASSUME ClientInv, TasksFit', ReplayFails
  PROVE  ClientInv'
<1>0. /\ UNCHANGED <<send, heartbeat, outbound, sending, freeSlots, completed, appVars, beats, tracked>>
      /\ replay \in {"subscribing", "sending"} /\ replay' \in {"error", "canceled"}
      /\ backlog' = backlog \o pending /\ pending' = <<>>
  BY DEF ReplayFails, Failures
<1>1. send = "off" /\ backlog = <<>> /\ sending = <<>>
  BY <1>0 DEF ClientInv, TasksFit, QueuesFit
<1>2. outbound \in Seq(Queued) /\ pending \in Seq(Queued) /\ <<>> \in Seq(Queued)
  BY DEF ClientInv, ClientTypes
<1>3. backlog' = pending
  BY <1>0, <1>1, <1>2
<1>4. Held' = Held
  <2>1. Held = pending \o outbound
    BY <1>1, <1>2, TwoQueues DEF Held
  <2>2. Held' = pending \o outbound
    BY <1>0, <1>1, <1>2, <1>3, TwoQueues DEF Held
  <2> QED
    BY <2>1, <2>2
<1>5. QueuesFit'
  BY <1>0, <1>1 DEF QueuesFit
<1> QED
  BY <1>0, <1>1, <1>2, <1>3, <1>4, <1>5, RequeuedStep

\* The replay drains the backlog and the queue.
LEMMA DrainStep ==
  ASSUME ClientInv, TasksFit', DrainPending
  PROVE  ClientInv'
<1> DEFINE x == backlog \o outbound
<1>0. /\ UNCHANGED <<send, heartbeat, sending, completed, appVars, beats>>
      /\ replay = "gate" /\ replay' = "subscribing" /\ pending' = Among(x, Application)
      /\ freeSlots' = Released(freeSlots, Len(x) - Len(pending'))
      /\ backlog' = <<>> /\ outbound' = <<>> /\ tracked' = {}
  BY DEF DrainPending
<1>1. send = "off" /\ heartbeat = "off" /\ pending = <<>> /\ sending = <<>>
  BY <1>0 DEF ClientInv, TasksFit, QueuesFit
<1>2. /\ backlog \in Seq(Queued) /\ outbound \in Seq(Queued) /\ <<>> \in Seq(Queued)
      /\ x \in Seq(Queued) /\ Len(x) = Len(backlog) + Len(outbound) /\ Len(x) \in Nat
  <2>1. backlog \in Seq(Queued) /\ outbound \in Seq(Queued) /\ <<>> \in Seq(Queued)
    BY DEF ClientInv, ClientTypes
  <2> QED
    BY <2>1, Lengths
<1>3. Queued' = Queued /\ Owners' = Owners /\ UNCHANGED <<call, commands, accepted, sent>>
  BY <1>0 DEF appVars, Queued, Owners
<1> HIDE DEF x
<1>4. /\ pending' \in Seq(Queued) /\ Len(pending') <= Len(x) /\ Len(pending') \in Nat
  <2>1. pending' \in Seq(Queued \cap Application) /\ Len(pending') <= Len(x)
    BY <1>0, <1>2, AmongKeeps
  <2>2. pending' \in Seq(Queued)
    BY <2>1, Wider
  <2> QED
    BY <2>1, <2>2
<1> DEFINE dropped == Len(x) - Len(pending')
<1>5. dropped \in Nat /\ dropped <= Len(backlog) + Len(outbound)
  BY <1>2, <1>4
<1>6. /\ freeSlots' \in Nat /\ freeSlots \in Nat
      /\ ~completed => freeSlots' = freeSlots + dropped
  <2>1. freeSlots' = Released(freeSlots, dropped)
    BY <1>0
  <2> HIDE DEF dropped
  <2>2. freeSlots' \in Nat /\ freeSlots \in Nat
    BY <1>5, <2>1, ReleasedSlots DEF ClientInv, ClientTypes
  <2>3. ~completed => freeSlots' = freeSlots + dropped
    BY <1>5, <2>1, SlotToGiveBack
  <2> QED
    BY <2>2, <2>3
<1>7. ClientTypes'
  BY <1>0, <1>1, <1>2, <1>3, <1>4, <1>6 DEF ClientInv, ClientTypes
<1>8. QueuesFit'
  BY <1>0, <1>1 DEF QueuesFit
<1>9. SlotsConserved'
  <2> DEFINE owned == Cardinality(Owners)
  <2>1. /\ owned \in Nat /\ Cardinality(Owners') = owned /\ Beat' = Beat /\ Beat \in Nat
    BY <1>0, <1>3, OwnersCounted DEF Beat
  <2>2. /\ Len(backlog') = 0 /\ Len(outbound') = 0 /\ Len(sending') = 0
        /\ Len(sending) = 0 /\ Len(pending) = 0
    BY <1>0, <1>1
  <2>3. /\ ~completed => freeSlots + owned + Beat
             + (Len(backlog) + Len(pending) + Len(sending) + Len(outbound)) = SendQueueCapacity
        /\ Len(backlog) \in Nat /\ Len(outbound) \in Nat
    BY SumIsConserved, <1>2 DEF ClientInv, SlotSum
  <2> HIDE DEF owned
  <2>4. ~completed => (freeSlots + dropped) + owned + Beat + (0 + Len(pending') + 0 + 0)
                        = SendQueueCapacity
    BY <1>2, <1>4, <1>6, <2>1, <2>2, <2>3
  <2>5. SlotSum'
    BY <1>0, <1>6, <2>1, <2>2, <2>4 DEF SlotSum
  <2> QED
    BY <1>7, <2>5, SumIsConservedNext
<1>10. AcceptedInOrder'
  <2> DEFINE ours == Sends \ commands
  <2>1. Held = x
    <3>1. Held = backlog \o outbound
      BY <1>1, <1>2, TwoQueues DEF Held
    <3> QED
      BY <3>1 DEF x
  <2>2. Held' = pending'
    BY <1>0, <1>1, <1>2, <1>4, TwoQueues DEF Held
  <2>3. Queued \cap ours \subseteq Application
    BY ClientConstants DEF Application, ClientInv, ClientTypes
  <2>4. ~completed => accepted = sent \o Among(x, ours)
    BY <2>1 DEF ClientInv, AcceptedInOrder
  <2> HIDE DEF ours
  <2>5. Among(Among(x, Application), ours) = Among(x, ours)
    BY <1>2, <2>3, AmongTwice
  <2>6. ~completed => accepted = sent \o Among(Held', ours)
    BY <1>0, <2>2, <2>4, <2>5
  <2> QED
    BY <1>0, <1>3, <2>6 DEF AcceptedInOrder, ours
<1> QED
  BY <1>7, <1>8, <1>9, <1>10 DEF ClientInv

\* A heartbeat gets its slot, and enqueues its message.
LEMMA HeartbeatStep ==
  ASSUME ClientInv, TasksFit', HeartbeatSlot \/ HeartbeatEnqueues
  PROVE  ClientInv'
<1>0. /\ UNCHANGED <<send, replay, backlog, pending, sending, completed, appVars, beats>>
      /\ heartbeat \in {"waiting", "slotted"}
  BY DEF HeartbeatSlot, HeartbeatEnqueues, beatVars
<1>1. /\ Queued' = Queued /\ Owners' = Owners /\ UNCHANGED <<call, commands, accepted, sent>>
      /\ beats \in Queued /\ beats \notin Sends /\ beats \in Heartbeats
  BY <1>0, ClientConstants DEF appVars, Queued, Owners, ClientInv, ClientTypes
<1> DEFINE owned == Cardinality(Owners) held == Len(backlog) + Len(pending) + Len(sending)
<1>2. /\ owned \in Nat /\ held \in Nat /\ freeSlots \in Nat /\ Len(outbound) \in Nat
      /\ Cardinality(Owners') = owned
      /\ ~completed => freeSlots + owned + Beat + (held + Len(outbound)) = SendQueueCapacity
  BY <1>1, OwnersCounted, SumIsConserved DEF ClientInv, ClientTypes, SlotSum
<1>3. held = (Len(backlog) + Len(pending) + Len(sending))'
  BY <1>0
<1> HIDE DEF owned
<1>4. ASSUME UNCHANGED outbound, ClientTypes' PROVE QueuesFit' /\ AcceptedInOrder'
  <2>1. Held' = Held
    BY <1>0, <1>4 DEF Held
  <2>2. QueuesFit'
    BY <1>0, <1>1 DEF ClientInv, QueuesFit
  <2> QED
    BY <1>0, <1>1, <2>1, <2>2 DEF ClientInv, AcceptedInOrder
<1>5. CASE HeartbeatSlot
  <2>1. /\ freeSlots > 0 /\ freeSlots' = freeSlots - 1 /\ heartbeat = "waiting"
        /\ heartbeat' = "slotted" /\ UNCHANGED <<outbound, tracked>>
    BY <1>5 DEF HeartbeatSlot, beatVars
  <2>2. freeSlots' \in Nat
    BY <1>2, <2>1
  <2>3. ClientTypes'
    BY <1>0, <1>1, <2>1, <2>2 DEF ClientInv, ClientTypes
  <2>4. Beat = 0 /\ Beat' = 1
    BY <2>1 DEF Beat
  <2> HIDE DEF held
  <2>5. ~completed => (freeSlots - 1) + owned + 1 + (held + Len(outbound)) = SendQueueCapacity
    BY <1>2, <2>4
  <2>6. SlotSum'
    BY <1>0, <1>2, <1>3, <2>1, <2>4, <2>5 DEF SlotSum, held
  <2> QED
    BY <1>4, <2>1, <2>3, <2>6, SumIsConservedNext DEF ClientInv
<1>6. CASE HeartbeatEnqueues /\ ~acceptingSends
  <2>1. /\ freeSlots' = Released(freeSlots, 1) /\ heartbeat = "slotted"
        /\ heartbeat' = "error" /\ UNCHANGED outbound /\ tracked' \subseteq tracked
    BY <1>6 DEF HeartbeatEnqueues, ReleaseSendSlot
  <2>2. freeSlots' \in Nat /\ (~completed => freeSlots' = freeSlots + 1)
    BY <1>2, <2>1, SlotToGiveBack, ReleasedSlots DEF ClientInv, ClientTypes
  <2>3. ClientTypes'
    BY <1>0, <1>1, <2>1, <2>2 DEF ClientInv, ClientTypes
  <2>4. Beat = 1 /\ Beat' = 0
    BY <2>1 DEF Beat
  <2> HIDE DEF held
  <2>5. ~completed => (freeSlots + 1) + owned + 0 + (held + Len(outbound)) = SendQueueCapacity
    BY <1>2, <2>4
  <2>6. SlotSum'
    BY <1>0, <1>2, <1>3, <2>1, <2>2, <2>4, <2>5 DEF SlotSum, held
  <2> QED
    BY <1>4, <2>1, <2>3, <2>6, SumIsConservedNext DEF ClientInv
<1>7. CASE HeartbeatEnqueues /\ acceptingSends
  <2>1. /\ outbound' = Append(outbound, beats) /\ heartbeat = "slotted"
        /\ heartbeat' = "delaying" /\ UNCHANGED <<freeSlots, tracked>>
    BY <1>7 DEF HeartbeatEnqueues
  <2>2. outbound' \in Seq(Queued) /\ Len(outbound') = Len(outbound) + 1
    <3>1. outbound \in Seq(Queued)
      BY DEF ClientInv, ClientTypes
    <3> QED
      BY <1>1, <2>1, <3>1, Lengths
  <2>3. ClientTypes'
    BY <1>0, <1>1, <1>2, <2>1, <2>2 DEF ClientInv, ClientTypes
  <2>4. Beat = 1 /\ Beat' = 0
    BY <2>1 DEF Beat
  <2>5. QueuesFit'
    BY <1>0, <1>1, <2>1 DEF ClientInv, QueuesFit
  <2>6. SlotsConserved'
    <3> HIDE DEF held
    <3>1. ~completed => freeSlots + owned + 0 + (held + (Len(outbound) + 1)) = SendQueueCapacity
      BY <1>2, <2>4
    <3>2. SlotSum'
      BY <1>0, <1>2, <1>3, <2>1, <2>2, <2>4, <3>1 DEF SlotSum, held
    <3> QED
      BY <2>3, <3>2, SumIsConservedNext
  <2>7. AcceptedInOrder'
    <3> DEFINE ours == Sends \ commands
    <3>1. Held' = Append(Held, beats) /\ Held \in Seq(Queued)
      <4>0. /\ backlog \in Seq(Queued) /\ pending \in Seq(Queued) /\ sending \in Seq(Queued)
            /\ outbound \in Seq(Queued)
        BY DEF ClientInv, ClientTypes
      <4>1. Held \in Seq(Queued)
        BY <4>0, FourQueues DEF Held
      <4>2. PICK x \in Seq(Queued) : x = backlog \o pending \o sending
        BY <4>0, ThreeQueues
      <4>3. Held = x \o outbound /\ Held' = x \o Append(outbound, beats)
        BY <1>0, <2>1, <4>2 DEF Held
      <4>4. x \o Append(outbound, beats) = Append(x \o outbound, beats)
        BY <1>1, <4>0, AppendedToBoth
      <4> QED
        BY <4>1, <4>3, <4>4
    <3>2. beats \notin ours
      BY <1>1
    <3>3. ~completed => accepted = sent \o Among(Held, ours)
      BY DEF ClientInv, AcceptedInOrder
    <3> HIDE DEF ours
    <3>4. Among(Append(Held, beats), ours) = Among(Held, ours)
      BY <1>1, <3>1, <3>2, AmongAppend
    <3>5. ~completed => accepted = sent \o Among(Held', ours)
      BY <3>1, <3>3, <3>4
    <3> QED
      BY <1>0, <1>1, <3>5 DEF AcceptedInOrder, ours
  <2> QED
    BY <2>3, <2>5, <2>6, <2>7 DEF ClientInv
<1> QED
  BY <1>5, <1>6, <1>7

-----------------------------------------------------------------------------
(* The theorems about the client.                                          *)

\* A client that has just been made.
LEMMA ClientInitially == Init => ClientInv
<1> SUFFICES ASSUME Init PROVE ClientInv
  OBVIOUS
<1>1. Owners = {} /\ Cardinality(Owners) = 0 /\ Queued = Heartbeats
  <2>1. Owners = {} /\ Queued = Heartbeats
    BY DEF Init, Owners, Queued
  <2> QED
    BY <2>1, FS_EmptySet
<1>2. ClientTypes
  <2>1. /\ SendQueueCapacity \in Nat /\ MaxSends \in Nat
        /\ MaxSends \in MaxSends .. MaxSends + MaxHeartbeats
    BY ClientConstants
  <2>2. \A S : <<>> \in Seq(S)
    OBVIOUS
  <2>3. /\ beats \in MaxSends .. MaxSends + MaxHeartbeats /\ tracked \subseteq Heartbeats
        /\ heartbeat \notin {"waiting", "slotted"} /\ commands \subseteq Sends
        /\ freeSlots \in Nat /\ completed \in BOOLEAN
    BY <2>1 DEF Init
  <2>4. call \in [Sends -> {"idle", "waiting", "checking", "slotted", "accepted", "rejected"}]
    BY DEF Init
  <2>5. /\ accepted \in Seq(Sends) /\ sent \in Seq(Sends)
        /\ backlog \in Seq(Queued) /\ pending \in Seq(Queued)
        /\ sending \in Seq(Queued) /\ outbound \in Seq(Queued)
    BY <2>2 DEF Init
  <2> QED
    BY <2>3, <2>4, <2>5 DEF ClientTypes
<1>3. TasksFit
  BY DEF Init, TasksFit
<1>4. QueuesFit
  BY DEF Init, QueuesFit
<1>5. Len(<<>>) = 0 /\ <<>> \o <<>> = <<>>
  OBVIOUS
<1>6. SlotSum
  BY <1>1, <1>5, ClientConstants DEF Init, SlotSum, Beat
<1>7. AcceptedInOrder
  BY <1>5, AmongEmpty DEF Init, AcceptedInOrder, Held
<1> QED
  BY <1>2, <1>3, <1>4, <1>6, <1>7, SumIsConserved DEF ClientInv

\* Every step keeps the invariant.
LEMMA ClientStep ==
  ASSUME ClientInv, [Next]_vars
  PROVE  ClientInv'
<1>0. TasksFit'
  BY TasksStep DEF ClientInv
<1>1. CASE RunSteps
  <2>1. CASE RunCompletes
    BY <1>0, <2>1, CompletedStep DEF RunCompletes
  <2> QED
    BY <1>0, <1>1, <2>1, RunQuiet
<1>2. CASE ConnectAsync \/ ConnectCancelled
  BY <1>0, <1>2, RunQuiet
<1>3. CASE DisconnectAsync \/ Dispose
  <2>1. CASE StopWithoutRun
    <3>1. CompleteChannels /\ UNCHANGED <<taskVars, pending, sending, appVars, freeSlots, beats>>
      BY <1>3, <2>1 DEF DisconnectAsync, Dispose, StopWithoutRun
    <3> QED
      BY <1>0, <3>1, CompletedStep
  <2> QED
    BY <1>0, <1>3, <2>1, RunQuiet
<1>4. CASE SendSteps
  BY <1>0, <1>4, TasksQuiet, SendLoopStep, SendLoopSentStep DEF SendSteps
<1>5. CASE HeartbeatSteps
  BY <1>0, <1>5, TasksQuiet, HeartbeatStep DEF HeartbeatSteps
<1>6. CASE ReceiveSteps
  BY <1>0, <1>6, TasksQuiet
<1>7. CASE ReplaySteps
  BY <1>0, <1>7, TasksQuiet, DrainStep, ReplayFailsStep, ReplaySendsStep DEF ReplaySteps
<1>8. CASE \E n \in Sends : SendCall(n) \/ CallerCancels(n) \/ CallSteps(n)
  <2>1. PICK n \in Sends : SendCall(n) \/ CallerCancels(n) \/ CallSteps(n)
    BY <1>8
  <2> QED
    BY <1>0, <2>1, CallsQuiet, EnqueueStep DEF CallSteps
<1>9. CASE UNCHANGED vars
  <2>1. /\ UNCHANGED <<queueVars, appVars>> /\ UNCHANGED <<heartbeat, beats, tracked, send, replay>>
    BY <1>9 DEF vars, taskVars, beatVars
  <2>2. QueuesFit'
    BY <2>1 DEF ClientInv, QueuesFit, queueVars, appVars, Queued
  <2> QED
    BY <1>0, <2>1, <2>2, QuietStep DEF ClientInv, ClientTypes
<1> QED
  BY <1>1, <1>2, <1>3, <1>4, <1>5, <1>6, <1>7, <1>8, <1>9 DEF Next

\* The invariant holds throughout.
THEOREM ClientInvariant == Spec => []ClientInv
<1>1. Init => ClientInv
  BY ClientInitially
<1>2. ClientInv /\ [Next]_vars => ClientInv'
  BY ClientStep
<1> QED
  BY <1>1, <1>2, PTL DEF Spec

\* RealtimeClient.cs, the send queue: until the channels are completed, every slot is free,
\* with a call that is about to enqueue, or with one message that is held, for every capacity
\* of the queue and any number of calls, heartbeats and reconnections.
THEOREM SlotsAreConserved == Spec => []SlotsConserved
<1>1. ClientInv => SlotsConserved
  BY DEF ClientInv
<1> QED
  BY <1>1, ClientInvariant, PTL

\* RealtimeClient.cs, the send loop and the replay: the application messages accepted are
\* those sent followed by those held, in the order they were accepted, for every capacity
\* of the queue and any number of calls, heartbeats and reconnections.
THEOREM AcceptedMessagesInOrder == Spec => []AcceptedInOrder
<1>1. ClientInv => AcceptedInOrder
  BY DEF ClientInv
<1> QED
  BY <1>1, ClientInvariant, PTL

\* Where the receive loop can be while the run is where it is, and in which state a client
\* without a run is.
RunFits ==
  /\ receive \in {"reading", "delivering"} =>
       run \in {"replaying", "establishing", "online", "teardown", "observing"}
  /\ run = "notStarted" => state = "Disconnected"
  /\ run = "done" => state \in {"Disconnected", "Faulted"}

\* One step of the run loop, or of the calls that start and stop it.
LEMMA RunFitsRun ==
  ASSUME RunFits, RunSteps \/ ConnectAsync \/ ConnectCancelled \/ DisconnectAsync \/ Dispose
  PROVE  RunFits'
<1>1. CASE TransportConnected \/ ConnectAsync \/ ConnectCancelled
  BY <1>1 DEF RunFits, TransportConnected, ConnectAsync, ConnectCancelled, stateVars, taskVars
<1>2. CASE ConnectFails
  BY <1>2 DEF RunFits, ConnectFails, taskVars
<1>3. CASE ReplayAwaited \/ OnlineEnds \/ Teardown
  BY <1>3 DEF RunFits, ReplayAwaited, OnlineEnds, Teardown, stateVars, taskVars
<1>4. CASE Establish
  BY <1>4 DEF RunFits, Establish
<1>5. CASE SiblingsObserved
  BY <1>5 DEF RunFits, SiblingsObserved, ReceiveDone, taskVars
<1>6. CASE Cleanup \/ DelayEnds
  BY <1>6 DEF RunFits, Cleanup, DelayEnds, taskVars
<1>7. CASE RunCompletes \/ RunFinishes
  BY <1>7 DEF RunFits, RunCompletes, RunFinishes, taskVars
<1>8. CASE DisconnectAsync \/ Dispose
  BY <1>8 DEF RunFits, DisconnectAsync, Dispose, StopWithoutRun, taskVars
<1> QED
  BY <1>1, <1>2, <1>3, <1>4, <1>5, <1>6, <1>7, <1>8 DEF RunSteps

\* The other steps but those of the receive loop leave the run and the state alone.
LEMMA RunUntouched ==
  ASSUME \/ SendSteps \/ HeartbeatSteps \/ ReplaySteps
         \/ \E n \in Sends : SendCall(n) \/ CallerCancels(n) \/ CallSteps(n)
  PROVE  UNCHANGED <<run, state, receive>>
<1>1. CASE SendSteps
  BY <1>1 DEF SendSteps, SendLoopReads, SendLoopCancelled, SendLoopSent, SendLoopFails, runVars, stateVars
<1>2. CASE HeartbeatSteps
  BY <1>2 DEF HeartbeatSteps, HeartbeatDue, HeartbeatSlot, HeartbeatEnqueues, HeartbeatCancelled, runVars, stateVars
<1>3. CASE ReplaySteps
  BY <1>3 DEF ReplaySteps, DrainPending, ReplayCancelled, ReplaySubscribed, ReplayFails, ReplaySends, runVars, stateVars
<1>4. CASE \E n \in Sends : SendCall(n) \/ CallerCancels(n) \/ CallSteps(n)
  BY <1>4 DEF SendCall, CallerCancels, CallSteps, SlotAwaited, CommandChecks, EnqueueOwned, runVars, stateVars, taskVars
<1> QED
  BY <1>1, <1>2, <1>3, <1>4

\* The receive loop leaves the run alone.
LEMMA RunFitsReceive ==
  ASSUME RunFits, ReceiveSteps
  PROVE  RunFits' /\ run # "done" /\ UNCHANGED run
<1>1. receive \in {"reading", "delivering"} /\ UNCHANGED run
  BY DEF ReceiveSteps, ReceiveClose, ReceiveInvalid, ReceiveFails, ReceiveAck, ReceiveMessage, Delivered, runVars
<1> QED
  BY <1>1 DEF RunFits

\* RealtimeClient.cs, RunAsync: a client whose run has ended is in a terminal state, and
\* stays in it whatever is still going on or is called afterwards.
THEOREM StoppedClientStaysStopped == Spec => StopsForGood
<1>1. Init => RunFits
  BY DEF Init, RunFits
<1>2. RunFits /\ [Next]_vars => RunFits'
  <2> SUFFICES ASSUME RunFits, [Next]_vars PROVE RunFits'
    OBVIOUS
  <2>1. CASE RunSteps \/ ConnectAsync \/ ConnectCancelled \/ DisconnectAsync \/ Dispose
    BY <2>1, RunFitsRun
  <2>2. CASE ReceiveSteps
    BY <2>2, RunFitsReceive
  <2>3. ASSUME UNCHANGED <<run, state, receive>> PROVE RunFits'
    BY <2>3 DEF RunFits
  <2>4. CASE UNCHANGED vars
    BY <2>3, <2>4 DEF vars, runVars, stateVars, taskVars
  <2> QED
    BY <2>1, <2>2, <2>3, <2>4, RunUntouched DEF Next
<1>3. RunFits /\ [Next]_vars =>
        [run = "done" => state \in {"Disconnected", "Faulted"} /\ state' = state /\ run' = run]_vars
  <2> SUFFICES ASSUME RunFits, Next, run = "done"
               PROVE  state \in {"Disconnected", "Faulted"} /\ state' = state /\ run' = run
    OBVIOUS
  <2>1. state \in {"Disconnected", "Faulted"}
    BY DEF RunFits
  <2>2. CASE RunSteps
    BY <2>2 DEF RunSteps, ConnectFails, TransportConnected, ReplayAwaited, Establish, OnlineEnds,
         Teardown, SiblingsObserved, Cleanup, DelayEnds, RunCompletes, RunFinishes
  <2>3. CASE ConnectAsync \/ ConnectCancelled \/ DisconnectAsync \/ Dispose
    BY <2>1, <2>3 DEF ConnectAsync, ConnectCancelled, DisconnectAsync, Dispose, StopWithoutRun, stateVars
  <2>4. CASE ReceiveSteps
    BY <2>4, RunFitsReceive
  <2> QED
    BY <2>1, <2>2, <2>3, <2>4, RunUntouched DEF Next
<1> QED
  BY <1>1, <1>2, <1>3, PTL DEF Spec, StopsForGood
=============================================================================
