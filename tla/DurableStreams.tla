---------------------------- MODULE DurableStreams ----------------------------
(***************************************************************************)
(* Durable messages: a publish command that appends to a Redis stream and  *)
(* then publishes on the bus (RealtimeDispatcher.cs), and the store whose  *)
(* consumers read the stream as a group, quarantine entries they cannot    *)
(* parse and take over what a dead consumer left (RedisMessaging.cs).  Any *)
(* Redis call may fail, with its effect or without, and a consumer may     *)
(* crash, MaxFaults times in all.                                          *)
(***************************************************************************)
EXTENDS Naturals, Sequences, FiniteSets

CONSTANTS
  Messages,     \* durable publish commands of clients
  Foreign,      \* entries others wrote that do not parse
  Consumers, None,
  ReadCount, MaxLength, MaxFaults

Entries == Messages \cup Foreign

VARIABLES
  pub,          \* per command: "new", "append", "publish", "acknowledged", "error"
  stream,       \* the entries ever added, in order
  trimmed,      \* how many of them the length limit has dropped
  lastRead,     \* how many of them the group has been given
  pending,      \* per entry the consumer it is pending for, or None
  idle,         \* pending entries idle for StreamClaimIdleMilliseconds
  acked, poison,\* acknowledged entries; entries copied to the poison stream
  cons,         \* per consumer: pc, page being parsed, deliveries collected, cursor
  handed,       \* ghost: entries given to an application
  faults

vars == <<pub, stream, trimmed, lastRead, pending, idle, acked, poison, cons, handed, faults>>
redis == <<stream, trimmed, lastRead, pending, idle, acked, poison>>

Resting == [pc |-> "rest", page |-> <<>>, out |-> <<>>, cursor |-> 0]
Elements(s) == {s[i] : i \in DOMAIN s}

Init == /\ pub = [m \in Messages |-> "new"] /\ stream = <<>> /\ trimmed = 0 /\ lastRead = 0
        /\ pending = [e \in Entries |-> None] /\ idle = {} /\ acked = {} /\ poison = {}
        /\ cons = [c \in Consumers |-> Resting] /\ handed = {} /\ faults = 0

MayFail == faults < MaxFaults /\ faults' = faults + 1
Calm == UNCHANGED faults
-----------------------------------------------------------------------------
\* StreamAddAsync with its approximate length limit: Redis may drop the oldest
\* entries beyond MaxLength, or keep some of them.
Added(e) == /\ stream' = Append(stream, e)
            /\ trimmed' \in {trimmed} \cup {n \in trimmed .. Len(stream') : Len(stream') - n >= MaxLength}
            /\ UNCHANGED <<lastRead, pending, idle, acked, poison>>

Command(m, from, to) == pub[m] = from /\ pub' = [pub EXCEPT ![m] = to]

\* DispatchAsync of an approved event class: append, publish, acknowledge; a
\* Redis error answers with an error wherever it came.
DispatchAsync(m) == Command(m, "new", "append") /\ Calm /\ UNCHANGED <<redis, cons, handed>>
AppendAsync(m) ==
  /\ \/ Command(m, "append", "publish") /\ Added(m) /\ Calm
     \/ Command(m, "append", "error") /\ Added(m) /\ MayFail
     \/ Command(m, "append", "error") /\ UNCHANGED redis /\ MayFail
  /\ UNCHANGED <<cons, handed>>

\* The bus delivers to the instances subscribed at that moment and to no other.
PublishAsync(m) ==
  /\ \/ Command(m, "publish", "acknowledged") /\ Calm
     \/ Command(m, "publish", "error") /\ MayFail
  /\ UNCHANGED <<redis, cons, handed>>

\* Another writer of the same stream.
ForeignAdd(e) == /\ e \in Foreign \ Elements(stream) /\ Added(e) /\ Calm
                 /\ UNCHANGED <<pub, cons, handed>>
-----------------------------------------------------------------------------
Live(e) == \E i \in trimmed + 1 .. Len(stream) : stream[i] = e
InOrder(s) == SelectSeq(stream, LAMBDA e : e \in s)
Least(a, b) == IF a < b THEN a ELSE b

Became(c, r) == cons' = [cons EXCEPT ![c] = r]
Give(c, given) == /\ pending' = [e \in Entries |-> IF e \in given THEN c ELSE pending[e]]
                  /\ idle' = idle \ given

\* ReadAsync: the next new entries become pending for c; if the answer is lost
\* they stay pending.
ReadAsync(c) ==
  /\ cons[c].pc = "rest" /\ lastRead < Len(stream)
  /\ LET from == IF lastRead < trimmed THEN trimmed ELSE lastRead
         upto == Least(from + ReadCount, Len(stream))
         page == SubSeq(stream, from + 1, upto)
     IN /\ lastRead' = upto /\ Give(c, Elements(page))
        /\ \/ Became(c, [Resting EXCEPT !.pc = "read", !.page = page]) /\ Calm
           \/ UNCHANGED cons /\ MayFail
  /\ UNCHANGED <<pub, stream, trimmed, acked, poison, handed>>

\* RecoverPendingAsync: pages of entries that have been idle, each with the
\* cursor of the one before; what was collected is returned at the end only.
\* Claiming drops pending entries that the length limit removed.
Claim(c) ==
  LET after == {stream[i] : i \in cons[c].cursor + 1 .. Len(stream)}
      found == InOrder(idle \cap after)
      page == SubSeq(found, 1, Least(ReadCount, Len(found)))
      last == CHOOSE i \in DOMAIN stream : stream[i] = page[Len(page)]
      live == SelectSeq(page, Live)
  IN /\ found # <<>>
     /\ pending' = [e \in Entries |-> IF e \notin Elements(page) THEN pending[e]
                                      ELSE IF Live(e) THEN c ELSE None]
     /\ idle' = idle \ Elements(page)
     /\ Became(c, [cons[c] EXCEPT !.pc = "recover", !.page = live, !.cursor = last])
     /\ Calm /\ UNCHANGED <<pub, stream, trimmed, lastRead, acked, poison, handed>>
RecoverPendingAsync(c) == cons[c].pc = "rest" /\ Claim(c)
NextPage(c) == cons[c].pc = "recover" /\ cons[c].page = <<>> /\ Claim(c)

\* ParseEntriesAsync: a valid entry is collected, another quarantined.
Parse(c) ==
  /\ cons[c].pc \in {"read", "recover"} /\ cons[c].page # <<>>
  /\ Became(c, IF Head(cons[c].page) \in Messages
               THEN [cons[c] EXCEPT !.page = Tail(@), !.out = Append(@, Head(cons[c].page))]
               ELSE [cons[c] EXCEPT !.pc = "copy"])
  /\ Calm /\ UNCHANGED <<pub, redis, handed>>

Acknowledged(e) == /\ acked' = acked \cup {e} /\ pending' = [pending EXCEPT ![e] = None]
                   /\ idle' = idle \ {e}

\* Mutant: acknowledged before the copy.
QuarantineAcksFirst(c) ==
  /\ cons[c].pc = "copy" /\ Acknowledged(Head(cons[c].page))
  /\ \/ Became(c, [cons[c] EXCEPT !.page = Tail(@),
                     !.pc = IF cons[c].cursor = 0 THEN "read" ELSE "recover"])
        /\ poison' = poison \cup {Head(cons[c].page)} /\ Calm
     \/ Became(c, Resting) /\ UNCHANGED poison /\ MayFail
  /\ UNCHANGED <<pub, stream, trimmed, lastRead, handed>>

\* Mutant: an entry already copied is passed over.
QuarantineCopiesOnce(c) ==
  /\ cons[c].pc = "copy"
  /\ IF Head(cons[c].page) \in poison
     THEN /\ UNCHANGED poison /\ Calm
          /\ Became(c, [cons[c] EXCEPT !.page = Tail(@),
                          !.pc = IF cons[c].cursor = 0 THEN "read" ELSE "recover"])
     ELSE /\ poison' = poison \cup {Head(cons[c].page)} /\ Calm
          /\ Became(c, [cons[c] EXCEPT !.pc = "ack"])
  /\ UNCHANGED <<pub, stream, trimmed, lastRead, pending, idle, acked, handed>>

\* QuarantineAsync: copy to the poison stream, then acknowledge.  A failure
\* ends the whole call: collected deliveries are not returned.
QuarantineCopies(c) ==
  /\ cons[c].pc = "copy"
  /\ \/ poison' = poison \cup {Head(cons[c].page)} /\ Became(c, [cons[c] EXCEPT !.pc = "ack"]) /\ Calm
     \/ \E added \in {{}, {Head(cons[c].page)}} : poison' = poison \cup added
        /\ Became(c, Resting) /\ MayFail
  /\ UNCHANGED <<pub, stream, trimmed, lastRead, pending, idle, acked, handed>>
QuarantineAcks(c) ==
  /\ cons[c].pc = "ack"
  /\ \/ /\ Acknowledged(Head(cons[c].page)) /\ Calm
        /\ Became(c, [cons[c] EXCEPT !.page = Tail(@),
                                     !.pc = IF cons[c].cursor = 0 THEN "read" ELSE "recover"])
     \/ Acknowledged(Head(cons[c].page)) /\ Became(c, Resting) /\ MayFail
     \/ UNCHANGED <<acked, pending, idle>> /\ Became(c, Resting) /\ MayFail
  /\ UNCHANGED <<pub, stream, trimmed, lastRead, poison, handed>>

\* The call returns its deliveries to the application (external), which handles
\* and acknowledges them one after the other.
Returns(c) ==
  /\ cons[c].pc \in {"read", "recover"} /\ cons[c].page = <<>>
  /\ Became(c, [Resting EXCEPT !.pc = "app", !.out = cons[c].out])
  /\ Calm /\ UNCHANGED <<pub, redis, handed>>
Handles(c) == /\ cons[c].pc = "app" /\ cons[c].out # <<>>
              /\ handed' = handed \cup {Head(cons[c].out)}
              /\ Became(c, [cons[c] EXCEPT !.pc = "done"])
              /\ Calm /\ UNCHANGED <<pub, redis>>
AcknowledgeAsync(c) ==
  /\ cons[c].pc = "done" /\ Became(c, [cons[c] EXCEPT !.pc = "app", !.out = Tail(@)])
  /\ \/ Acknowledged(Head(cons[c].out)) /\ Calm
     \/ UNCHANGED <<acked, pending, idle>> /\ MayFail
  /\ UNCHANGED <<pub, stream, trimmed, lastRead, poison, handed>>
Rests(c) == /\ cons[c].pc = "app" /\ cons[c].out = <<>> /\ Became(c, Resting)
            /\ Calm /\ UNCHANGED <<pub, redis, handed>>

Crash(c) == /\ cons[c].pc # "rest" /\ Became(c, Resting) /\ MayFail
            /\ UNCHANGED <<pub, redis, handed>>

\* Time passes over a pending entry, also one its consumer is working on.
BecomesIdle(e) == /\ pending[e] # None /\ e \notin idle /\ idle' = idle \cup {e}
                  /\ Calm /\ UNCHANGED <<pub, stream, trimmed, lastRead, pending, acked,
                                         poison, cons, handed>>

Works(c) == \/ ReadAsync(c) \/ RecoverPendingAsync(c) \/ NextPage(c) \/ Parse(c)
            \/ QuarantineCopies(c) \/ QuarantineAcks(c) \/ Returns(c) \/ Handles(c)
            \/ AcknowledgeAsync(c) \/ Rests(c)

Next == \/ \E m \in Messages : DispatchAsync(m) \/ AppendAsync(m) \/ PublishAsync(m)
        \/ \E e \in Entries : ForeignAdd(e) \/ BecomesIdle(e)
        \/ \E c \in Consumers : Works(c) \/ Crash(c)

\* A consumer keeps calling the store and the application keeps working.
Fairness == /\ \A c \in Consumers : WF_vars(Works(c))
            /\ \A e \in Entries : WF_vars(BecomesIdle(e))

Spec == Init /\ [][Next]_vars /\ Fairness
-----------------------------------------------------------------------------
Trimmed(e) == \E i \in 1 .. trimmed : stream[i] = e

\* Nothing durable is lost on the way (RealtimeDispatcher.cs:104,
\* RedisMessaging.cs:263): a command that was acknowledged to its client is in
\* the stream; an entry leaves the group's books only after an application had
\* it or the poison stream holds it; and an entry read and not yet
\* acknowledged is pending for somebody, whichever call failed and whoever
\* crashed, unless the length limit dropped it.
NothingIsLost ==
  /\ \A m \in Messages : pub[m] = "acknowledged" => m \in Elements(stream)
  /\ acked \subseteq handed \cup poison
  /\ \A i \in 1 .. lastRead : LET e == stream[i] IN
       e \in acked \/ pending[e] # None \/ Trimmed(e)

\* Every entry is settled in the end (RedisMessaging.cs:166): acknowledged,
\* after being handled or quarantined, or dropped by the length limit, although
\* the consumer that read it died, a page failed half-way, or its
\* acknowledgement was lost.
EntriesSettle ==
  \A e \in Entries : e \in Elements(stream) ~> (e \in acked \/ Trimmed(e))
=============================================================================
