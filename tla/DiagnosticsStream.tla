------------------------- MODULE DiagnosticsStream -------------------------
(***************************************************************************)
(* The event streams of sdk/typescript/src/diagnostics.ts (streamEvents    *)
(* and tailLogs): a fetch whose body is split into server-sent event       *)
(* blocks while it arrives in chunks of any size, retried until it is      *)
(* aborted, told to disconnect or refused for good.                        *)
(*                                                                         *)
(* A body is a sequence of characters: "n" and "r" end lines; a line of    *)
(* data is "1" or "2", malformed data "b", the event name disconnect "d"   *)
(* and any other name "h".                                                 *)
(***************************************************************************)
EXTENDS Naturals, Sequences, SequencesExt

CONSTANTS
  Bodies,     \* the response bodies the gateway may stream
  Statuses,   \* the status codes it may answer with
  MaxTries    \* requests before the stream is only aborted

VARIABLES
  phase,     \* where #runStream waits
  aborted,   \* cancellation.signal.aborted
  body,      \* what the response has not delivered yet
  consumed,  \* what it has
  buffer,    \* the local buffer of #consumeStream
  seen,      \* the events given to onEvent for this response
  tries

vars == <<phase, aborted, body, consumed, buffer, seen, tries>>

Init == /\ phase = "loop" /\ aborted = FALSE /\ body = <<>> /\ consumed = <<>>
        /\ buffer = <<>> /\ seen = <<>> /\ tries = 0

----------------------------------------------------------------------------
\* The length of the match of \r?\n\r?\n at position i of text, or 0.
Separator(text, i) ==
  LET char(j) == IF j <= Len(text) THEN text[j] ELSE "end"
      eol(j) == IF char(j) = "r" /\ char(j + 1) = "n" THEN 2 ELSE IF char(j) = "n" THEN 1 ELSE 0
  IN IF eol(i) > 0 /\ eol(i + eol(i)) > 0 THEN eol(i) + eol(i + eol(i)) ELSE 0

\* #dispatchStreamBlock, from what the block's lines hold.
Dispatch(marks) ==
  CASE "d" \in marks -> "disconnect"
    [] "h" \in marks -> "nothing"
    [] "b" \in marks -> "throw"
    [] marks = {} -> "nothing"
    [] OTHER -> "event"

(***************************************************************************)
(* The inner loop of #consumeStream: blocks are taken from the front of    *)
(* the buffer until no separator is left, one ends the stream or one       *)
(* throws.                                                                 *)
(***************************************************************************)
RECURSIVE TakeBlocks(_, _)
TakeBlocks(text, events) ==
  LET found == {i \in DOMAIN text : Separator(text, i) > 0}
  IN IF found = {} THEN [rest |-> text, events |-> events, outcome |-> "more"]
     ELSE LET i == CHOOSE i \in found : \A j \in found : i <= j
              block == ToSet(SubSeq(text, 1, i - 1)) \ {"n", "r"}
              rest == SubSeq(text, i + Separator(text, i), Len(text))
              kind == Dispatch(block)
          IN CASE kind \in {"disconnect", "throw"} ->
                    [rest |-> rest, events |-> events, outcome |-> kind]
               [] kind = "event" -> TakeBlocks(rest, Append(events, block))
               [] OTHER -> TakeBlocks(rest, events)

\* isPermanent.
Permanent(status) == status >= 400 /\ status < 500 /\ status \notin {408, 429}

----------------------------------------------------------------------------
\* The head of the loop of #runStream: the request is sent.
Request ==
  /\ phase = "loop"
  /\ IF aborted THEN phase' = "ended" /\ UNCHANGED tries
     ELSE tries < MaxTries /\ tries' = tries + 1 /\ phase' = "request"
  /\ UNCHANGED <<aborted, body, consumed, buffer, seen>>

\* The request fails or is refused.
Refused ==
  /\ phase = "request"
  /\ \/ aborted /\ phase' = "ended"
     \/ ~aborted /\ phase' = "wait"
     \/ ~aborted /\ \E status \in Statuses :
          phase' = IF Permanent(status) THEN "ended" ELSE "wait"
  /\ UNCHANGED <<aborted, body, consumed, buffer, seen, tries>>

Accepted ==
  /\ phase = "request" /\ ~aborted
  /\ body' \in Bodies
  /\ phase' = "read" /\ consumed' = <<>> /\ buffer' = <<>> /\ seen' = <<>>
  /\ UNCHANGED <<aborted, tries>>

\* Mutant: a block cut by the end of a chunk is not kept.
ReadUnbuffered(n) ==
  \E taken \in {TakeBlocks(SubSeq(body, 1, n), seen)} :
     /\ buffer' = taken.rest /\ seen' = taken.events
     /\ consumed' = consumed \o SubSeq(body, 1, n)
     /\ body' = SubSeq(body, n + 1, Len(body))
     /\ UNCHANGED <<aborted, phase, tries>>

(***************************************************************************)
(* A chunk of n characters, 0 when the body is done.  onEvent may call the *)
(* disposer; the blocks left in the buffer are dispatched all the same.    *)
(***************************************************************************)
Read(n) ==
  \E taken \in {TakeBlocks(buffer \o SubSeq(body, 1, n), seen)} :
     /\ buffer' = taken.rest /\ seen' = taken.events
     /\ consumed' = consumed \o SubSeq(body, 1, n)
     /\ body' = SubSeq(body, n + 1, Len(body))
     /\ aborted' \in {taken.outcome = "disconnect"}
                     \cup (IF taken.events = seen THEN {} ELSE {TRUE})
     /\ phase' = CASE taken.outcome = "disconnect" -> "ended"
                   [] taken.outcome = "throw" /\ aborted' -> "ended"
                   [] taken.outcome = "more" /\ n > 0 /\ ~aborted' -> "read"
                   [] OTHER -> "wait"
     /\ UNCHANGED tries

ReadChunk ==
  /\ phase = "read" /\ ~aborted
  /\ \E n \in 0..Len(body) : (n = 0 <=> body = <<>>) /\ Read(n)

\* The read is rejected: the signal was aborted, or the connection broke.
ReadFails ==
  /\ phase = "read"
  /\ phase' = IF aborted THEN "ended" ELSE "wait"
  /\ UNCHANGED <<aborted, body, consumed, buffer, seen, tries>>

\* #waitForStreamRetry: the timer, or the abort, whichever is first.
Retry ==
  /\ phase = "wait"
  /\ phase' = "loop"
  /\ body' = <<>> /\ consumed' = <<>> /\ buffer' = <<>> /\ seen' = <<>>
  /\ UNCHANGED <<aborted, tries>>

\* The disposer is called, or the duration is over.
Abort ==
  /\ ~aborted
  /\ aborted' = TRUE
  /\ UNCHANGED <<phase, body, consumed, buffer, seen, tries>>

Done == phase = "ended" /\ UNCHANGED vars

Step == Request \/ Refused \/ Accepted \/ ReadChunk \/ ReadFails \/ Retry
Next == Step \/ Abort \/ Done

Spec == Init /\ [][Next]_vars

----------------------------------------------------------------------------
(***************************************************************************)
(* The event stream format, line by line: an empty line ends a block.      *)
(***************************************************************************)
ByLines(text) ==
  LET step(acc, c) ==
        IF acc.over \/ c = "r" THEN acc
        ELSE IF c # "n" THEN [acc EXCEPT !.line = @ \cup {c}]
        ELSE IF acc.line # {} THEN [acc EXCEPT !.block = @ \cup acc.line, !.line = {}]
        ELSE LET kind == Dispatch(acc.block)
             IN [acc EXCEPT !.block = {},
                            !.over = kind \in {"disconnect", "throw"},
                            !.events = IF kind = "event" THEN Append(@, acc.block) ELSE @]
  IN FoldLeft(step, [line |-> {}, block |-> {}, over |-> FALSE, events |-> <<>>], text).events

(***************************************************************************)
(* However the body is cut into chunks, inside a separator too, the events *)
(* delivered are those of the event stream format for what has arrived:    *)
(* none twice, none lost, none after a disconnect (diagnostics.ts:241-258).*)
(***************************************************************************)
ChunkingIrrelevant == seen = ByLines(consumed)

=============================================================================
