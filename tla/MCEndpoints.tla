----------------------------- MODULE MCEndpoints -----------------------------
(***************************************************************************)
(* The two ends of a connection, one at a time: a behaviour is one of the  *)
(* server's RealtimeConnection or one of the browser's TypeScriptClient,   *)
(* as part says, and leaves the variables of the other alone.  The server  *)
(* has a queue of two and two close calls besides the one DisposeAsync     *)
(* makes, one of them followed by Abort when it is cancelled; the browser  *)
(* has one route with a listener.                                          *)
(***************************************************************************)
EXTENDS RealtimeConnection, TLC

CONSTANTS m1, m2, bounded, plain, r1, l1

VARIABLES part, client

Browser == INSTANCE TypeScriptClient WITH
  Routes <- {r1}, Listeners <- {l1}, RouteOf <- l1 :> r1, MaximumAttempts <- 2,
  MaximumQueuedCommands <- 2, MaximumPendingCommands <- 2, MaxGeneration <- 3, MaxPublishes <- 1

MCMessages == {m1, m2}
MCClosers == {bounded, plain, Disposer}
MCAbortingClosers == {bounded}
Symmetry == Permutations(MCMessages)

MCInit == /\ part \in {"server", "browser"}
          /\ Init /\ Browser!Init

MCNext == \/ part = "server" /\ Next /\ UNCHANGED <<part, client>>
          \/ part = "browser" /\ Browser!Next /\ UNCHANGED <<part, vars>>

MCSpec == MCInit /\ [][MCNext]_<<part, client, vars>>

-----------------------------------------------------------------------------
\* Every publish is settled or held in exactly one place, and one that was handed to a
\* socket is never sent again (client.ts:478-525; TypeScriptClient).
HeldOnce == Browser!HeldOnce

\* The client says "open" only while its current socket is one whose subscriptions were
\* restored (client.ts:349-380, 633-675; TypeScriptClient).
OpenIsEstablished == Browser!OpenIsEstablished

\* The promise that connect hands to further callers belongs to an attempt that can still
\* settle it (client.ts:190-224; TypeScriptClient).
ConnectPromiseIsLive == Browser!ConnectPromiseIsLive
==============================================================================
