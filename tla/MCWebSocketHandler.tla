------------------------- MODULE MCWebSocketHandler -------------------------
(***************************************************************************)
(* Small instance of WebSocketHandler: a queue of one and a single message *)
(* saturate at once, so that slow-consumer closes are reached.             *)
(***************************************************************************)
EXTENDS WebSocketHandler, TLC

CONSTANTS m1

MCMessages == {m1}
MCRegistryClosers == {DeliverClose, DrainClose}
OnlyDrain == {DrainClose}
MCClosers == {ReceiverClose, HeartbeatClose, Disposer} \cup RegistryClosers
MCAbortingClosers == RegistryClosers \cap {DeliverClose}
=============================================================================
