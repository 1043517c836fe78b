-------------------------- MODULE MCTypeScriptClient --------------------------
(***************************************************************************)
(* Small instance of TypeScriptClient: two routes with a listener each.    *)
(***************************************************************************)
EXTENDS TypeScriptClient

CONSTANTS r1, r2, l1, l2

MCRouteOf == [l \in Listeners |-> IF l = l1 THEN r1 ELSE r2]
===============================================================================
