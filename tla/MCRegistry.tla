----------------------------- MODULE MCRegistry -----------------------------
(* Two lives of one node; a heartbeat may be late, a record may expire and    *)
(* the controller may restart.                                                *)
EXTENDS Registry, TLC

CONSTANTS a, a1, a2

MCNameOf == (a1 :> a) @@ (a2 :> a)
=============================================================================
