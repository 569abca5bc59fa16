------------------------------ MODULE MCRelay ------------------------------
(* Two lives of one node, a run and a short request for it, and one relay     *)
(* thread.                                                                    *)
EXTENDS Relay

CONSTANTS a, a1, a2, run, ask

MCNameOf == (a1 :> a) @@ (a2 :> a)
MCTarget == (run :> a) @@ (ask :> a)
=============================================================================
