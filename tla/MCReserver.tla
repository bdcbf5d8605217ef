----------------------------- MODULE MCReserver -----------------------------
(* Two outputs of the same source, two callers, one client token.          *)
EXTENDS Reserver, TLC

CONSTANTS o1, o2

MCOutput == {o1, o2}
MCAmount == (o1 :> 1) @@ (o2 :> 2)
=============================================================================
