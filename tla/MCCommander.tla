----------------------------- MODULE MCCommander -----------------------------
(* Two systems, a tank of two jumps, three wanted levels.                   *)
EXTENDS Commander
CONSTANTS lave, diso
MCSystem == {lave, diso}
=============================================================================
