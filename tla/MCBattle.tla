------------------------------ MODULE MCBattle ------------------------------
(* Instances of Battle: few slots, so that a dead ship's slot is soon reused. *)
EXTENDS Battle, TLC

MCPools == {"hull", "order"}
SessionSymmetry == Permutations(Session)
=============================================================================
