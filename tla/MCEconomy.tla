------------------------------ MODULE MCEconomy ------------------------------
(* Instances of Economy: two belts, two ships, a few rock slots.            *)
EXTENDS Economy, TLC
EconomySymmetry == Permutations(Player) \cup Permutations(Belt) \cup Permutations(Slot)
=============================================================================
