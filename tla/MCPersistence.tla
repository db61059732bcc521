---------------------------- MODULE MCPersistence ----------------------------
(* Small instances of Persistence; 1 is Bob, and <<0, 1>> is Commander-1,  *)
(* which a client may also type.                                           *)
EXTENDS Persistence, TLC

CONSTANTS s1, s2

OneSlot == {s1}
TwoSlots == {s1, s2}
Bob == {<<1>>}
BobAndCommander1 == {<<1>>, <<0, 1>>}
BobAndBob2 == {<<1>>, <<1, 2>>}
=============================================================================
