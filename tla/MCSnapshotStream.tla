--------------------------- MODULE MCSnapshotStream ---------------------------
(* A small instance of SnapshotStream: nothing in view, one ship that      *)
(* moves by less or by more than the wire shows, and a crowd that needs    *)
(* two datagrams.                                                          *)
EXTENDS SnapshotStream, TLC

MCView == {<<>>, 1 :> 0, 1 :> 1, 1 :> 2, (1 :> 0) @@ (2 :> 2)}
=============================================================================
