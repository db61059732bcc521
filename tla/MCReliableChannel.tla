------------------------- MODULE MCReliableChannel -------------------------
(* A small instance of ReliableChannel.  Swapping the two ends changes     *)
(* nothing the properties see, so they are symmetric.                      *)
EXTENDS ReliableChannel, TLC

CONSTANTS a, b

TwoPeers == {a, b}
PeerSymmetry == Permutations(TwoPeers)
=============================================================================
