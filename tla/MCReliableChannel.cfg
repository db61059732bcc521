SPECIFICATION Spec
CONSTANTS
  a = a
  b = b
  Peer <- TwoPeers
  Msg = {1, 2}
  MaxSent = 2
  MaxInFlight = 2
SYMMETRY PeerSymmetry
INVARIANT InOrderOnce
INVARIANT NothingLost
INVARIANT BufferedPastGap
PROPERTY FifoSpec
CHECK_DEADLOCK FALSE
