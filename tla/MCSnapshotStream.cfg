SPECIFICATION Spec
CONSTANTS
  View <- MCView
  Quantum = 2
  PerDatagram = 1
  Interval = 2
  RingSize = 2
  MaxTick = 4
  MaxInFlight = 2
  MaxInputs = 1
INVARIANT BaselinesTrue
PROPERTY BaselineStillHeld
