SPECIFICATION Spec
CONSTANTS
  e1 = e1
  e2 = e2
  Endpoint = {e1, e2}
  Player = {1}
  Row = {1, 2}
  RingSize = 1
  LogSize = 2
  MaxSessions = 1
  MaxEvents = 3
  MaxPushed = 4
  MaxTokens = 2
INVARIANT ReplayRaceFree
INVARIANT LogIsTail
CHECK_DEADLOCK FALSE
