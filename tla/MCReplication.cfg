SPECIFICATION ViewSpec
CONSTANTS
  Player = {me, other}
  Me = me
  NoPlayer = NoPlayer
  Pools <- MCPools
  MaxSlots = 2
  MaxGen = 1
  MaxAge = 1
  MaxDelay = 1
  MaxSnaps = 2
  MaxLane = 1
INVARIANT RosterTrue
INVARIANT LockLetsGo
PROPERTY GhostsVanish
