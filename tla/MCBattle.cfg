SPECIFICATION Spec
CONSTANTS
  Session = {s1}
  NoSession = NoSession
  MaxSlots = 3
  MaxGen = 1
  Pools <- MCPools
  MaxEnergy = 2
  Missiles = 2
  MaxNpcs = 1
  MaxFired = 1
SYMMETRY SessionSymmetry
INVARIANT SlotsExact
INVARIANT NpcKilledOnce
INVARIANT NoWalkingDead
PROPERTY HitsTheLock
