SPECIFICATION Spec
CONSTANTS
  Session = {s1}
  NoSession = NoSession
  MaxSlots = 3
  MaxGen = 1
  Pools <- MCPools
  MaxEnergy = 1
  Missiles = 1
  MaxNpcs = 1
  MaxFired = 1
SYMMETRY SessionSymmetry
INVARIANT OrdersOnLiving
