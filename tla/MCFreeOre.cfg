SPECIFICATION Spec
CONSTANTS
  Player = {p1, p2}
  Belt = {b1, b2}
  Slot = {s1, s2, s3}
  None = None
  MaxRocks = 1
  RockUnits = 2
  Baseline = 2
  MiningYield = 2
  Capacity = 1
  MaxStock = 1
  MaxCans = 1
  MaxAway = 1
SYMMETRY EconomySymmetry
PROPERTY PoolPays
