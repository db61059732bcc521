SPECIFICATION Spec
CONSTANTS
  lave = lave
  diso = diso
  None = None
  System <- MCSystem
  MaxFuel = 3
  Fugitive = 2
  MaxWanted = 3
INVARIANT DeepSpaceMarked
PROPERTY CleanWhenDocking
PROPERTY CruiseEnds
PROPERTY DockOrderEnds
