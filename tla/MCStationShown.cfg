SPECIFICATION MirrorSpec
CONSTANTS
  lave = lave
  System <- MCSystem
  None = None
  MaxFuel = 1
  Fugitive = 1
  MaxWanted = 1
  MaxFlight = 2
INVARIANT StationShownRightly
