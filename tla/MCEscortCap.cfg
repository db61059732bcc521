SPECIFICATION Spec
CONSTANTS
  e1 = e1
  e2 = e2
  Endpoint <- TwoEndpoints
  Name <- BlankOrBob
  Index = {1, 2}
  MaxPlayers = 1
  MaxEscorts = 1
  ShellTicks = 0
  GraceTicks = 1
INVARIANT CapCountsEscorts
