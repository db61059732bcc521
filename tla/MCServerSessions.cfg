SPECIFICATION FairSpec
CONSTANTS
  e1 = e1
  e2 = e2
  Endpoint <- TwoEndpoints
  Name <- BlankOrDefault
  Index = {1, 2, 3}
  MaxPlayers = 2
  MaxEscorts = 1
  ShellTicks = 0
  GraceTicks = 1
INVARIANT TokenIndexExact
INVARIANT NoOrphans
INVARIANT NamesUnique
PROPERTY SessionsKept
PROPERTY SilenceReapsAll
