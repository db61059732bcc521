SPECIFICATION FairSpec
CONSTANTS
  s1 = s1
  s2 = s2
  Slot <- OneSlot
  Name <- BobAndCommander1
  Index = {1}
  MaxProgress = 1
  MaxLoads = 2
  MaxFaults = 1
  Faults = {"throw", "kill"}
  OneClient = TRUE
  PromptWriter = TRUE
INVARIANT StoredUnderOwnName
PROPERTY StoreMonotone
PROPERTY LoadSeesSaves
PROPERTY StopSavesAll
PROPERTY LoadsFinish
PROPERTY SavesLand
