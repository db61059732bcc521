SPECIFICATION FairSpec
CONSTANTS
  s1 = s1
  s2 = s2
  Slot <- OneSlot
  Name <- Bob
  Index = {}
  MaxProgress = 1
  MaxLoads = 1
  MaxFaults = 1
  Faults = {"throw"}
  OneClient = TRUE
  PromptWriter = TRUE
CHECK_DEADLOCK FALSE
PROPERTY SavesLandDespiteThrow
