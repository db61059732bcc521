SPECIFICATION Spec
CONSTANTS
  s1 = s1
  s2 = s2
  Slot <- TwoSlots
  Name <- BobAndBob2
  Index = {1}
  MaxProgress = 1
  MaxLoads = 2
  MaxFaults = 0
  Faults = {}
  OneClient = FALSE
  PromptWriter = TRUE
INVARIANT StoredUnderOwnName
