SPECIFICATION Spec
CONSTANTS
  s1 = s1
  s2 = s2
  Slot <- OneSlot
  Name <- Bob
  Index = {1}
  MaxProgress = 1
  MaxLoads = 2
  MaxFaults = 1
  Faults = {"swallow"}
  OneClient = TRUE
  PromptWriter = TRUE
PROPERTY NeverFreshOverStored
