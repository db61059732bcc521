SPECIFICATION Spec
CONSTANTS
  s1 = s1
  s2 = s2
  Slot <- OneSlot
  Name <- Bob
  Index = {1}
  MaxProgress = 1
  MaxLoads = 1
  MaxFaults = 0
  Faults = {}
  OneClient = TRUE
  PromptWriter = TRUE
PROPERTY NobodyOverwritten
