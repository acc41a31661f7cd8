SPECIFICATION Spec
CONSTANTS
  MaxVersion = 3
  MaxRestores = 1
  MaxCuts = 1
  Mishaps = {"cut"}
  Downgrades = TRUE
INVARIANTS AgentStarts
