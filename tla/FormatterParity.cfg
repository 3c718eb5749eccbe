CONSTANTS
  MaxDepth = 20
  MaxRounds = 1
  Sources <- FormatSources
SPECIFICATION Spec
INVARIANTS
  SameProgram
CHECK_DEADLOCK FALSE
