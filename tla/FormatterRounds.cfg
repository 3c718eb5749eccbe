CONSTANTS
  MaxDepth = 20
  MaxRounds = 2
  Sources <- MCSources
SPECIFICATION Spec
INVARIANTS
  ParsesByPrecedence
  LinesAreStatements
  RoundTrip
PROPERTIES
  Settles
CHECK_DEADLOCK FALSE
