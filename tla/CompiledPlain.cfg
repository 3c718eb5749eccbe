CONSTANTS
  Programs <- PlainPrograms
  JumpMax = 4
  StackMax = 6
SPECIFICATION Spec
INVARIANTS
  FollowsSource
  HandlersMatchTries
  OperandsMatchLoops
CHECK_DEADLOCK FALSE
