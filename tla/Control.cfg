CONSTANTS
  cMain = cMain
  cPlain = cPlain
  cInline = cInline
  cNone = cNone
  Closures <- MCClosures
  Inline <- MCInline
  Main <- cMain
  None <- cNone
  FixedSlots = 1
  StackMax = 5
  MaxFrames = 3
  MaxHandlers = 3
  Args = {0, 1}
  Roots = {0, 1}
  MaxTries = 1
  MaxConts = 2
  MaxNatives = 1
SPECIFICATION Spec
CONSTRAINT SmallWithContinuations
INVARIANTS
  TypeOK
  StackDiscipline
  HandlerDiscipline
  CoroutinesSound
  ContinuationsSound
  EveryTryHasHandler
  NativesUndisturbed
PROPERTIES
  ThrowReachesInnermostTry
CHECK_DEADLOCK FALSE
