CONSTANTS
  kLast = kLast
  kSame = kSame
  kFirst = kFirst
  vNull = vNull
  vTrue = vTrue
  Keys <- MCKeys
  Values <- MCValues
  Home <- MCHome
  Null <- vNull
  True <- vTrue
  InitCap = 2
  MaxSequence = 4
  MaxPending = 2
  PolicyModes = {2}
  Limit = 2
VIEW MCView
SYMMETRY MCSymmetry
SPECIFICATION Spec
INVARIANTS
  EntriesReachable
  RoomToInsert
  OrderIsTotal
  CacheBounded
PROPERTIES
  ImplementsMap
