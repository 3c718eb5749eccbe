CONSTANTS
  vA = vA
  vB = vB
  vC = vC
  vNew = vNew
  vNull = vNull
  MaxArrays = 3
  Start <- MCStart
  Values <- MCValues
  Null <- vNull
  Order <- MCOrder
  MaxLength = 4
  MaxEdits = 2
SPECIFICATION Spec
INVARIANTS
  ViewsMirror
PROPERTIES
  StalenessLasts
  EditsStayInside
CHECK_DEADLOCK FALSE
