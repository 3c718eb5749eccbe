CONSTANTS
  oGlobals = oGlobals
  oClosure = oClosure
  oString = oString
  oCopy = oCopy
  tText = tText
  Objects <- MCObjects
  Strings <- MCStrings
  Closures <- MCClosures
  Text <- MCText
  Globals = oGlobals
  None = None
  MaxStack = 2
  MaxFrames = 2
  MaxNatives = 2
  MaxCallables = 1
  MaxElements = 2
  MaxHeld = 2
  Careless = TRUE
SPECIFICATION Spec
PROPERTIES
  SafepointRooted
