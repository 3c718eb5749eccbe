CONSTANTS
  cArray = cArray
  cHash = cHash
  eOne = eOne
  eTwo = eTwo
  cNone = cNone
  Arrays <- MCArrays
  Hashes <- MCHashes
  Elements <- MCElements
  Starts <- MCStarts
  None <- cNone
  AfterBreak = FALSE
  MaxLoops = 2
  MaxFrames = 2
  MaxOperands = 1
  MaxChanges = 1
SPECIFICATION Spec
INVARIANTS
  EachElementOnce
  StackIntact
  RemovesCurrentElement
PROPERTIES
  EndsWhenAllSeen
