SPECIFICATION Spec
CONSTANTS
  IntBits = 4
  LongBits = 8
  FastSlots = 3
  LeadingNumber <- MCLeadingNumber
  Programs <- MCPrograms
  Arguments <- MCArguments
  Locals <- MCLocals
  Formats <- MCFormats
  TypeLists <- MCTypeLists
INVARIANTS
  FollowsMeaning
  Balanced
  LoadsBack
  Disassembles
  HostReadsInTurn
CHECK_DEADLOCK FALSE
