\* Two headers, four objects; every call may fail, and the pool may run out.
SPECIFICATION Spec
CONSTANTS
  Codes <- MCCodes
  Ints <- MCInts
  Objects = {o1, o2, o3, o4}
  Null = null
  HeaderCount = 2
INVARIANTS
  TypeOK
  OkMeansTaken
  NothingLeftOpen
PROPERTIES
  KeepsContract
  ForeignKept
