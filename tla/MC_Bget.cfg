SPECIFICATION Spec
CONSTANTS
  heapStart = 4
  heapSize = 131
  Word = 272
  Requests <- SmallRequests
  ShmSize = 12
  ShmCount = 1
INVARIANTS
  BoundaryTagsRight
  FreeListComplete
  AssertionsHold
  NullOnlyWhenFull
PROPERTY Implements
