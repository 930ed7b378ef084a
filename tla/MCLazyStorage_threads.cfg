SPECIFICATION Spec
CONSTANTS
  Instances = {i1, i2}
  Primary = i1
  A = A
  B = B
  Streams <- OneStream
  Layouts <- OneLayout
  MaxChanges = 2
  MaxTime = 1
  Asked <- OneAsked
  Ranges <- FewRanges
  Windows <- None
  HeadBytes = 2
  CacheBytes = 3
  NoTime <- MCNoTime
  NoView = NoView
INVARIANTS
  ViewResident
PROPERTIES
  ImplementsStorage
