SPECIFICATION Spec
CONSTANTS
  Instances = {i1}
  Primary = i1
  A = A
  B = B
  Streams <- MCStreams
  Layouts <- LookupLayouts
  MaxChanges = 3
  MaxTime = 2
  Asked <- AllAsked
  Ranges <- None
  Windows <- CacheWindows
  HeadBytes = 1
  CacheBytes = 4
  NoTime <- MCNoTime
  NoView = NoView
INVARIANTS
  RightBlock
  CacheExact
PROPERTIES
  ImplementsStorage
  CallsReturn
