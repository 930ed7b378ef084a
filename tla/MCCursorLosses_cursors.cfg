SPECIFICATION Watched
CONSTANTS
  Instances = {i1}
  Primary = i1
  A = A
  B = B
  Streams <- MCStreams
  Layouts <- AllLayouts
  MaxChanges = 3
  MaxTime = 2
  Asked <- None
  Ranges <- CursorRanges
  Windows <- None
  HeadBytes = 2
  CacheBytes = 5
  NoTime <- MCNoTime
  NoView = NoView
INVARIANTS
  LostWithTheirBlocks
PROPERTIES
  ImplementsStorage
  CallsReturn
