SPECIFICATION Spec
CONSTANTS
  Tree <- MCTree
  Histories <- MCHistories
  NodeLists <- MCNodeLists
  Marks <- MCMarks
  Ends <- MCMarks
  NoNode = NoNode
  NoStream = NoStream
  NoSlice = NoSlice
  NoTime <- MCNoTime
  NoValue = NoValue
  NoCursor = NoCursor
  KeepSource = 99
  X = X
  MaxTime = 3
  MaxChanges = 3
  A = A
  B = B
  C = C
  req = req
  valid = valid
  hdr = hdr
  lo = lo
  hi = hi
  mem = mem
  e0 = e0
  e1 = e1
  clk = clk
  ev = ev
  pair = pair
  p0 = p0
INVARIANTS
  JumpsExact
  ListsExact
  WindowIndependent
  SourcesExact
CHECK_DEADLOCK FALSE
