SPECIFICATION Spec
CONSTANTS
  Tree <- UnaliasedTree
  Histories <- StrictHistories
  NodeLists <- UnaliasedLists
  Marks <- MCMarks
  Ends <- MCMarks
  NoNode = NoNode
  NoStream = NoStream
  NoSlice = NoSlice
  NoTime <- MCNoTime
  NoValue = NoValue
  NoCursor = NoCursor
  KeepSource = 99
  X = X
  MaxTime = 2
  MaxChanges = 2
  A = A
  B = B
  C = C
  req = req
  valid = valid
  hdr = hdr
  lo = lo
  hi = hi
  mem = mem
  e0 = e0
  e1 = e1
  clk = clk
  ev = ev
  pair = pair
  p0 = p0
CHECK_DEADLOCK FALSE
INVARIANTS
  CompositeUnitesChildren
