SPECIFICATION Spec
CONSTANTS
  MaxStreams = 2
  MaxChanges = 4
  MaxTime = 0
  Kinds = {"LOGIC", "WIDE"}
  EmptyPayload <- MCEmptyPayload
  ChangePayload <- MCChangePayload
  BlockChanges = 8
  BufferBytes = 4
  BlockSizes = {1}
  HeaderSize = 2
  MetaSize = 2
  FooterSize = 3
  NoTime <- MCNoTime
  NoKind = NoKind
  Unopenable = Unopenable
INVARIANTS
  CeilingHeld
PROPERTIES
  ReliefReachesTarget
  CallsReturn
CHECK_DEADLOCK FALSE
