SPECIFICATION Spec
CONSTANTS
  MaxStreams = 3
  MaxChanges = 2
  MaxTime = 0
  Kinds = {"LOGIC", "STRING"}
  EmptyPayload <- MCEmptyPayload
  ChangePayload <- MCChangePayload
  BlockChanges = 2
  BufferBytes = 5
  BlockSizes = {1}
  HeaderSize = 2
  MetaSize = 2
  FooterSize = 3
  NoTime <- MCNoTime
  NoKind = NoKind
  Unopenable = Unopenable
INVARIANTS
  CeilingHeld
CHECK_DEADLOCK FALSE
