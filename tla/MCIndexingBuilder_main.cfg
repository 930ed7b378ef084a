SPECIFICATION Spec
CONSTANTS
  MaxStreams = 2
  MaxChanges = 3
  MaxTime = 1
  Kinds = {"LOGIC", "STRING"}
  EmptyPayload <- MCEmptyPayload
  ChangePayload <- MCChangePayload
  BlockChanges = 2
  BufferBytes = 4
  BlockSizes = {1, 2}
  HeaderSize = 2
  MetaSize = 2
  FooterSize = 3
  NoTime <- MCNoTime
  NoKind = NoKind
  Unopenable = Unopenable
INVARIANTS
  TypeOK
  OffsetIsFileEnd
  NothingLost
  IndexSearchable
  OpensExactly
PROPERTIES
  ImplementsHistory
CHECK_DEADLOCK FALSE
