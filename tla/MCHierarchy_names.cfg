SPECIFICATION Spec
CONSTANTS
  Descriptor <- MCDescriptor
  U32 = 16
  Bases = {"", "x"}
  Names <- MCNames
  Indices = {0}
  Given <- MCGiven
  ScopeKinds = {"ROOT", "MODULE"}
  MaxScopes = 2
  MaxNodes = 3
  Paths <- MCPaths
  NoId = NoId
  Thrown = Thrown
  NoSlice = NoSlice
  bit = bit
  word = word
  none = none
  pair = pair
  twin = twin
  list = list
  state = state
INVARIANTS
  PathsExact
  SearchesExact
  RoundTrip
  DamageRefused
CHECK_DEADLOCK FALSE
