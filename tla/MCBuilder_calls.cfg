SPECIFICATION Spec
CONSTANTS
  Descriptor <- MCDescriptor
  U32 = 16
  Declared = {bit, real, flags, odd, mixed}
  Ids = {0, 2, 9}
  Times = {0, 1}
  Values <- MCValues
  Leaves <- MCLeaves
  MaxScopes = 2
  MaxVariables = 2
  MaxChanges = 2
  Invalid = Invalid
  NoAlias = NoAlias
  NoSlice = NoSlice
  NoRange = NoRange
  bit = bit
  vec = vec
  real = real
  event = event
  pair = pair
  flags = flags
  odd = odd
  ints = ints
  mixed = mixed
INVARIANTS
  CheckerAgrees
  ChangesFit
  NodesReadable
  IdsPredictable
  StorageExact
CHECK_DEADLOCK FALSE
