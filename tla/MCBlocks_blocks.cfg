SPECIFICATION StoreSpec
CONSTANTS
  ByteBits = 4
  WordBytes = 2
  HalfBytes = 1
  K = 8
  Radix = 3
  ChunkDigits = 2
  MaxCount = 3
  Streams <- MCStreams
  Samples <- MCSamples
  Probes <- MCProbes
  Kept <- MCKept
  Names <- MCNames
  Minors = {0, 2}
  Tails <- MCTails
  Spoils = {1, 8, 12}
INVARIANTS
  TimesExact
  SearchesAgree
  ColumnsExact
  PartsExact
  CodecExact
  TextExact
  StoreExact
CHECK_DEADLOCK FALSE
