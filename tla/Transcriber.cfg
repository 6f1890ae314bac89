CONSTANTS
  c1 = c1
  c2 = c2
  c3 = c3
  Clients = {c1, c2, c3}
  Streamers = {c1}
  Batchers = {c2}
  Size = 2
  CapMs = 1
  ChunkSizes = {15, 31}
SPECIFICATION TFairSpec
INVARIANTS
  PermitFindsIndex
  PermitsConserved
  PanickedIsFenced
  SessionTypeOK
  EveryEndIsRecorded
  StreamIsOwn
  BufferBounded
PROPERTIES
  GuardsAreLeases
  WaitersAreServed
