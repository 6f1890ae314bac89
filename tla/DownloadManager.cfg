CONSTANTS
  v1 = v1
  v2 = v2
  c1 = c1
  c2 = c2
  Variants = {v1,v2}
  MaxActive = 1
  MaxDownloads = 2
  Cancellers = {c1,c2}
  Chunks = 2
  MaxRestarts = 1
  NoFile = NoFile
  NoDownload = NoDownload
  NoVariant = NoVariant
  NoEntry = NoEntry
  Garbled = Garbled
SPECIFICATION Spec
INVARIANTS
  TypeOK
  LiveDownloadsHoldSlots
  HeldSlotsAreFreed
  QueuedOnlyWhenFull
  InstalledIsWhole
  FetchingIsShown
SYMMETRY Perms
CHECK_DEADLOCK FALSE
