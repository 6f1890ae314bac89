CONSTANTS
  v1 = v1
  c1 = c1
  Variants = {v1}
  MaxActive = 1
  MaxDownloads = 2
  Cancellers = {c1}
  Chunks = 1
  MaxRestarts = 0
  NoFile = NoFile
  NoDownload = NoDownload
  NoVariant = NoVariant
  NoEntry = NoEntry
  Garbled = Garbled
SPECIFICATION FairSpec
INVARIANT VerifiedIsInstalled
CHECK_DEADLOCK FALSE
