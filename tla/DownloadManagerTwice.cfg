CONSTANTS
  v1 = v1
  c1 = c1
  c2 = c2
  Variants = {v1}
  MaxActive = 1
  MaxDownloads = 3
  Cancellers = {c1,c2}
  Chunks = 1
  MaxRestarts = 0
  NoFile = NoFile
  NoDownload = NoDownload
  NoVariant = NoVariant
  NoEntry = NoEntry
  Garbled = Garbled
SPECIFICATION FairSpec
INVARIANT OneDownloadPerVariant
CHECK_DEADLOCK FALSE
