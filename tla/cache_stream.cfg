SPECIFICATION FairSpec
CONSTANTS
  CacheSize = 2
  SectorSize = 2
  FillSectors = 1
  ReadChunk = 2
  PrefillAsked = 2
  SeekAsked = 2
  FileSize = 7
  MaxEvents = 2
INVARIANTS TypeOK WindowFits CopiesInRing PosAgrees CopiesFile
PROPERTIES StreamSpec CallsReturn
CHECK_DEADLOCK FALSE
