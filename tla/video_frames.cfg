SPECIFICATION FairSpec
CONSTANTS
  MaxPlayer = 3
  MaxSegment = 4
  BufferCount = 2
INVARIANTS
  TypeOK
  ShownNotWritten
  FramesMapped
  NothingLeft
  DrawnMapped
PROPERTIES
  CallsReturn
CHECK_DEADLOCK FALSE
