SPECIFICATION Spec
CONSTANTS
  MaxPlayer = 2
  MaxSegment = 3
  BufferCount = 2
INVARIANTS
  NoMutualWait
CHECK_DEADLOCK FALSE
