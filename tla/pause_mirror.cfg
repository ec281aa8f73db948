SPECIFICATION FairSpec
CONSTANTS
  MaxPipe = 4
  MaxEvents = 5
INVARIANTS PausedIsPaused OneFrame
PROPERTIES PlayingPlays
CHECK_DEADLOCK FALSE
