SPECIFICATION FairSpec
CONSTANTS
  m1 = m1
  m2 = m2
  NoMedia = NoMedia
  Media = {m1, m2}
  NextOf <- MCNextOf
  MaxProc = 2
  Logged = {"started"}
  AutoPlayNext = FALSE
  KeepBookmarks = FALSE
  PlayWhenOpened = FALSE
  HasStPause = TRUE
INVARIANTS
  OneProcess
  TimersStopped
  PathKnown
PROPERTIES
  OutputIsRead
