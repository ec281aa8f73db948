SPECIFICATION Spec
CONSTANTS
  m1 = m1
  m2 = m2
  NoMedia = NoMedia
  Media = {m1}
  NextOf <- MCLoop
  MaxProc = 4
  Logged = {}
  AutoPlayNext = TRUE
  KeepBookmarks = FALSE
  PlayWhenOpened = TRUE
  HasStPause = TRUE
INVARIANTS
  RecursionBounded
PROPERTIES
  SessionSpec
