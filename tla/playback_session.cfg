SPECIFICATION Spec
CONSTANTS
  m1 = m1
  m2 = m2
  NoMedia = NoMedia
  Media = {m1, m2}
  NextOf <- MCCycle
  MaxProc = 2
  Logged = {"started", "time"}
  AutoPlayNext = TRUE
  KeepBookmarks = TRUE
  PlayWhenOpened = TRUE
  HasStPause = TRUE
SYMMETRY MCSwap
INVARIANTS
  TypeOK
  SessionAgrees
  OneReader
  BookmarkOwn
  PlayingKeepsAwake
PROPERTIES
  QuitSavesPosition
  SessionSpec
