SPECIFICATION FairSpec
CONSTANTS
  m1 = m1
  m2 = m2
  NoMedia = NoMedia
  Media = {m1, m2}
  NextOf <- MCCycle
  MaxProc = 2
  Logged = {}
  AutoPlayNext = TRUE
  KeepBookmarks = FALSE
  PlayWhenOpened = FALSE
  HasStPause = TRUE
PROPERTIES
  EpisodeFollows
  EndIsReported
  MainReturns
