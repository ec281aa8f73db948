SPECIFICATION Spec
CONSTANTS
  Base = 3
  MaxInt = 26
  Names <- MCNames
  MaxFiles = 4
INVARIANTS SeriesInTurn SeasonsInTurn NeverAgain
CHECK_DEADLOCK FALSE
