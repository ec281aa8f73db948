SPECIFICATION Spec
CONSTANTS
  Base = 3
  MaxInt = 26
  Names <- MCNames
  MaxFiles = 3
INVARIANTS BackFromTen
CHECK_DEADLOCK FALSE
