CONSTANTS
  Rounds <- TwoLines
  Length <- ShortTexts
SPECIFICATION Spec
INVARIANTS TypeOK WholeLines NothingLost
PROPERTIES LogSpec AllWritten
CHECK_DEADLOCK FALSE
