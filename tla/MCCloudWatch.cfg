CONSTANTS
  Outlets = {o1, o2}
  BackBuff = 2
  MaxAttempts = 2
  Line <- MCLine
  Feed <- MCFeed
  FirstTokens = {0, 1}
  Faulty = TRUE
SPECIFICATION CWSafety
SYMMETRY Symmetry
CHECK_DEADLOCK FALSE
INVARIANTS
  CWTypeOK
  OneToken
  LoggedOnce
PROPERTIES
  NoTokenNoEvents
