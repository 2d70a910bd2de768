CONSTANTS
  Outlets = {o1}
  BackBuff = 2
  MaxAttempts = 2
  Line <- MCLine
  Feed <- MCFeed
  FirstTokens = {1}
  Faulty = TRUE
SPECIFICATION CWSpec
CHECK_DEADLOCK FALSE
PROPERTIES
  OutletsFinish
