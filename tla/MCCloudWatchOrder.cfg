CONSTANTS
  Outlets = {o1, o2}
  BackBuff = 2
  MaxAttempts = 2
  Line <- MCLine
  Feed <- MCFeed
  FirstTokens = {1}
  Faulty = FALSE
SPECIFICATION CWSpec
INVARIANTS
  LoggedInOrder
