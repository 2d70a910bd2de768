CONSTANTS
  Readers = {stdin}
  Tracked = {stdin}
  Outlets = {o1}
  BatchSize = 1
  BackBuff = 1
  MaxAttempts = 1
  Drop = TRUE
  MaxLines = 2
  MaxTicks = 2
SPECIFICATION CommandSpec
INVARIANTS
  ReportsAdd
  ExitsSettled
PROPERTIES
  ProcessEnds
