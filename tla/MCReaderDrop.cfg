CONSTANTS
  Readers = {r1, r2}
  BatchSize = 2
  BackBuff = 1
  Drop = TRUE
  MaxLines = 3
SPECIFICATION Safety
SYMMETRY Symmetry
INVARIANTS
  LinesAccounted
  DropsReported
  SettledOnce
  NoStrandedBatch
  NothingLeftBehind
  IInv
