CONSTANTS
  Readers = {r1, r2}
  Tracked = {r1}
  Outlets = {o1, o2}
  BatchSize = 2
  BackBuff = 1
  MaxAttempts = 1
  Drop = TRUE
  MaxLines = 1
SPECIFICATION Safety
SYMMETRY Symmetry
INVARIANTS
  IInv
  LandedSettled
  PanicsOnlyUntracked
PROPERTIES
  ImplementsLineFate
