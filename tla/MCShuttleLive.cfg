CONSTANTS
  Readers = {r1}
  Tracked = {r1}
  Outlets = {o1}
  BatchSize = 2
  BackBuff = 2
  MaxAttempts = 2
  Drop = FALSE
  MaxLines = 3
SPECIFICATION Spec
PROPERTIES
  ImplementsLineFate
  AcceptedInOrder
  EverySettled
  LandReturns
