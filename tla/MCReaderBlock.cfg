CONSTANTS
  Readers = {r1}
  BatchSize = 2
  BackBuff = 2
  Drop = FALSE
  MaxLines = 5
SPECIFICATION Spec
INVARIANTS
  QueueInOrder
PROPERTIES
  EveryLineSettled
  ReadersFinish
