CONSTANTS
  MaxRecords = 3
  Chunks = 2
  Shards = 2
  MaxAttempts = 2
SPECIFICATION Spec
INVARIANTS
  IInv
  PutsWhole
  ShardsInTurn
PROPERTIES
  WriterEnds
