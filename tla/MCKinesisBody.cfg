CONSTANTS
  MaxRecords = 2
  Chunks = 2
  Shards = 1
  MaxAttempts = 1
SPECIFICATION Safety
INVARIANTS
  BodyWhole
