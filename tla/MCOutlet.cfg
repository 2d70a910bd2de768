CONSTANTS
  Outlets = {o1, o2}
  BackBuff = 2
  MaxAttempts = 2
  Line <- MCLine
  Feed <- MCFeed
SPECIFICATION Spec
INVARIANTS
  IInv
  CountersAccounted
  OneOutcome
  StoredByPosts
PROPERTIES
  OutletsFinish
