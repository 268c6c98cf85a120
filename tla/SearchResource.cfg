CONSTANTS
  Query = {q0, q1}
  Empty = q0
  Items = {i1, i2}
  MaxChanges = 3
SPECIFICATION FairSpec
CHECK_DEADLOCK FALSE
INVARIANTS
  ClearedStaysEmpty
  RestShowsCurrentInputs
PROPERTIES
  FollowsLatestWins
  ChangesSettle
