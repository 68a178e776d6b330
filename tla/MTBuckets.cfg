SPECIFICATION MCSpec
CONSTANTS
  Item = {a, b}
  Worker = {p, q}
  Client = {c}
  MaxWeight = 2
  MaxTime = 2
  MaxSleep = 2
  MaxAdds = 2
  NoItem = NoItem
  Nobody = Nobody
  Pod = {p1}
  None = None
  NoRule = NoRule
SYMMETRY Symmetry
INVARIANTS EveryBucketCounts
CHECK_DEADLOCK FALSE
