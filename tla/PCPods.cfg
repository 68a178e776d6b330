SPECIFICATION FairSpec
CONSTANTS
  Pod = {p, q}
  Node = {n}
  Worker = {w}
  JobPods = {p}
  Marks = {TRUE, FALSE}
  OwnCIDR = {n}
  Size = 2
  UseLeases = TRUE
  MaxEvents = 3
  MaxFaults = 1
  MaxRestarts = 1
  MaxPools = 2
  MaxIndex = 3
INVARIANTS NoSharedIP
CHECK_DEADLOCK FALSE
PROPERTIES PodsPlayed
