SPECIFICATION FairSpec
CONSTANTS
  Instance = {a}
  Node = {m, n}
  Existing = {m, n}
  Changing = {n}
  Needs = {TRUE}
  Vacant = {}
  Worker = {w}
  Duration = 2
  Interval = 1
  Second = 1
  Latency = 0
  Prompt = {"caches", "requests", "workers"}
  MaxLag = 1
  Bounds <- OneBound
  None = None
PROPERTIES Heartbeats
CHECK_DEADLOCK FALSE
