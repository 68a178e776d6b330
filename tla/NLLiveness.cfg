SPECIFICATION FairSpec
CONSTANTS
  Instance = {a, b}
  Node = {n}
  Existing = {n}
  Changing = {n}
  Needs = {TRUE, FALSE}
  Vacant = {n}
  Worker = {w}
  Duration = 2
  Interval = 1
  Second = 1
  Latency = 0
  Prompt = {"caches", "requests", "workers"}
  MaxLag = 1
  Bounds <- MCBounds
  None = None
PROPERTIES NodeManaged TakeoverOnlyExpired
