SPECIFICATION FairSpec
CONSTANTS
  Key = {k}
  Worker = {w}
  Pre = Pre
  Phase <- MCPhase
  FirstPhase = "new"
  Disregarded = {}
  Stage <- MCStage
  Matching <- MCMatching
  MaxUser = 1
  MaxLists = 1
  MaxFaults = 0
  MaxTrouble = 1
  Faults = {"fatal", "refused", "late"}
  NoObj = NoObj
  NoJob = NoJob
PROPERTIES Settles
CHECK_DEADLOCK FALSE
