SPECIFICATION MCSpec
CONSTANTS
  Key = {k}
  Worker = {w}
  Pre = Pre
  Phase <- MCPhase
  FirstPhase = "new"
  Disregarded = {"end"}
  Stage <- MCStage
  Matching <- NowMatching
  MaxUser = 2
  MaxLists = 1
  MaxFaults = 1
  MaxTrouble = 1
  Faults = {"fatal", "refused", "late"}
  NoObj = NoObj
  NoJob = NoJob
INVARIANTS JobOnce PriorityBound
PROPERTIES SkipJustified KeepsQueueContract SettlesUntroubled EveryDelayExpires EveryReadyTaken
CHECK_DEADLOCK FALSE
