SPECIFICATION FairSpec
CONSTANTS
  Ref = {pods, crds}
  MaxChanges = 2
  MaxTrouble = 1
PROPERTIES RunsConfigured OnlyTornIsStale
CHECK_DEADLOCK FALSE
