SPECIFICATION Spec
CONSTANTS
  MaxSerial = 3
  MaxReplicas = 3
  MaxCommands = 3
  MaxDeletes = 1
  MaxTime = 2
INVARIANTS ScaledToReplicas
CHECK_DEADLOCK FALSE
