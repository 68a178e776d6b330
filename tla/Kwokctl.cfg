SPECIFICATION MCSpec
CONSTANTS
  Recordings <- MCRecordings
  Window = 2
  Delays = {0, 2500}
  MaxKeys = 2
INVARIANTS ReplayReproduces Restored GetConsistent ScaledInOrder ConfigurationKept OptionsCoherent OrderRestored Paced ContextsKept BinaryWhole LeavesNothing KeepsData EndsRunning
PROPERTIES LinksRespected
CHECK_DEADLOCK FALSE
