SPECIFICATION Spec
CONSTANTS
  Component = {"etcd", "kwok-controller"}
  Key = {"v", "set"}
  FilePatches <- MCFilePatches
  MaxArgs = 4
INVARIANT ExtraArgsReach
CHECK_DEADLOCK FALSE
