\* Two processes of one program; fork may fail, kill succeeds.
SPECIFICATION Spec
CONSTANTS
  Codes = {0}
  Procs <- TwoProcs
  Groups <- OneGroup
  GroupOf <- SameGroup
  Configs <- ServerOnly
  StartMayFail = TRUE
  KillMayFail = FALSE
INVARIANTS
  NoChildBeforeFork
  NoChildLeftBehind
PROPERTIES
  Supervises
