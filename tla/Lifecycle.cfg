\* One process under every configuration, a fair worker and clock; pipe, fork and
\* kill may fail.
SPECIFICATION FairSpec
CONSTANTS
  Codes = {0, 1}
  Procs <- OneProc
  Groups <- OneGroup
  GroupOf <- OneGroupOf
  Configs <- AllConfigs
  StartMayFail = TRUE
  KillMayFail = TRUE
INVARIANTS
  IndInv
  PidTracksChild
  RetryBudget
PROPERTIES
  KillIsLastResort
  RestartNeverLost
  StopNeverLost
  CommandsAreTaken
  ShutdownCompletes
