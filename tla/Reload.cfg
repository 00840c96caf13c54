\* One program whose configuration is changed by reloads; a quit at any moment.
SPECIFICATION MainFairSpec
CONSTANTS
  Codes = {0}
  Procs <- OneProc
  Groups <- OneGroup
  GroupOf <- OneGroupOf
  Configs <- TwoFiles
  StartMayFail = FALSE
  KillMayFail = FALSE
INVARIANTS
  MainInv
  NoStray
  DaemonLeavesNothing
PROPERTIES
  ReloadIsAnswered
  QuitEndsDaemon
  SupervisesAndReloads
