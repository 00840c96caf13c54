\* What a text of the program says, and the code does not do.
SPECIFICATION Spec
CONSTANTS
  Codes = {0, 1}
  Procs <- OneProc
  Groups <- OneGroup
  GroupOf <- OneGroupOf
  Configs <- ServerOnly
  StartMayFail = FALSE
  KillMayFail = FALSE
PROPERTIES
  OnlyQuitEndsWork
