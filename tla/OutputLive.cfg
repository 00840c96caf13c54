\* One program and a client, both threads fair.
SPECIFICATION FairSpec
CONSTANTS
  p1 = p1
  p2 = p2
  c1 = c1
  f1 = f1
  f2 = f2
  f3 = f3
  Procs <- OneProc
  Clients <- OneClient
  Fds <- TwoFds
  MaxData = 1
PROPERTIES
  OutputIsForwarded
  StaleIsRemoved
  HandsOver
