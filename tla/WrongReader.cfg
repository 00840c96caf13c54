\* What a text of the program says, and the code does not do.
SPECIFICATION Spec
CONSTANTS
  p1 = p1
  p2 = p2
  c1 = c1
  f1 = f1
  f2 = f2
  f3 = f3
  Procs <- TwoProcs
  Clients <- OneClient
  Fds <- TwoFds
  MaxData = 1
INVARIANTS
  ReadByItsProcess
