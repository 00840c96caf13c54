\* What a text of the program says, and the code does not do.
SPECIFICATION Spec
CONSTANTS
  c1 = c1
  c2 = c2
  Clients <- OneClient
  Typed <- Kinds
  MaxSent <- Three
  MaxDown = 2
INVARIANTS
  DaemonOutlivesClients
