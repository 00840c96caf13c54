\* Three starts of the daemon, over and over.
SPECIFICATION Spec
CONSTANTS
  d1 = d1
  d2 = d2
  d3 = d3
  n1 = n1
  n2 = n2
  n3 = n3
  Daemons <- ThreeDaemons
  Inodes <- ThreeFiles
SYMMETRY Symmetry
INVARIANTS
  DaemonInv
  OneDaemon
PROPERTIES
  SucceedEachOther
