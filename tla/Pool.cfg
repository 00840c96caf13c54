\* Two programs that appear, change and leave; descriptors for two pools of two
\* programs and one that is leaked.
SPECIFICATION Spec
CONSTANTS
  Codes = {0}
  Bad = Bad
  Scalar = Scalar
  Alnum <- Words
  Size <- Lengths
  Commands = {"server", "job"}
  Directories <- TheDirectories
  ReadOnly = {"locked"}
  Files <- SomeFiles
  Fds = {1, 2, 3, 4, 5, 6, 7, 8}
INVARIANTS
  PoolInv
  PoolIsFile
  LogsAreOwned
  DropsOnlyTheDead
PROPERTIES
  ReloadIsAtomic
