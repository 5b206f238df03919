SPECIFICATION Spec
CONSTANTS
  f1 = f1
  f2 = f2
  d1 = d1
  d2 = d2
  Inodes = {f1, f2}
  Fds = {d1, d2}
  Blocks = {1, 2, 3}
  NDIRECT = 1
  NENTRY = 3
  BLKSIZE = 1
  MaxFileSize = 4
  Positions = {0, 2, 3}
  MaxLeaks = 1
  Values = {0}
  Flags = {{"O_RDWR"}, {"O_RDWR", "O_TRUNC"}, {"O_CREAT", "O_EXCL"}}
  NULL = NULL
INVARIANTS BlocksExact NodesHeld
CHECK_DEADLOCK FALSE
SYMMETRY Symmetric
