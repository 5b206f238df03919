SPECIFICATION Spec
CONSTANTS
  f1 = f1
  f2 = f2
  d1 = d1
  d2 = d2
  Inodes = {f1, f2}
  Fds = {d1, d2}
  Blocks = {1, 2, 3}
  NDIRECT = 1
  NENTRY = 3
  BLKSIZE = 2
  MaxFileSize = 4
  Positions = {3}
  MaxLeaks = 0
  Values = {1}
  Flags = {{"O_RDWR"}, {"O_CREAT"}, {"O_RDWR", "O_APPEND"}}
  NULL = NULL
PROPERTY ImplementsFileContents
CONSTRAINT EnoughSpace
CHECK_DEADLOCK FALSE
SYMMETRY Symmetric
