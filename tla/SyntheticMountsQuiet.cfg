CONSTANTS
  Procs = {p1, p2}
  Paths = {x1, x2}
  MetaPaths = {x1}
  Denied = {x1, x2}
  Inodes = {i1, i2, i3}
  NoInode = NoInode
  InodeReuse = TRUE
  PidReuse = FALSE
CHECK_DEADLOCK FALSE
SPECIFICATION QuietSpec
PROPERTIES
  CleanupCompletes
  LeftoverOnlyIfTakenForReal
