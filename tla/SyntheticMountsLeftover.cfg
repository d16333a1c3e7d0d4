CONSTANTS
  Procs = {p1, p2}
  Paths = {x1}
  MetaPaths = {x1}
  Denied = {}
  Inodes = {i1, i2, i3}
  NoInode = NoInode
  InodeReuse = FALSE
  PidReuse = FALSE
SYMMETRY Symmetry
CHECK_DEADLOCK FALSE
SPECIFICATION QuietSpec
INVARIANTS
  NoMountPointLeftBehind
