CONSTANTS
  Procs = {p1, p2, p3}
  Paths = {x1}
  MetaPaths = {x1}
  Denied = {x1}
  Inodes = {i1, i2}
  NoInode = NoInode
  InodeReuse = TRUE
  PidReuse = TRUE
SYMMETRY Symmetry
SPECIFICATION Spec
INVARIANTS
  TypeOK
  CleanupSparesLiveMounts
  RealPathsPreserved
