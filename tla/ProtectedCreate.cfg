CONSTANTS
  Procs = {p1, p2}
  Paths = {x1}
  PidReuse = TRUE
SPECIFICATION Spec
INVARIANTS
  TypeOK
  SuccessLeavesNothing
  RealPathsKept
PROPERTIES
  CreationNoticed
  RunEnds
