CONSTANTS
  Procs = {p1, p2}
  Paths = {x1}
  PidReuse = FALSE
SPECIFICATION Spec
INVARIANTS
  NoProtectedPathSurvives
