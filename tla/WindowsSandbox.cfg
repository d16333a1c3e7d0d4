CONSTANTS
  c1 = c1
  c2 = c2
  p = p
  q = q
  Clients = {c1, c2}
  Absent = Absent
  Ports = {p, q}
  Worlds <- MCWorlds
  Scenarios <- MCScenarios
  PipeCap = 1
  BroadcastCap = 1
  QueueCap = 1
  InputCap = 1
  StdinCap = 1
CHECK_DEADLOCK FALSE
SPECIFICATION Spec
INVARIANTS
  SandboxTypeOK
  NothingLeftRunning
  ArtifactsMatch
  ReadyMeansReady
  ErrorIsRecent
PROPERTIES
  PromiseKept
  ExitReported
  TerminateTakesEffect
