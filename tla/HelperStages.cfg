CONSTANTS
  h1 = h1
  h2 = h2
  h3 = h3
  p1 = p1
  p2 = p2
  Helpers = {h1, h2, h3}
  Pids = {p1, p2}
  Endpoints = {1, 2}
  Keys = {1, 2, 3, 4}
  Foreign = Foreign
  Env <- MCEnv
  Attempts = 2
  Subreaper = TRUE
  NoPid = NoPid
  NoName = NoName
  NoDir = NoDir
  NoBridge = NoBridge
  NoHelper = NoHelper
  Leftovers <- MCLeftovers
  Scenarios <- MCScenarios
  Absent = Absent
  Ports = {q1, q2}
  NoPort = NoPort
CHECK_DEADLOCK FALSE
SPECIFICATION Spec
INVARIANTS
  CommandIsConfined
  RoutesReachTheirEndpoint
  LiveDirectoryKept
PROPERTIES
  BridgesEndWithHelper
  DirectoryGoes
  SweepTakesOrphans
