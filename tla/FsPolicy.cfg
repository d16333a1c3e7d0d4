CONSTANTS
  w = w
  a = a
  t = t
  g = g
  Git = Git
  Agents = Agents
  Codex = Codex
  NoPath = NoPath
  TmpDir = NoPath
  Names = {w, a, t, g, Git, Agents, Codex}
  Tree <- MCTree
  Cwd <- MCCwd
  SlashTmp <- MCSlashTmp
  GitDir <- MCGitDir
  Hosts <- MCHosts
  Entries <- MCEntries
  Requests <- MCRequests
  MaxSteps = 3
CHECK_DEADLOCK FALSE
SPECIFICATION Spec
INVARIANTS
  TypeOK
  RootsMatchDecisions
  FullMeansAll
  LegacyEnforcesTheSame
PROPERTIES
  DeniesSurvive
  GrantsOnlyAdd
  GrantsTakeEffect
