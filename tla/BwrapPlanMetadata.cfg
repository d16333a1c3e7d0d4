CONSTANTS
  w = w
  a = a
  t = t
  x = x
  Git = Git
  Agents = Agents
  Codex = Codex
  HeadName = HeadName
  NoPath = NoPath
  TmpDir = NoPath
  GitDir <- MCGitDir
  Names = {w, a, t, x, Git, Agents, Codex, HeadName}
  Tree <- MCTree
  Cwd <- MCCwd
  SlashTmp <- MCSlashTmp
  Hosts <- MCHosts
  Entries <- MCEntries
  EmptyFiles <- MCEmptyFiles
  Requests <- MCRequests
  MaxSteps = 3
CHECK_DEADLOCK FALSE
SPECIFICATION Spec
INVARIANT MissingMetadataIsProtected
