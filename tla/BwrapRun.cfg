CONSTANTS
  Signals = {TERM, INT}
  SIGTERM = TERM
  NoSignal = NoSignal
  Protected = TRUE
  MaxSends = 3
CHECK_DEADLOCK FALSE
SPECIFICATION Spec
INVARIANTS
  TypeOK
  SignalSparesRegistered
  WatchedCommand
PROPERTIES
  NoOrphanSandbox
  SignalEndsRun
