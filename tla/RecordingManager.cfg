CONSTANTS
  MaxSessions = 2
  StopTimeout = 3
  QuitDeadline = 2
SPECIFICATION FairSpec
INVARIANTS
  TrayFollows
  SessionsEndOnce
PROPERTIES
  ManualPauseKept
  EngineContract
  NeverStuck
CHECK_DEADLOCK FALSE
