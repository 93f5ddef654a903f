CONSTANTS
  StopDeadline = 3
  KillGrace = 1
  ExitDeadline = 2
  WriteExitDeadline = 1
  CaptureLimit = 2
  KillTakesEffect = FALSE
SPECIFICATION Spec
INVARIANT StopBounded
