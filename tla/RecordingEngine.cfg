CONSTANTS
  StopDeadline = 5
  KillGrace = 2
  ExitDeadline = 4
  WriteExitDeadline = 2
  CaptureLimit = 3
  KillTakesEffect = TRUE
SPECIFICATION StopSpec
INVARIANTS
  AnswerIsTrue
  StopBounded
  NothingLeftBehind
PROPERTIES
  WorkerReacts
  ClosedFileIsFinal
  ImplementsLifecycle
