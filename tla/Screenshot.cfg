SPECIFICATION Spec
CONSTANTS
  MaxCalls = 2
  Displays = {main, second}
  None = none
  MaxChanges = 1
  MaxRevokes = 1
  MaxNames = 2
  MaxDeletes = 1
  MaxCrashes = 1
INVARIANTS
  ShowsAskedDisplay
  PromptsBounded
  ResultsTrue
PROPERTIES
  NothingOverwritten
CHECK_DEADLOCK FALSE
