CONSTANTS
  screenshot = screenshot
  record = record
  c1 = c1
  c2 = c2
  c3 = c3
  plain = plain
  Actions = {screenshot, record}
  Chords = {c1, c2, c3, plain}
  Usable = {c1, c2, c3}
  Taken = {c3}
  Default <- Defaults
  NoChord = NoChord
  NoRow = NoRow
  MaxSleeps = 2
SPECIFICATION Spec
INVARIANTS
  BindingsSound
  WorksOrTold
CHECK_DEADLOCK FALSE
