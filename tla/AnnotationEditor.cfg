CONSTANTS
  Width = 3
  MinSpan = 1
  MaxUndo = 2
  MaxMarks = 2
SPECIFICATION EditorSpec
INVARIANT ResizeIsSound
PROPERTY SavedIsSeen
PROPERTY LinearHistory
INVARIANT StepsCount
