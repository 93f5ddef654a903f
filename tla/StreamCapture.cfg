CONSTANT
  MaxFrames = 4
SPECIFICATION FairSpec
INVARIANT
  NoMissedFrame
PROPERTIES
  NewestOnce
  NothingHangs
