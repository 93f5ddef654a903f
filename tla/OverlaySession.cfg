CONSTANTS
  MaxSeq = 3
  MaxPosted = 2
SPECIFICATION LoopSpec
INVARIANT ShowsOwnFrame
INVARIANT ModeConsistent
PROPERTY WorkSurvives
PROPERTY GateRecovers
