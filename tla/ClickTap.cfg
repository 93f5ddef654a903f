CONSTANTS
  MaxReenable = 3
  Window = 2
  MaxPending = 3
SPECIFICATION TapFairSpec
INVARIANT
  NothingAfterDrop
PROPERTIES
  DropReturns
  TapKeptOrGivenUp
CHECK_DEADLOCK FALSE
