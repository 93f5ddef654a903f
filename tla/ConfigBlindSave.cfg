SPECIFICATION StoreSpec
CONSTANTS
  Absolute = {d0, home}
  DefaultDir = d0
  Tilde = tilde
  Home = home
  NoConfig = none
  MaxEdits = 2
  MaxCrashes = 1
INVARIANT SavesKeepTheRest
