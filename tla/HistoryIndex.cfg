CONSTANTS
  Paths = {p1, p2, p3}
  Clients = {c1, c2}
  MaxEntries = 2
  MaxCaptures = 3
  MaxCrashes = 1
  Nobody = Nobody
SYMMETRY Symmetry
SPECIFICATION Spec
INVARIANTS
  ThumbsFollow
PROPERTIES
  NoLostUpdate
  ThumbOutlivesEntry
