SPECIFICATION ReliableSpec
CONSTANTS
  Groups = {g1, g2, g3}
  Requests = {p}
  MaxPathLength = 2
  PathBound = 3
  StaleBound = 3
  None = None
SYMMETRY Symmetry
PROPERTY ParentKept
CHECK_DEADLOCK FALSE
CONSTRAINT ShortPaths
