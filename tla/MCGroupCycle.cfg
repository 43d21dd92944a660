SPECIFICATION ReliableSpec
CONSTANTS
  Groups = {g1, g2, g3}
  Requests = {p}
  MaxPathLength = 2
  PathBound = 4
  StaleBound = 4
  None = None
SYMMETRY Symmetry
INVARIANT Acyclic
CHECK_DEADLOCK FALSE
CONSTRAINTS ShortPaths NoneDisabled
