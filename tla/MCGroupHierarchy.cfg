SPECIFICATION Spec
CONSTANTS
  Groups = {g1, g2, g3}
  Requests = {p, q}
  MaxPathLength = 2
  PathBound = 3
  StaleBound = 2
  None = None
SYMMETRY Symmetry
INVARIANTS TypeOK TuplesMatchParents OneParent PathsFollowParents
CHECK_DEADLOCK FALSE
CONSTRAINTS ShortPaths Whole FewDisabled
