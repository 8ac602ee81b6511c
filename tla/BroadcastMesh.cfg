CONSTANTS
  Viewer = {v1, v2}
  MaxStarts = 1
  MaxPcs = 3
  MaxOps = 2
SYMMETRY ViewerSymmetry
SPECIFICATION Spec
INVARIANT IdleIsQuiet ConnectionsTracked
CHECK_DEADLOCK FALSE
