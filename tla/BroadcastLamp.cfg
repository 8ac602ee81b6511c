CONSTANTS
  Viewer = {v1}
  MaxStarts = 1
  MaxPcs = 1
  MaxOps = 1
SPECIFICATION Spec
INVARIANT LampOff
CHECK_DEADLOCK FALSE
