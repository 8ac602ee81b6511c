CONSTANTS
  Nil = Nil
  MaxConnects = 1
  MaxPcs = 4
  MaxOps = 3
SPECIFICATION Spec
INVARIANT QuietMeansServed
CHECK_DEADLOCK FALSE
