CONSTANTS
  Id = {a, b}
  a = a
  b = b
  MaxCalls = 4
SPECIFICATION FairSpec
INVARIANT TypeOK NewestPerId NoStrayTimer
PROPERTY ShownInFull TimedToastsGo
CHECK_DEADLOCK FALSE
