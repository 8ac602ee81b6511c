CONSTANTS
  Viewer = {v1}
  MaxStarts = 2
  MaxPcs = 2
  MaxOps = 2
SPECIFICATION FairSpec
INVARIANT TypeOK ViewersShown ReadyHasSocket MuteHonoured
PROPERTY SocketsEnd ConnectingEnds
CHECK_DEADLOCK FALSE
