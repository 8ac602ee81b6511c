CONSTANTS
  Nil = Nil
  Sender = {b1, b2}
  Spurious = TRUE
  MaxConnects = 2
  MaxPcs = 3
  MaxOps = 3
SPECIFICATION FairSpec
INVARIANT TypeOK SingleConnection BroadcasterKnown PhaseMatchesConnection NoStalePicture DisconnectedIsQuiet
PROPERTY ConnectingEnds
CHECK_DEADLOCK FALSE
