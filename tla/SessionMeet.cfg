CONSTANTS
  Nil = Nil
  MaxConnects = 2
  MaxPcs = 2
  MaxOps = 2
SPECIFICATION FairSpec
INVARIANT TypeOK AnswersFit ConnectionsMeet
PROPERTY RequestServed AnsweringEnds LeaveReachesBroadcaster
CHECK_DEADLOCK FALSE
