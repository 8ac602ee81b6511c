CONSTANTS
  c1 = c1  c2 = c2  c3 = c3
  r1 = r1  p1 = p1  p2 = p2  p3 = p3  px = px
  Nil = Nil  Blank = Blank
  Conn = {c1, c2, c3}
  Room = {r1}
  Peer = {p1, p2, p3, px}
  RoomOf <- OneRoom
  PeerOf <- DistinctPeers
  SentFrom = {px}
  SentTo = {Blank, p2, p3}
  Fragile = {}
  QueueSize = 1
  MaxFrames <- OnlyFirst
SYMMETRY LastTwoSwap
SPECIFICATION Spec
INVARIANT TypeOK NoEmptyRoom OnlyLegitimate
CHECK_DEADLOCK FALSE
