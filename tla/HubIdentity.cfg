CONSTANTS
  c1 = c1  c2 = c2  c3 = c3
  r1 = r1  p1 = p1  p2 = p2  p3 = p3  px = px
  Nil = Nil  Blank = Blank
  Conn = {c1, c2, c3}
  Room = {r1}
  Peer = {p1, p2}
  RoomOf <- OneRoom
  PeerOf <- SharedPeer
  SentFrom = {Blank}
  SentTo = {Blank, p1}
  Fragile = {c1}
  QueueSize = 1
  MaxFrames <- FirstAndLast
SPECIFICATION Spec
INVARIANT MembershipExact RoutesInCurrentRoom
CHECK_DEADLOCK FALSE
