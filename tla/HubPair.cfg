CONSTANTS
  c1 = c1  c2 = c2  c3 = c3
  r1 = r1  p1 = p1  p2 = p2  p3 = p3  px = px
  Nil = Nil  Blank = Blank
  Conn = {c1, c2}
  Room = {r1}
  Peer = {p1, p2}
  RoomOf <- PairRoom
  PeerOf <- PairPeers
  SentFrom = {Blank}
  SentTo = {Blank}
  Fragile = {c2}
  QueueSize = 1
  MaxFrames <- FirstThrice
SPECIFICATION FairSpec
INVARIANT FifoPerSender AtMostOneLateTake
PROPERTY KeepsPromise BrokenPeerLeaves GoroutinesEnd DispatchEnds
CHECK_DEADLOCK FALSE
