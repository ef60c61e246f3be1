SPECIFICATION FairSpec
CONSTANTS
  d1 = d1
  d2 = d2
  p1 = p1
  p2 = p2
  m1 = m1
  m2 = m2
  Dispatcher = {d1}
  Peer = {p1, p2}
  Message = {m1, m2}
  PeerRank <- ByName
  Age <- InOrder
  To <- OneEach
  DependsOn <- FirstNeedsSecond
  Concurrency = 1
  Human = Human
  NoOwner = NoOwner
  NoMessage = NoMessage
  MaxFaults = 0
  MaxReviews = 0
CHECK_DEADLOCK FALSE
PROPERTIES
  ReadyIsServed
