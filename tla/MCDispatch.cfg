SPECIFICATION FairSpec
CONSTANTS
  d1 = d1
  d2 = d2
  p1 = p1
  p2 = p2
  m1 = m1
  m2 = m2
  Dispatcher = {d1, d2}
  Peer = {p1}
  Message = {m1, m2}
  PeerRank <- ByName
  Age <- InOrder
  To <- SamePeer
  DependsOn <- FirstNeedsSecond
  Concurrency = 1
  Human = Human
  NoOwner = NoOwner
  NoMessage = NoMessage
  MaxFaults = 1
  MaxReviews = 1
CHECK_DEADLOCK FALSE
INVARIANTS
  NoReplay
  CleanStop
PROPERTIES
  OwnerDecides
  WorkSettles
