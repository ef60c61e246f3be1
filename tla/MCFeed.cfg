SPECIFICATION FairSpec
CONSTANTS
  p1 = p1
  s1 = s1
  w1 = w1
  w2 = w2
  NoSub = NoSub
  NoWorker = NoWorker
  Peer = {p1}
  Sub = {s1}
  Worker = {w1, w2}
  PeerOf <- OnePeer
  DestinationOf <- OneAddress
  MaxAttempts = 2
  MaxEvents = 2
  MaxGeneration = 2
  MaxFaults = 1
CHECK_DEADLOCK FALSE
INVARIANTS
  HeadOfLine
  AttemptsBounded
PROPERTIES
  ImplementsFeed
  EventsSettle
