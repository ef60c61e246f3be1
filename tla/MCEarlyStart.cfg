SPECIFICATION Spec
CONSTANTS
  p1 = p1
  p2 = p2
  p3 = p3
  o1 = o1
  o2 = o2
  c1 = c1
  External = External
  NoOwner = NoOwner
  Peer = {p1, p2}
  Worked = {p2}
  Manual = {p2}
  Route <- BothWays
  Owner = {o1}
  Pin = {c1}
  MaxMessages = 2
  MaxEvents = 6
  MaxDisabled = 0
  MaxOverdue = 0
  Kind = {"request", "notice"}
  MaxDeps = 1
  MaxExecutionAttempts = 2
  MaxRequestDepth = 8
  MaxConversationRequests = 32
  MaxPeerQueue = 128
  MaxProjectQueue = 512
CHECK_DEADLOCK FALSE
INVARIANTS
  RunsAfterPrerequisites
