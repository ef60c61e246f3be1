SPECIFICATION Spec
CONSTANTS
  p1 = p1
  p2 = p2
  p3 = p3
  o1 = o1
  o2 = o2
  c1 = c1
  External = External
  NoOwner = NoOwner
  Peer = {p1, p2}
  Worked = {p2}
  Manual = {p2}
  Route <- OneWay
  Owner = {o1, o2}
  Pin = {c1}
  MaxMessages = 2
  MaxEvents = 7
  MaxDisabled = 1
  MaxOverdue = 1
  Kind = {"request"}
  MaxDeps = 0
  MaxExecutionAttempts = 2
  MaxRequestDepth = 8
  MaxConversationRequests = 32
  MaxPeerQueue = 128
  MaxProjectQueue = 512
SYMMETRY Owners
CHECK_DEADLOCK FALSE
INVARIANTS
  AtMostOneStarted
  WorkOwnership
  AcceptedMayRun
PROPERTIES
  StatusMovesForward
  CompletionNeedsAgreement
