SPECIFICATION Spec
CONSTANTS
  p1 = p1
  p2 = p2
  p3 = p3
  o1 = o1
  o2 = o2
  c1 = c1
  External = External
  NoOwner = NoOwner
  Peer = {p1, p2, p3}
  Worked = {p2}
  Manual = {p3}
  Route <- Ring
  Owner = {o1}
  Pin = {}
  MaxMessages = 3
  MaxEvents = 5
  MaxDisabled = 0
  MaxOverdue = 0
  Kind = {"request", "answer"}
  MaxDeps = 2
  MaxExecutionAttempts = 1
  MaxRequestDepth = 8
  MaxConversationRequests = 32
  MaxPeerQueue = 2
  MaxProjectQueue = 512
CHECK_DEADLOCK FALSE
INVARIANTS
  AnswerIsFinal
  QueueBounded
  NoDependencyDeadlock
  RunsAfterPrerequisites
  DepthBelowPeers
