SPECIFICATION Spec
CONSTANTS
  p1 = p1
  p2 = p2
  p3 = p3
  m1 = m1
  m2 = m2
  NoPeer = NoPeer
  NoExecution = NoExecution
  Peer = {p1, p2, p3}
  Message = {m1, m2}
  Kind = {"request"}
  MaxAttempts = 2
  MaxCalls = 2
  Limits = {0, 1}
  MaxExecutions = 2
  MaxCost = 1
  MaxSamples = 2
  MaxAttested = 1
  MaxFaults = 1
SYMMETRY Symmetric
CHECK_DEADLOCK FALSE
INVARIANTS
  Accounted
  NoSilentSpend
  OverrunBounded
PROPERTIES
  AttestedOnEvidence
  ImplementsBudget
