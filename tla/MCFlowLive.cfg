SPECIFICATION FairSpec
CONSTANTS
  p1 = p1
  p2 = p2
  f1 = f1
  f2 = f2
  NoProcess = NoProcess
  NoFlow = NoFlow
  Process = {p1, p2}
  Scheduler = {p1, p2}
  Flow = {f1}
  MaxResumes = 1
  MaxEpoch = 2
  MaxGeneration = 2
  MaxCrashes = 1
  MaxLosses = 0
CHECK_DEADLOCK FALSE
PROPERTIES
  PendingSettles
