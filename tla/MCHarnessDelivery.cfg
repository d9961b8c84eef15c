SPECIFICATION DeliverySpec
CONSTANTS
  None = None
  Project = Project
  Pump = Pump
  o1 = o1
  o2 = o2
  o3 = o3
  c1 = c1
  Controllers = {c1}
  Ops = {o1, o2, o3}
  Kind <- StartStopResume
  LeaseDuration = 1
  MaxClock = 1
  MaxTokens = 2
  MaxSessions = 1
  MaxFaults = 1
  s1 = s1
  Subs = {s1}
INVARIANTS
  WorkerOwnsLease
  NoOrphanProcess
  RecordedBeforeOpened
  SubmittedOnce
  VerdictsAreTrue
  DelivererKeepsWorker
PROPERTIES
  NoTakeoverInForce
CHECK_DEADLOCK FALSE
