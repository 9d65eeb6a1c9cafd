SPECIFICATION FairSpec
CONSTANTS
  d1 = d1
  p1 = p1
  p2 = p2
  w1 = w1
  w2 = w2
  Owner <- MCOwner
  Deliveries = {d1}
  Procs = {p1, p2}
  Workers = {w1, w2}
  Batch = 1
  MaxAttempts = 2
  Suspendable = {}
  BadRate = {}
  BadText = {}
  PatchPairs = {}
  MaxPatches = 0
  MaxSending = 1
  MaxJobs = 1
  MaxCrashes = 1
  Faults = {"crash"}
PROPERTIES EveryJobSettles
CHECK_DEADLOCK FALSE
