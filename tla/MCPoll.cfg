SPECIFICATION Spec
CONSTANTS
  d1 = d1
  p1 = p1
  p2 = p2
  w1 = w1
  w2 = w2
  Owner <- MCOneProcess
  Deliveries = {d1}
  Procs = {p1}
  Workers = {w1, w2}
  Batch = 1
  MaxAttempts = 2
  Suspendable = {d1}
  BadRate = {d1}
  BadText = {d1}
  PatchPairs <- MCPatches
  MaxPatches = 1
  MaxSending = 2
  MaxJobs = 2
  MaxCrashes = 0
  Faults = {"stop", "db"}
INVARIANTS TypeOK TrueVerdict
PROPERTIES VerdictStable
SYMMETRY MCSymmetry
