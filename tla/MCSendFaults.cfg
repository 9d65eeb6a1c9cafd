SPECIFICATION Spec
CONSTANTS
  d1 = d1
  p1 = p1
  p2 = p2
  w1 = w1
  w2 = w2
  NoDelivery = NoDelivery
  Deliveries = {d1}
  Procs = {p1, p2}
  Workers = {w1, w2}
  Owner <- MCOwner
  Batch = 1
  MaxAttempts = 2
  Async = {d1}
  NullAsync = {}
  BadRate = {}
  Suspendable = {}
  PatchPairs <- MCPatchPairs
  BadText = {}
  MaxPatches = 2
  MaxUndone = 1
  Faults = {"stop", "crash", "db"}
INVARIANTS TypeOK HeldOnce SendsBounded FinalIsEarned
PROPERTIES AckedNotResent ImplementsLifecycle
SYMMETRY MCSymmetry
