SPECIFICATION FairSpec
CONSTANTS
  d1 = d1
  d2 = d2
  d3 = d3
  d4 = d4
  p1 = p1
  w1 = w1
  NoDelivery = NoDelivery
  Deliveries = {d1, d2, d3, d4}
  Procs = {p1}
  Workers = {w1}
  Owner <- MCOwner
  Batch = 1
  MaxAttempts = 1
  Async = {}
  NullAsync = {d3}
  BadRate = {d4}
  Suspendable = {}
  PatchPairs = {}
  BadText = {}
  MaxPatches = 0
  MaxUndone = 0
  Faults = {"stop"}
PROPERTIES ShutdownCompletes
