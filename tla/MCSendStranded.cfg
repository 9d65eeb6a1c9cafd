SPECIFICATION Spec
CONSTANTS
  d1 = d1
  d2 = d2
  d3 = d3
  d4 = d4
  p1 = p1
  w1 = w1
  NoDelivery = NoDelivery
  Deliveries = {d1}
  Procs = {p1}
  Workers = {w1}
  Owner <- MCOwner
  Batch = 1
  MaxAttempts = 1
  Async = {}
  NullAsync = {}
  BadRate = {}
  Suspendable = {}
  PatchPairs = {}
  BadText = {}
  MaxPatches = 0
  MaxUndone = 0
  Faults = {"stop"}
INVARIANTS GracefulStop
