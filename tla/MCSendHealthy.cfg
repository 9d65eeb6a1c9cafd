SPECIFICATION FairSpec
CONSTANTS
  d1 = d1
  d2 = d2
  p1 = p1
  w1 = w1
  w2 = w2
  NoDelivery = NoDelivery
  Deliveries = {d1, d2}
  Procs = {p1}
  Workers = {w1, w2}
  Owner <- MCOwner
  Batch = 2
  MaxAttempts = 2
  Async = {d1}
  NullAsync = {}
  BadRate = {}
  Suspendable = {d2}
  PatchPairs = {}
  BadText = {d2}
  MaxPatches = 0
  MaxUndone = 0
  Faults = {}
INVARIANTS NothingStranded AttemptsWereSent
PROPERTIES EverySettles
