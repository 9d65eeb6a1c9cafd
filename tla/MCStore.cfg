SPECIFICATION Spec
CONSTANTS
  Requests = {"r1"}
  Servers = {"s1", "s2"}
  Expanders = {"e1", "e2"}
  CopyLists <- MCCopyLists
  MaxPatches = 1
  Instances = {"x", "y"}
  LastVersion = 2
  MaxRequests = 1
  Jobs = {1, 2, 3}
  Copies = {2}
  Batch = 1
  AttemptsLimit = 4
  BackoffMin = 1
  BackoffMax = 3
  Headers <- MCHeaders
  MaxLate = 1
INVARIANTS StoreTypesOK PromisesKept SchemaSound
PROPERTIES ExpandEnds StopEnds TurnComes
CHECK_DEADLOCK FALSE
