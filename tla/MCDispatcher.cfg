SPECIFICATION FairSpec
CONSTANTS
  s1 = s1
  s2 = s2
  s3 = s3
  p1 = p1
  v1 = v1
  w1 = w1
  Nobody = Nobody
  Sends = {s1, s2, s3}
  Refused = {s1}
  Polls = {p1}
  SendWorkers = {v1}
  PollWorkers = {w1}
  Batch = 3
  SendBuffer = 0
  PollBuffer = 3
INVARIANTS TypeOK OnePlace
PROPERTIES SendsGoOn StopCompletes
CHECK_DEADLOCK FALSE
