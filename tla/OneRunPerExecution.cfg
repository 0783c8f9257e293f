\* One queued job, two workers that do not steal, no fault.
CONSTANTS
  j1 = j1
  j2 = j2
  d1 = d1
  d2 = d2
  s1 = s1
  s2 = s2
  s3 = s3
  w1 = w1
  w2 = w2
  c1 = c1
  NoOne = NoOne
  Jobs = {j1}
  Digests = {d1}
  Submitters = {s1}
  Workers = {w1, w2}
  Cancellers = {}
  Asks <- MCQueueAsks
  Stealing = {}
  MaxFaults = 0
SPECIFICATION Spec
CHECK_DEADLOCK FALSE
INVARIANT OneRunPerExecution
