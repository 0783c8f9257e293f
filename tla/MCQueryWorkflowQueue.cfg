\* One queued job, a worker that steals and is restarted, a cancellation, two faults.
CONSTANTS
  j1 = j1
  j2 = j2
  d1 = d1
  d2 = d2
  s1 = s1
  s2 = s2
  s3 = s3
  w1 = w1
  w2 = w2
  c1 = c1
  NoOne = NoOne
  Jobs = {j1}
  Digests = {d1}
  Submitters = {s1}
  Workers = {w1}
  Cancellers = {c1}
  Asks <- MCQueueAsks
  Stealing = {w1}
  MaxFaults = 2
SPECIFICATION FairSpec
PROPERTIES
  TerminalStays
  EveryJobSettles
CHECK_DEADLOCK FALSE
