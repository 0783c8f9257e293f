\* One job, any two submissions of it, one worker, one cancellation.
CONSTANTS
  j1 = j1
  j2 = j2
  d1 = d1
  d2 = d2
  s1 = s1
  s2 = s2
  s3 = s3
  w1 = w1
  w2 = w2
  c1 = c1
  NoOne = NoOne
  Jobs = {j1}
  Digests = {d1, d2}
  Submitters = {s1, s2}
  Workers = {w1}
  Cancellers = {c1}
  Asks <- MCEveryAsk
  Stealing = {w1}
  MaxFaults = 1
SPECIFICATION Spec
SYMMETRY Symmetry
INVARIANTS
  TypeOK
  AdmittedOnce
  CompletedRan
  CancelledWasAsked
  CancelledInQueueNeverRuns
  CancellationKept
  PayloadKept
CHECK_DEADLOCK FALSE
