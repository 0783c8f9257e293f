\* Two releases, one operator, one fault; fair scheduling, no symmetry.
CONSTANTS
  r1 = r1
  r2 = r2
  r3 = r3
  o1 = o1
  NoOne = NoOne
  NoRequest = NoRequest
  Runs = {r1, r2}
  Operators = {o1}
  Jobs = {"base", "near"}
  QueryOf <- MCQueryOf
  Passing = {"base", "near"}
  Rules <- MCRules
  DefaultMax = 0
  CloseGap = 1
  RoundSeconds = 2
  RoundStep = 10
  Cost = 1
  MaxQueries = 2
  DenyDuplicateQuery = FALSE
  MaxTime = 1
  MaxFaults = 1
SPECIFICATION FairSpec
PROPERTIES
  LockReleased
CHECK_DEADLOCK FALSE
