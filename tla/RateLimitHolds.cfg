\* Two releases for one window and two purposes; no faults.
CONSTANTS
  r1 = r1
  r2 = r2
  r3 = r3
  o1 = o1
  NoOne = NoOne
  NoRequest = NoRequest
  Runs = {r1, r2}
  Operators = {o1}
  Jobs = {"base", "other"}
  QueryOf <- MCTwoPurposes
  Passing = {"base", "other"}
  Rules <- MCRules
  DefaultMax = 0
  CloseGap = 1
  RoundSeconds = 2
  RoundStep = 10
  Cost = 1
  MaxQueries = 1
  DenyDuplicateQuery = FALSE
  MaxTime = 0
  MaxFaults = 0
SPECIFICATION Spec
INVARIANT RateLimitHolds
CHECK_DEADLOCK FALSE
