\* A release that dies between its report and its ledger line.
CONSTANTS
  r1 = r1
  r2 = r2
  r3 = r3
  o1 = o1
  NoOne = NoOne
  NoRequest = NoRequest
  Runs = {r1, r2}
  Operators = {o1}
  Jobs = {"base", "far", "near", "again"}
  QueryOf <- MCQueryOf
  Passing = {"base", "far", "near"}
  Rules <- MCRules
  DefaultMax = 0
  CloseGap = 1
  RoundSeconds = 2
  RoundStep = 10
  Cost = 1
  MaxQueries = 2
  DenyDuplicateQuery = FALSE
  MaxTime = 0
  MaxFaults = 1
SPECIFICATION Spec
INVARIANT ReportedIsCharged
CHECK_DEADLOCK FALSE
