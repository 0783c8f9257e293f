\* Three releases, one operator, one fault.
CONSTANTS
  r1 = r1
  r2 = r2
  r3 = r3
  o1 = o1
  NoOne = NoOne
  NoRequest = NoRequest
  Runs = {r1, r2, r3}
  Operators = {o1}
  Jobs = {"base", "far", "near", "again"}
  QueryOf <- MCQueryOf
  Passing = {"base", "far", "near"}
  Rules <- MCRules
  DefaultMax = 0
  CloseGap = 1
  RoundSeconds = 2
  RoundStep = 10
  Cost = 1
  MaxQueries = 2
  DenyDuplicateQuery = FALSE
  MaxTime = 1
  MaxFaults = 1
SPECIFICATION Spec
SYMMETRY Symmetry
INVARIANTS
  TypeOK
  BudgetWithinLimit
  ChargedOnce
  StoreMatchesLedger
  ConsumeFollowsApproval
  FlaggedWasApproved
PROPERTIES
  ClosedRequestsStayClosed
  KeepsBudget
CHECK_DEADLOCK FALSE
