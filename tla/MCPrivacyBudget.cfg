\* Every window of four seconds, at most three releases of a scope.
CONSTANTS
  Rules <- MCRules
  DefaultMax = 0
  CloseGap = 1
  RoundSeconds = 2
  RoundStep = 10
  Cost = 1
  Jobs <- MCJobs
  QueryOf <- MCQueryOf
SPECIFICATION Spec
INVARIANTS
  WithinLimit
  ChargedOnce
  OverlapNeedsApproval
  SignalSymmetric
CHECK_DEADLOCK FALSE
