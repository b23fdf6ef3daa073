CONSTANTS
  e1 = e1
  e2 = e2
  Entries = {e1, e2}
  MaxAttempts = 2
  MaxBudget = 1
  FetchLimits = {1, 2}
  MaxFaults = 1
SPECIFICATION LiveSpec
INVARIANTS TypeOK GateExclusive  StraysAreRetries EndedMeansDone
PROPERTIES SuccessIsFinal RunEnds
CHECK_DEADLOCK FALSE
