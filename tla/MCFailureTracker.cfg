SPECIFICATION Spec
CONSTANTS
  o1 = o1
  o2 = o2
  Offers = {o1, o2}
  SuppressionThreshold = 2
  SuppressionWindow = 2
  SuppressionCooldown = 2
  FailureDecayPeriod = 4
  StoreDelay = 1
  MaxTime = 6
  MaxFailures = 4
  MaxErrors = 1
INVARIANTS TypeOK HistoryKept SuppressionEarned
SYMMETRY MCSymmetry
CHECK_DEADLOCK FALSE
