SPECIFICATION Spec
CONSTANTS
  s1 = s1
  s2 = s2
  a = a
  b = b
  Sessions = {s1, s2}
  Consumers = {a, b}
  Consumer <- Payers
  PerHour = 2
  PerMonth = 1
  Grace = 0
  MaxTime = 3
  MaxFaults = 1
INVARIANTS TypeOK NeverOverbilled FailedSessionBilled MonthsAddUp
CHECK_DEADLOCK FALSE
