SPECIFICATION Spec
CONSTANTS
  s1 = s1
  s2 = s2
  a = a
  b = b
  Sessions = {s1, s2}
  Consumers = {a, b}
  Consumer <- Payers
  PerHour = 12
  PerMonth = 1
  Grace = 2
  MaxTime = 3
  MaxFaults = 1
INVARIANT EndedSessionBilled
CHECK_DEADLOCK FALSE
