SPECIFICATION Spec
CONSTANTS
  o1 = o1
  o2 = o2
  o3 = o3
  m1 = m1
  m2 = m2
  Offers = {o1, o2, o3}
  Machines = {m1, m2}
  Machine <- OnTwo
  Wanted = {0, 3}
  Default = 1
  Most = 2
  MaxOther = 1
  MaxErrors = 1
INVARIANTS TypeOK OfferOnce RetryLimit RunningIsLast
CHECK_DEADLOCK FALSE
