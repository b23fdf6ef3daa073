SPECIFICATION Spec
CONSTANTS
  r = r
  w1 = w1
  w2 = w2
  s1 = s1
  s2 = s2
  none = none
  Vendors = {"vastai", "tensordock", "bluelobster"}
  Callers = {w1, r}
  Reconciler = r
  Sessions = {s1}
  NoSession = none
  Threshold = 2
  MaxRetries = 1
  MaxPolls = 2
  MaxFaults = 2
INVARIANT TypeOK
PROPERTIES KeepsContract BreakerRecovers CallsReturn
