CONSTANTS
  s1 = s1
  s2 = s2
  s3 = s3
  c1 = c1
  c2 = c2
  c3 = c3
  l1 = l1
  l2 = l2
  l3 = l3
  Sessions = {s1, s2, s3}
  Key <- TwinKey
  Unregistered = {s3}
  Entrypoint = {s2}
  Calls = {c1}
  Locks = {l1}
  NoLock = NoLock
  NoSession = NoSession
  DestroyRetries = 2
  Reservation = 1
  MaxAge = 0
  MaxFaults = 0
SPECIFICATION ProvSpec
INVARIANTS UniqueActive
CHECK_DEADLOCK FALSE
