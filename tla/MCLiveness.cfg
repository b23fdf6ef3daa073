CONSTANTS
  s1 = s1
  s2 = s2
  mgr = mgr
  u1 = u1
  e1 = e1
  l1 = l1
  l2 = l2
  Sessions = {s1}
  Key <- OneKey
  Unregistered = {}
  Entrypoint = {}
  Calls = {mgr}
  Mgr = mgr
  Editors = {}
  Locks = {l1, l2}
  NoLock = NoLock
  NoSession = NoSession
  DestroyRetries = 1
  Reservation = 1
  HardMax = 1
  StuckTimeout = 1
  GhostGrace = 2
  CreateMax = 0
  PassMax = 1
  HidesErrors = {s1}
  MaxAge = 2
  MaxExp = 1
  MaxFaults = 1
SPECIFICATION LiveSpec
PROPERTIES InstancesReclaimed SessionsEnd FailedIdCleared
