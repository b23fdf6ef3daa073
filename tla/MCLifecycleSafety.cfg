CONSTANTS
  s1 = s1
  s2 = s2
  mgr = mgr
  u1 = u1
  e1 = e1
  l1 = l1
  l2 = l2
  Sessions = {s1}
  Key <- OneKey
  Unregistered = {}
  Entrypoint = {}
  Calls = {mgr, u1}
  Mgr = mgr
  Editors = {}
  Locks = {l1, l2}
  NoLock = NoLock
  NoSession = NoSession
  DestroyRetries = 2
  Reservation = 2
  HardMax = 2
  StuckTimeout = 2
  GhostGrace = 2
  CreateMax = 0
  PassMax = 1
  HidesErrors = {}
  MaxAge = 3
  MaxExp = 2
  MaxFaults = 1
SPECIFICATION Spec
SYMMETRY LockSymmetry
INVARIANTS TypeOK InstanceHasRecord RunningHasInstanceID GhostsAreGone StoppedIsGone RecoverySelects
