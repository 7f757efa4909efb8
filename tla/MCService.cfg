CONSTANTS
  Conns = {c1}
  Outlets = {o1, o2, o3}
  None = None
  Listeners = {l1}
  LanOnly = FALSE
  MaxConnections = 1
  e1 = e1
  Pool <- Pool1
  Entries = {p1}
  MaxTries = 1
  Threshold = 1
  MaxU32 = 1
SPECIFICATION SFairSpec
INVARIANTS ServedIsVerified
PROPERTIES MSpec DeadIsReleased
