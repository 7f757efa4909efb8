CONSTANTS
  Conns = {c1, c2, c3}
  Outlets = {o1, o2, o3}
  None = None
  Listeners = {l1}
  LanOnly = TRUE
  MaxConnections = 2
SPECIFICATION MFairSpec
INVARIANTS PermitsConserved CutIffStale
PROPERTIES WaitEnds
