CONSTANTS
  Conns = {}
  Outlets = {o1, o2, o3}
  None = None
  e1 = e1
  e2 = e2
  Pool <- Pool2
  Entries = {p1}
  MaxTries = 1
  Threshold = 2
  MaxU32 = 3
SPECIFICATION RFairSpec
INVARIANTS HeartbeatHonest  WithdrawnForCause
PROPERTY Recovers
