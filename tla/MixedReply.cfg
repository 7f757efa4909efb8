CONSTANTS
  Conns = {c1}
  Outlets = {o1, o2}
  None = None
  Listeners = {l1}
  LanOnly = TRUE
  MaxConnections = 2
SPECIFICATION MSpec
PROPERTIES GivesUpWithReply
