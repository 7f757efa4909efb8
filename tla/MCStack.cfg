SPECIFICATION Spec
CONSTANTS
  Tcp = {}
  Udp = {u}
  Cap = 1
  MaxBurst = 1
  Handles = {h1, h2, h3}
  FirstPort = 4
  LastPort = 5
  Requested = {5, 9}
  MaxPending = 2
  Burst = 2
  MaxId = 4
  Watched = {"outer_rx_packets", "outer_rx_bytes", "reactor_wake_calls", "outer_backlog", "outer_backlog_peak"}
  Sizes = {3}
  Levels = {0, 1, 2}
  MaxRecords = 3
INVARIANTS PortsSound OutInOrder WindowsAddUp
PROPERTIES ReceivesUnderBackpressure PendingMoves
CHECK_DEADLOCK FALSE
