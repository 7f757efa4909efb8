SPECIFICATION NSpec
CONSTANTS
  Tcp = {t}
  Udp = {}
  Cap = 1
  MaxBurst = 1
INVARIANTS WakeupsKept
PROPERTIES StopReachesTasks
CHECK_DEADLOCK FALSE
