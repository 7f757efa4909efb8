SPECIFICATION Spec
CONSTANTS
  Callers = {c1, c2}
  Keys = {k1, k2}
  Ports = {q1, q2}
  Ttls = {9}
  Retry = 1
  Timeout = 2
  MinTtl = 1
  MaxTtl = 2
  CacheCap = 1
  MaxPackets = 1
  Buffers <- MCBuffers
  Id = 7
  QType = 1
  Askers = {d1, d2}
  Domains = {n1, n2, n3}
  Addrs = 2
  DohTtls = {0, 9}
  DohMinTtl = 1
  DohMaxTtl = 2
  ReadTime = 1
  DohCap = 2
SYMMETRY Symmetry
INVARIANTS OwnAnswer CachesFresh ParsesWhatWasSent
PROPERTIES ParseSafe
CHECK_DEADLOCK FALSE
