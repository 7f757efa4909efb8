SPECIFICATION Spec
CONSTANTS
  None = None
  Sessions = {s1, s2}
  Targets = {t1, t2}
  Workers = {w1, w2}
  Sources = {a1, a2}
  Strangers = {x1}
  Sizes = {1, 2}
  MaxTargets = 1
  MaxWorkers = 2
  QueueBytes = 2
  SendCapacity = 1
  ReplyCapacity = 1
  DnsTimeout = 2
  ConnectTimeout = 2
  Grace = 1
  Delay = 1
  DialTime = 1
  MaxA = 3
  MaxAaaa = 1
  MaxRequests = 3
INVARIANTS Answered StreamsOwned BudgetsConserved RoutesSound DialSound
 
CHECK_DEADLOCK FALSE
