SPECIFICATION Spec
CONSTANTS
  Callers = {c1, c2}
  Links = {l1, l2, l3, l4}
  Addrs = {a1}
  None = None
  MaxFrames = 2
  MaxLen = 1
  MaxUp = 1
  Buf = 1
  MaxData = 3
  MaxWrites = 2
  PsiBuf = 1
  Edges = 2
  MaxCapsules = 2
  Lengths = {0, 2, 4}
  MaxBuffer = 3
  QueueCap = 1
  GroupBits = 2
  MaxShift = 2
  ValueBits = 5
  Prefix <- PrefixBits
  StatusAt <- StaticStatus
  MaxSkipped = 2
  MaxHeaders = 6
  Table <- CodeWords
  ByteBits = 2
  MaxBytes = 5
INVARIANTS NoOrphan  AnswerExact
PROPERTIES LiveLinkKept CallEnds StreamsHonest DownloadFlows 
CHECK_DEADLOCK FALSE
