CONSTANTS
  n1 = n1
  n2 = n2
  n3 = n3
  x = x
  y = y
  z = z
  u = u
  Nodes = {n1, n2, n3}
  PeersOf <- MCPeersOf
  Ids = {i1}
  FanOut = 2
  MaxTtl = 4
  CacheMax = 1
  CacheKeep = 1
  Publishers = {n1}
  Restarting = {n2}
  DhtIds = {x, y, z, u}
  Local = local
  Fold <- MCFold
  WordXor <- MCXor
  WordBits = 3
  BucketSize = 2
  KeySpace = 20
  MaxQuality = 1
  Timeout = 1
  MaxLookup = 3
  Incoming = {in1, in2}
  Outgoing = {out}
  Senders = {sender}
  NoConn = noConn
  Workers = 2
  IdleLimit = 3
  MaxStarts = 2
  EventCap = 1
SPECIFICATION ServicesSpec
INVARIANTS ProcessedOnce SpreadsAlongPaths  LookupResults
PROPERTIES FloodsEnd IdleOnlyIfHeldUp HandlersEnd StoppedMeansEnded
CHECK_DEADLOCK FALSE
