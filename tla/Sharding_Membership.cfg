SPECIFICATION Spec
CONSTANTS
  TotalShards = 3
  Peers = {p1, p2}
  Local = local
  NoNode = noNode
  Callers = {c1, c2}
  Pairs <- MCPairs
  TxIds = {}
  MaxStarts = 2
INVARIANTS
  PrimaryServes
  MapsAgree
PROPERTIES
  NodesKeepShardActive
  StartCovers
