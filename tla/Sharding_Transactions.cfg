SPECIFICATION FairSpec
CONSTANTS
  TotalShards = 1
  Peers = {p1}
  Local = local
  NoNode = noNode
  Callers = {c1, c2, c3}
  Pairs <- MCNoPairs
  TxIds = {x1, x2, x3}
  MaxStarts = 2
INVARIANTS
  SuccessIsCounted
  TotalCoversPending
PROPERTIES
  TransactionsEnd
