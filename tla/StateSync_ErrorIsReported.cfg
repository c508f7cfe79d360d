SPECIFICATION Spec
CONSTANTS
  Shards = {s1}
  Callers = {c1, c2}
  Tasks = {t1, t2}
  NoTask = noTask
  NoShard = noShard
  MaxConcurrentShards = 1
  TotalChunks = 1
  Faults = {"verify"}
INVARIANT ErrorIsReported
