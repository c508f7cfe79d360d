SPECIFICATION FairSpec
CONSTANTS
  Shards = {s1}
  Callers = {c1, c2}
  Tasks = {t1, t2}
  NoTask = noTask
  NoShard = noShard
  MaxConcurrentShards = 1
  TotalChunks = 2
  Faults = {"peers", "metadata", "download", "verify", "apply"}
INVARIANTS
  PermitsConserved
  CompletedIsVerified
  StuckOnlyAfterDeath
  ProgressIsReal
  SyncsCountedOnce
  LoneSyncIsReachable
PROPERTIES
  CallsReturn
  TasksEnd
  ProgressEnds
