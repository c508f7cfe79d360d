CONSTANTS
  Txs = {t1, t2, t3}
  Shards = {s1, s2, s3}
  Workers = {w1, w2, w3}
  None = None
  MaxRounds = 2
SPECIFICATION Spec
INVARIANTS SuccessesAreStrengthened
PROPERTIES ShardsDecideAtomically EndsOrWaitsInLoop
CHECK_DEADLOCK FALSE
