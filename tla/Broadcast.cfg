CONSTANTS
  p = p
  q = q
  Peers = {p, q}
  Calls = {c1, c2}
  Rounds <- MCRounds
  Added = {p}
  RequestCap = 1
  AnswerCap = 1
  None = None
  MaxDials = 2
  MaxConns = 2
SPECIFICATION Spec
INVARIANTS SuccessIsProcessedOnce
PROPERTIES CallsReturnOrJam
CHECK_DEADLOCK FALSE
