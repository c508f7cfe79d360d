-------------------------- MODULE ConsensusRounds --------------------------
(***************************************************************************)
(* What a round of the sharded consensus promises, with waves, workers and *)
(* mutexes left out.  Every transaction is drawn into a shard.  A shard is *)
(* decided once, in one step, all its transactions alike, and no step on   *)
(* one shard touches another.  When no transaction is open the round ends  *)
(* and counts them as they were decided.                                   *)
(***************************************************************************)
EXTENDS Integers, FiniteSets

CONSTANTS Txs, Shards, None, MaxRounds

VARIABLES
  phase,             \* of the simulation
  round,             \* rounds started
  shardOf,           \* the shard of each transaction
  decision,          \* what was decided on each transaction
  success, failure   \* transactions counted

vars == <<phase, round, shardOf, decision, success, failure>>

Verdicts == {"strengthened", "weakened"}

DecidedAs(v) == {x \in Txs : decision[x] = v}

Init ==
  /\ phase = "ready" /\ round = 0
  /\ shardOf = [x \in Txs |-> None]
  /\ decision = [x \in Txs |-> "open"]
  /\ success = 0 /\ failure = 0

Start ==
  /\ phase = "ready" /\ round < MaxRounds
  /\ phase' = "round" /\ round' = round + 1
  /\ shardOf' \in [Txs -> Shards]
  /\ decision' = [x \in Txs |-> "open"]
  /\ UNCHANGED <<success, failure>>

Decide(s, v) ==
  /\ phase = "round"
  /\ {x \in Txs : shardOf[x] = s} \subseteq DecidedAs("open")
  /\ decision' = [x \in Txs |-> IF shardOf[x] = s THEN v ELSE decision[x]]
  /\ UNCHANGED <<phase, round, shardOf, success, failure>>

End ==
  /\ phase = "round" /\ DecidedAs("open") = {}
  /\ phase' = "ready"
  /\ success' = success + Cardinality(DecidedAs("strengthened"))
  /\ failure' = failure + Cardinality(DecidedAs("weakened"))
  /\ UNCHANGED <<round, shardOf, decision>>

Finish ==
  /\ phase = "ready" /\ round = MaxRounds
  /\ phase' = "finished"
  /\ UNCHANGED <<round, shardOf, decision, success, failure>>

Next ==
  \/ Start \/ End \/ Finish
  \/ \E s \in Shards, v \in Verdicts : Decide(s, v)

Spec == Init /\ [][Next]_vars
=============================================================================
