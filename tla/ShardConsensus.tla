-------------------------- MODULE ShardConsensus --------------------------
(***************************************************************************)
(* The rounds of examples/quantum_consensus_demo.rs: the transactions of a *)
(* round are spread over shards, and a rayon pool judges the shards in     *)
(* parallel over one field and one interference engine, each behind a      *)
(* mutex of its own.                                                       *)
(*                                                                         *)
(* A shard locks the field three times: to add its waves, to compute the   *)
(* pattern (with the engine locked too), and to apply its decision.  The   *)
(* pattern and its analysis are parallel loops of their own, run with the  *)
(* locks held: a worker that waits for a part of such a loop, taken over   *)
(* by another worker, may meanwhile start a shard, on top of its own.      *)
(*                                                                         *)
(* The decision is drawn at random with a probability between 0.3 and 0.95 *)
(* whatever the pattern says, so both outcomes are always possible.  The   *)
(* signatures of a round are made and verified with the same keys and all  *)
(* hold.  Amounts, fees, phases, energy and timings are left out, and so   *)
(* are the lifetimes, which no run of ten rounds outlives.                 *)
(***************************************************************************)
EXTENDS Integers, FiniteSets

CONSTANTS
  Txs,           \* ids of a round's transactions: the same in every round
  Shards,        \* the shards that transactions are drawn into
  Workers,       \* threads of the rayon pool
  None,
  MaxRounds      \* bound: the rounds (10 in the code)

ASSUME ShardConsensusAssumption ==
  /\ IsFiniteSet(Txs) /\ IsFiniteSet(Shards) /\ IsFiniteSet(Workers)
  /\ Txs # {} /\ Shards # {} /\ Workers # {}
  /\ None \notin Shards \cup Workers
  /\ MaxRounds \in Nat \ {0}

VARIABLES
  mode,          \* "distributed" keeps the field over the rounds, "local" does not
  phase,         \* of the simulation
  round,         \* rounds started
  shardOf,       \* the shard drawn for each transaction of the round
  job,           \* what the pool does for each shard
  fieldLock, engineLock,   \* the shard whose job holds the mutex
  field,         \* active_waves of the shared field
  accepted,      \* shards whose decision was ConsensusReached
  last,          \* the successes of the round that ended last
  success, failure,        \* total_success, total_failure
  monitor        \* the CPU monitor's thread: "off", "on", told to "stop"

locks == <<fieldLock, engineLock>>
totals == <<last, success, failure>>
vars == <<mode, phase, round, shardOf, job, locks, field, accepted, totals, monitor>>

Fates == {"new", "strengthened", "weakened"}
Steps == {"none", "waiting", "adding", "locking", "reading", "pattern",
          "analysing", "analysis", "deciding", "done"}

NoJob == [pc |-> "none", by |-> None, under |-> None]
Running(s) == job[s].by # None
Idle(w) == \A s \in Shards : job[s].by # w

\* A job that its worker has not put aside for another shard.
OnTop(s) == \A t \in Shards : job[t].under # s
At(s, pc) == job[s].pc = pc /\ OnTop(s)
GoTo(s, pc) == job' = [job EXCEPT ![s].pc = pc]

Members(s) == {x \in Txs : shardOf[x] = s}

\* The shards a draw gives something to do.
Drawn(f) == [s \in Shards |-> IF \E x \in Txs : f[x] = s
                              THEN [NoJob EXCEPT !.pc = "waiting"] ELSE NoJob]

\* The local mode makes a field for every round.
FieldOfRound == IF mode = "local" THEN [x \in {} |-> field[x]] ELSE field

Init ==
  /\ mode \in {"distributed", "local"}
  /\ phase = "ready" /\ round = 0
  /\ shardOf = [x \in Txs |-> None]
  /\ job = [s \in Shards |-> NoJob]
  /\ fieldLock = None /\ engineLock = None
  /\ field = [x \in {} |-> [fate |-> "new", round |-> 0]]
  /\ accepted = {}
  /\ last = 0 /\ success = 0 /\ failure = 0
  /\ monitor = IF mode = "distributed" THEN "on" ELSE "off"

----------------------------------------------------------------------------
(* A round: transactions are drawn into shards, and a shard that got none  *)
(* is not judged.                                                          *)

StartRound(f) ==
  /\ phase = "ready" /\ round < MaxRounds
  /\ round' = round + 1
  /\ shardOf' = f
  /\ job' = Drawn(f)
  /\ field' = FieldOfRound
  /\ accepted' = {}
  /\ phase' = "round"
  /\ UNCHANGED <<mode, locks, totals, monitor>>

Successes == Cardinality({x \in Txs : shardOf[x] \in accepted})

EndRound ==
  /\ phase = "round"
  /\ \A s \in Shards : job[s].pc \in {"none", "done"}
  /\ last' = Successes
  /\ success' = success + Successes
  /\ failure' = failure + (Cardinality(Txs) - Successes)
  /\ phase' = "ready"
  /\ UNCHANGED <<mode, round, shardOf, job, locks, field, accepted, monitor>>

StopMonitor ==
  /\ phase = "ready" /\ round = MaxRounds
  /\ monitor = "on" /\ monitor' = "stop"
  /\ UNCHANGED <<mode, phase, round, shardOf, job, locks, field, accepted, totals>>

\* The monitor's loop reads its flag after every sleep.
MonitorEnds ==
  /\ monitor = "stop" /\ monitor' = "off"
  /\ UNCHANGED <<mode, phase, round, shardOf, job, locks, field, accepted, totals>>

\* stop() has joined the monitor's thread.
Finish ==
  /\ mode = "distributed"
  /\ phase = "ready" /\ round = MaxRounds
  /\ monitor = "off"
  /\ phase' = "finished"
  /\ UNCHANGED <<mode, round, shardOf, job, locks, field, accepted, totals, monitor>>

FinishLocal ==
  /\ mode = "local"
  /\ phase = "ready" /\ round = MaxRounds
  /\ phase' = "finished"
  /\ UNCHANGED <<mode, round, shardOf, job, locks, field, accepted, totals, monitor>>

----------------------------------------------------------------------------
(* The pool.  A worker's oldest tasks are stolen first.  So when a part of *)
(* its loop is stolen no shard is left in its own queue: a shard that it   *)
(* starts while it waits comes from the queue of another busy worker.      *)

InLoop(s) == At(s, "pattern") \/ At(s, "analysis")

Take(w, s) ==
  /\ job[s].pc = "waiting"
  /\ Idle(w)
  /\ job' = [job EXCEPT ![s] = [pc |-> "adding", by |-> w, under |-> None]]
  /\ UNCHANGED <<mode, phase, round, shardOf, locks, field, accepted, totals, monitor>>

TakeInLoop(w, s) ==
  /\ job[s].pc = "waiting"
  /\ \E u, v \in Workers \ {w} : Idle(u) /\ ~Idle(v)
  /\ \E p \in Shards :
       /\ job[p].by = w /\ InLoop(p)
       /\ job' = [job EXCEPT ![s] = [pc |-> "adding", by |-> w, under |-> p]]
  /\ UNCHANGED <<mode, phase, round, shardOf, locks, field, accepted, totals, monitor>>

----------------------------------------------------------------------------
(* process_shard_consensus.                                                *)

\* One signed wave per transaction of the shard, under the transaction's id.
Waves(s) == [x \in Members(s) |-> [fate |-> "new", round |-> round]]

\* Each is verified with the public half of the key that has just signed it.
Verified(s) == DOMAIN Waves(s)

\* Fault: a wave that is in the field already is not replaced.
AddedIfNew(s) ==
  [x \in DOMAIN field \cup Verified(s) |->
     IF x \in DOMAIN field THEN field[x] ELSE Waves(s)[x]]

Added(s) ==
  [x \in DOMAIN field \cup Verified(s) |->
     IF x \in Verified(s) THEN Waves(s)[x] ELSE field[x]]

AddWaves(s) ==
  /\ At(s, "adding") /\ fieldLock = None
  /\ field' = Added(s)
  /\ GoTo(s, "locking")
  /\ UNCHANGED <<mode, phase, round, shardOf, locks, accepted, totals, monitor>>

LockField(s) ==
  /\ At(s, "locking") /\ fieldLock = None
  /\ fieldLock' = s
  /\ GoTo(s, "reading")
  /\ UNCHANGED <<mode, phase, round, shardOf, engineLock, field, accepted, totals, monitor>>

LockEngine(s) ==
  /\ At(s, "reading") /\ engineLock = None
  /\ engineLock' = s
  /\ GoTo(s, "pattern")
  /\ UNCHANGED <<mode, phase, round, shardOf, fieldLock, field, accepted, totals, monitor>>

\* Fault: the field stays locked until the shard is decided.
FieldKeptLocked(s) == fieldLock' = s /\ engineLock' = None
Unlocked(s) == fieldLock' = None /\ engineLock' = None

\* calculate_interference_from_field returns and both guards are dropped.
Calculated(s) ==
  /\ At(s, "pattern")
  /\ Unlocked(s)
  /\ GoTo(s, "analysing")
  /\ UNCHANGED <<mode, phase, round, shardOf, field, accepted, totals, monitor>>

LockForAnalysis(s) ==
  /\ At(s, "analysing") /\ engineLock = None
  /\ engineLock' = s
  /\ GoTo(s, "analysis")
  /\ UNCHANGED <<mode, phase, round, shardOf, fieldLock, field, accepted, totals, monitor>>

Analysed(s) ==
  /\ At(s, "analysis")
  /\ engineLock' = None
  /\ GoTo(s, "deciding")
  /\ UNCHANGED <<mode, phase, round, shardOf, fieldLock, field, accepted, totals, monitor>>

\* Fault: every wave of the field takes the decision.
UpdatedAll(s, reached) ==
  [x \in DOMAIN field |->
     [field[x] EXCEPT !.fate = IF reached THEN "strengthened" ELSE "weakened"]]

\* update_wave_states_after_consensus: the amplitudes of the shard's waves.
Updated(s, reached) ==
  [x \in DOMAIN field |->
     IF x \notin Members(s) THEN field[x]
     ELSE [field[x] EXCEPT !.fate = IF reached THEN "strengthened" ELSE "weakened"]]

\* ConsensusReached or ConflictDetected: the factors are clamped to a probability
\* between 0.3 and 0.95.
Outcomes == BOOLEAN

\* The outcome is drawn and applied; the job's worker returns to what it left.
Decide(s, reached) ==
  /\ At(s, "deciding") /\ fieldLock = None
  /\ field' = Updated(s, reached)
  /\ accepted' = IF reached THEN accepted \cup {s} ELSE accepted
  /\ job' = [job EXCEPT ![s] = [NoJob EXCEPT !.pc = "done"]]
  /\ UNCHANGED <<mode, phase, round, shardOf, locks, totals, monitor>>

ShardStep(s) ==
  \/ AddWaves(s)
  \/ LockField(s)
  \/ LockEngine(s)
  \/ Calculated(s)
  \/ LockForAnalysis(s)
  \/ Analysed(s)
  \/ \E reached \in Outcomes : Decide(s, reached)

Next ==
  \/ \E f \in [Txs -> Shards] : StartRound(f)
  \/ EndRound
  \/ StopMonitor
  \/ MonitorEnds
  \/ Finish
  \/ FinishLocal
  \/ \E w \in Workers, s \in Shards : Take(w, s) \/ TakeInLoop(w, s)
  \/ \E s \in Shards : ShardStep(s)

\* Every step is taken by a thread that the scheduler lets run.
Spec == Init /\ [][Next]_vars /\ WF_vars(Next)

----------------------------------------------------------------------------
(* Properties.                                                             *)

TypeOK ==
  /\ mode \in {"distributed", "local"}
  /\ phase \in {"ready", "round", "finished"}
  /\ round \in 0..MaxRounds
  /\ shardOf \in [Txs -> Shards \cup {None}]
  /\ job \in [Shards -> [pc : Steps, by : Workers \cup {None}, under : Shards \cup {None}]]
  /\ {fieldLock, engineLock} \subseteq Shards \cup {None}
  /\ DOMAIN field \subseteq Txs
  /\ field \in [DOMAIN field -> [fate : Fates, round : 0..MaxRounds]]
  /\ accepted \subseteq Shards
  /\ {last, success, failure} \subseteq Nat
  /\ monitor \in {"off", "on", "stop"}

\* Between rounds the field holds one wave per transaction, all of the last
\* round, and the strengthened ones are exactly the successes it counted,
\* however the shards' lock sections interleaved and whether or not the field
\* still held the waves of an earlier round (update_wave_states_after_consensus
\* looks the waves up by id and position).
SuccessesAreStrengthened ==
  phase # "round" /\ round > 0 =>
    /\ DOMAIN field = Txs
    /\ \A x \in Txs : field[x].round = round
    /\ last = Cardinality({x \in Txs : field[x].fate = "strengthened"})
    /\ Cardinality({x \in Txs : field[x].fate = "weakened"}) = Cardinality(Txs) - last
    /\ success + failure = round * Cardinality(Txs)

\* What the shared field says of a transaction: nothing in a round whose shard
\* is not done, however the field looks meanwhile.
Decision ==
  [x \in Txs |-> IF round = 0 \/ (phase = "round" /\ job[shardOf[x]].pc # "done")
                 THEN "open" ELSE field[x].fate]

Rounds == INSTANCE ConsensusRounds WITH decision <- Decision

\* The three lock sections of each shard, on a pool whose workers may leave one
\* shard for another, amount to one step per shard: it decides all transactions
\* of the shard and no other, once, and nothing changes a decision before the
\* next round (process_shard_consensus under process_distributed_consensus).
ShardsDecideAtomically == Rounds!Spec

\* The lock that a job waits for.
WaitsFor(s) ==
  IF ~OnTop(s) THEN None
  ELSE IF job[s].pc \in {"adding", "locking", "deciding"} THEN fieldLock
  ELSE IF job[s].pc \in {"reading", "analysing"} THEN engineLock ELSE None

\* A job waits for a mutex on top of a job that its worker has put aside.
WaitsInLoop == \E s \in Shards : job[s].under # None /\ WaitsFor(s) # None

\* The two mutexes are never taken in opposite orders by different workers: if
\* the simulation does not end, a worker is stuck in a shard that it started
\* inside the locked loop of another one.
EndsOrWaitsInLoop == <>(phase = "finished") \/ <>[]WaitsInLoop
=============================================================================
