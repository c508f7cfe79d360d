------------------------ MODULE ShardConsensusProofs ------------------------
(***************************************************************************)
(* Proofs about ShardConsensus, for any transactions, shards, workers and  *)
(* number of rounds.                                                       *)
(*                                                                         *)
(* In a round, a shard that has added its waves has all of them in the     *)
(* field (Present), and one that is done has left its decision on each     *)
(* (Decided): no other shard touches them, as a transaction has one shard. *)
(* Between rounds every shard is done or had nothing to do (Settled), so   *)
(* the two add up to the counts.                                           *)
(***************************************************************************)
EXTENDS ShardConsensus, FiniteSetTheorems, TLAPS

Job == [pc : Steps, by : Workers \cup {None}, under : Shards \cup {None}]

\* The shard has its waves in the field.
Past(s) == job[s].pc \notin {"none", "waiting", "adding"}

\* Every transaction of the round has a shard with something to do.
Assigned ==
  phase = "round" =>
    /\ round > 0
    /\ shardOf \in [Txs -> Shards]
    /\ \A x \in Txs : job[shardOf[x]].pc # "none"

Present ==
  phase = "round" =>
    \A x \in Txs : Past(shardOf[x]) => x \in DOMAIN field /\ field[x].round = round

Fate(s) == IF s \in accepted THEN "strengthened" ELSE "weakened"

Decided ==
  phase = "round" =>
    /\ \A s \in accepted : job[s].pc = "done"
    /\ \A x \in Txs : job[shardOf[x]].pc = "done" => field[x].fate = Fate(shardOf[x])

Settled == phase # "round" => \A s \in Shards : job[s].pc \in {"none", "done"}

\* Each round that has ended counted all its transactions.
Counted ==
  success + failure = (IF phase = "round" THEN round - 1 ELSE round) * Cardinality(Txs)

IInv ==
  /\ TypeOK
  /\ Assigned /\ Present /\ Decided /\ Settled /\ Counted
  /\ SuccessesAreStrengthened

----------------------------------------------------------------------------
(* Counting.                                                               *)

LEMMA TxsFinite ==
  ASSUME NEW S \in SUBSET Txs
  PROVE  /\ IsFiniteSet(S) /\ Cardinality(S) \in Nat /\ Cardinality(Txs) \in Nat
         /\ Cardinality(S) <= Cardinality(Txs)
         /\ Cardinality(Txs \ S) = Cardinality(Txs) - Cardinality(S)
<1>1. IsFiniteSet(Txs)
  BY ShardConsensusAssumption
<1>2. IsFiniteSet(S) /\ Cardinality(S) <= Cardinality(Txs)
  BY <1>1, FS_Subset
<1>3. Cardinality(Txs \ S) = Cardinality(Txs) - Cardinality(Txs \cap S)
  BY <1>1, FS_Difference
<1>4. Txs \cap S = S
  OBVIOUS
<1>5. QED
  BY <1>1, <1>2, <1>3, <1>4, FS_CardinalityType

LEMMA OneMoreRound ==
  ASSUME NEW r \in Nat, NEW n \in Nat
  PROVE  (r + 1) * n = r * n + n /\ (r + 1) - 1 = r
OBVIOUS

----------------------------------------------------------------------------
(* The steps of a job that touch neither the field nor the decisions.      *)

Moved(s) ==
  /\ phase = "round"
  /\ \E r \in Job :
       /\ job' = [job EXCEPT ![s] = r]
       /\ r.pc \notin {"none", "done"}
       /\ r.pc \notin {"none", "waiting", "adding"} <=> Past(s)
  /\ job[s].pc \notin {"none", "done"}
  /\ UNCHANGED <<mode, phase, round, shardOf, field, accepted, last, success, failure, monitor>>
  /\ {fieldLock', engineLock'} \subseteq Shards \cup {None}

LEMMA Going ==
  ASSUME TypeOK, Settled, NEW s \in Shards, NEW pc \in Steps \ {"none", "done", "waiting", "adding"},
         GoTo(s, pc), Past(s), job[s].pc # "done",
         UNCHANGED <<mode, phase, round, shardOf, field, accepted, last, success, failure, monitor>>,
         {fieldLock', engineLock'} \subseteq Shards \cup {None}
  PROVE  Moved(s)
<1>1. job[s] \in Job
  BY DEF TypeOK, Job
<1>2. PICK r : r = [job[s] EXCEPT !.pc = pc]
  OBVIOUS
<1>3. r \in Job /\ r.pc = pc
  BY <1>1, <1>2 DEF Job
<1>4. job' = [job EXCEPT ![s] = r]
  BY <1>2 DEF GoTo
<1>5. phase = "round"
  BY DEF Settled, Past
<1>6. QED
  BY <1>3, <1>4, <1>5 DEF Moved, Past

LEMMA MovingSteps ==
  ASSUME TypeOK, Settled, NEW s \in Shards,
         \/ LockField(s) \/ LockEngine(s) \/ Calculated(s) \/ LockForAnalysis(s) \/ Analysed(s)
  PROVE  Moved(s)
<1>1. {fieldLock, engineLock} \subseteq Shards \cup {None}
  BY DEF TypeOK
<1>2. CASE LockField(s)
  BY <1>1, <1>2, Going DEF LockField, At, Past, Steps, totals
<1>3. CASE LockEngine(s)
  BY <1>1, <1>3, Going DEF LockEngine, At, Past, Steps, totals
<1>4. CASE Calculated(s)
  BY <1>1, <1>4, Going DEF Calculated, Unlocked, At, Past, Steps, totals
<1>5. CASE LockForAnalysis(s)
  BY <1>1, <1>5, Going DEF LockForAnalysis, At, Past, Steps, totals
<1>6. CASE Analysed(s)
  BY <1>1, <1>6, Going DEF Analysed, At, Past, Steps, totals
<1>7. QED
  BY <1>2, <1>3, <1>4, <1>5, <1>6

LEMMA TakingSteps ==
  ASSUME TypeOK, Settled, NEW s \in Shards, NEW w \in Workers, Take(w, s) \/ TakeInLoop(w, s)
  PROVE  Moved(s)
<1>1. PICK p \in Shards \cup {None} : job' = [job EXCEPT ![s] = [pc |-> "adding", by |-> w, under |-> p]]
  BY DEF Take, TakeInLoop
<1>2. [pc |-> "adding", by |-> w, under |-> p] \in Job
  BY DEF Job, Steps
<1>3. job[s].pc = "waiting" /\ phase = "round"
  BY DEF Take, TakeInLoop, Settled
<1>4. UNCHANGED <<mode, phase, round, shardOf, locks, field, accepted, totals, monitor>>
  BY DEF Take, TakeInLoop
<1>5. QED
  BY <1>1, <1>2, <1>3, <1>4 DEF Moved, Past, TypeOK, locks, totals

LEMMA MovedStep ==
  ASSUME IInv, NEW s \in Shards, Moved(s)
  PROVE  IInv'
<1> USE DEF IInv
<1>1. PICK r \in Job :
        /\ job' = [job EXCEPT ![s] = r]
        /\ r.pc \notin {"none", "done"}
        /\ r.pc \notin {"none", "waiting", "adding"} <=> Past(s)
  BY DEF Moved
<1>2. job \in [Shards -> Job]
  BY DEF TypeOK, Job
<1>3. job' \in [Shards -> Job] /\ job'[s] = r /\ \A t \in Shards : t # s => job'[t] = job[t]
  BY <1>1, <1>2
<1>4. \A t \in Shards : Past(t)' <=> Past(t)
  BY <1>1, <1>3 DEF Past
<1>5. \A t \in Shards : /\ job'[t].pc = "done" <=> job[t].pc = "done"
                        /\ job[t].pc # "none" => job'[t].pc # "none"
  BY <1>1, <1>3 DEF Moved
<1>6. UNCHANGED <<mode, phase, round, shardOf, field, accepted, last, success, failure, monitor>>
      /\ phase = "round"
  BY DEF Moved
<1>7. TypeOK'
  <2>1. {fieldLock', engineLock'} \subseteq Shards \cup {None}
    BY DEF Moved
  <2>2. QED
    BY <1>3, <1>6, <2>1 DEF TypeOK, Job
<1>8. Assigned' /\ Settled'
  BY <1>5, <1>6 DEF Assigned, Settled
<1>9. Present'
  BY <1>4, <1>6 DEF Present, Assigned
<1>10. Decided'
  <2>1. accepted \subseteq Shards
    BY DEF TypeOK
  <2>2. \A t \in accepted' : job'[t].pc = "done"
    BY <1>5, <1>6, <2>1 DEF Decided
  <2>3. \A x \in Txs : job'[shardOf[x]].pc = "done" => field[x].fate = Fate(shardOf[x])
    BY <1>5, <1>6 DEF Decided, Assigned
  <2>4. QED
    BY <1>6, <2>2, <2>3 DEF Decided, Fate
<1>11. Counted' /\ SuccessesAreStrengthened'
  BY <1>6 DEF Counted, SuccessesAreStrengthened
<1>12. QED
  BY <1>7, <1>8, <1>9, <1>10, <1>11

----------------------------------------------------------------------------
(* The steps that write the field.                                         *)

LEMMA AddStep ==
  ASSUME IInv, NEW s \in Shards, AddWaves(s)
  PROVE  IInv'
<1> USE DEF IInv
<1>1. /\ job[s].pc = "adding" /\ job \in [Shards -> Job] /\ phase = "round"
      /\ round \in 0..MaxRounds
  BY DEF AddWaves, At, TypeOK, Job, Settled
<1>2. PICK r : r = [job[s] EXCEPT !.pc = "locking"]
  OBVIOUS
<1>3. r \in Job /\ r.pc = "locking"
  BY <1>1, <1>2 DEF Job, Steps
<1>4. job' = [job EXCEPT ![s] = r]
      /\ UNCHANGED <<mode, phase, round, shardOf, fieldLock, engineLock, accepted,
                     last, success, failure, monitor>>
  BY <1>2 DEF AddWaves, GoTo, locks, totals
<1>5. /\ DOMAIN field' = DOMAIN field \cup Members(s)
      /\ \A x \in Members(s) : field'[x] = [fate |-> "new", round |-> round]
      /\ \A x \in DOMAIN field \ Members(s) : field'[x] = field[x]
      /\ field' = [x \in DOMAIN field' |-> field'[x]]
  BY DEF AddWaves, Added, Verified, Waves
<1>6. Members(s) \subseteq Txs /\ DOMAIN field \subseteq Txs
  BY DEF Members, TypeOK
<1>7. TypeOK'
  <2>1. [fate |-> "new", round |-> round] \in [fate : Fates, round : 0..MaxRounds]
    BY <1>1 DEF Fates
  <2>2. \A x \in DOMAIN field : field[x] \in [fate : Fates, round : 0..MaxRounds]
    BY DEF TypeOK
  <2>3. \A x \in DOMAIN field' : field'[x] \in [fate : Fates, round : 0..MaxRounds]
    BY <1>5, <2>1, <2>2
  <2>4. field' \in [DOMAIN field' -> [fate : Fates, round : 0..MaxRounds]]
    BY <1>5, <2>3
  <2>5. job' \in [Shards -> Job]
    BY <1>1, <1>3, <1>4
  <2>6. DOMAIN field' \subseteq Txs
    BY <1>5, <1>6
  <2>7. QED
    BY <1>4, <2>4, <2>5, <2>6 DEF TypeOK, Job
<1>8. Assigned' /\ Settled'
  BY <1>1, <1>3, <1>4 DEF Assigned, Settled
<1>9. \A x \in Txs : shardOf[x] # s => x \notin Members(s)
  BY DEF Members
<1>10. Present'
  <2> SUFFICES ASSUME NEW x \in Txs, Past(shardOf[x])'
               PROVE  x \in DOMAIN field' /\ field'[x].round = round
    BY <1>4 DEF Present
  <2>1. shardOf[x] \in Shards
    BY <1>1 DEF Assigned
  <2>2. CASE shardOf[x] = s
    BY <1>5, <2>2 DEF Members
  <2>3. CASE shardOf[x] # s
    <3>1. Past(shardOf[x])
      BY <1>1, <1>4, <2>1, <2>3 DEF Past
    <3>2. x \in DOMAIN field /\ field[x].round = round
      BY <1>1, <3>1 DEF Present
    <3>3. QED
      BY <1>5, <1>9, <2>3, <3>2
  <2>4. QED
    BY <2>2, <2>3
<1>11. Decided'
  <2>1. \A t \in accepted' : job'[t].pc = "done"
    BY <1>1, <1>4 DEF Decided, TypeOK
  <2>2. ASSUME NEW x \in Txs, job'[shardOf[x]].pc = "done"
        PROVE  field'[x].fate = Fate(shardOf[x])
    <3>1. shardOf[x] \in Shards
      BY <1>1 DEF Assigned
    <3>2. shardOf[x] # s /\ job[shardOf[x]].pc = "done"
      BY <1>1, <1>3, <1>4, <2>2, <3>1
    <3>3. x \in DOMAIN field /\ field[x].fate = Fate(shardOf[x])
      BY <1>1, <3>2 DEF Decided, Present, Past
    <3>4. QED
      BY <1>5, <1>9, <3>2, <3>3
  <2>3. QED
    BY <1>4, <2>1, <2>2 DEF Decided, Fate
<1>12. Counted' /\ SuccessesAreStrengthened'
  BY <1>1, <1>4 DEF Counted, SuccessesAreStrengthened
<1>13. QED
  BY <1>7, <1>8, <1>10, <1>11, <1>12

LEMMA DecideStep ==
  ASSUME IInv, NEW s \in Shards, NEW reached \in BOOLEAN, Decide(s, reached)
  PROVE  IInv'
<1> USE DEF IInv
<1> DEFINE fate == IF reached THEN "strengthened" ELSE "weakened"
<1>1. /\ job[s].pc = "deciding" /\ job \in [Shards -> Job] /\ phase = "round"
      /\ round \in 0..MaxRounds /\ accepted \subseteq Shards
  BY DEF Decide, At, TypeOK, Job, Settled
<1>2. PICK r : r = [NoJob EXCEPT !.pc = "done"]
  OBVIOUS
<1>3. r \in Job /\ r.pc = "done"
  BY <1>2 DEF NoJob, Job, Steps
<1>4. /\ job' = [job EXCEPT ![s] = r]
      /\ accepted' = IF reached THEN accepted \cup {s} ELSE accepted
      /\ UNCHANGED <<mode, phase, round, shardOf, fieldLock, engineLock,
                     last, success, failure, monitor>>
  BY <1>2 DEF Decide, locks, totals
<1>5. \A x \in DOMAIN field : field[x] \in [fate : Fates, round : 0..MaxRounds]
  BY DEF TypeOK
<1>6. /\ DOMAIN field' = DOMAIN field
      /\ \A x \in DOMAIN field : x \notin Members(s) => field'[x] = field[x]
      /\ \A x \in DOMAIN field : x \in Members(s) => field'[x] = [field[x] EXCEPT !.fate = fate]
      /\ field' = [x \in DOMAIN field' |-> field'[x]]
  BY DEF Decide, Updated
<1>7. \A x \in DOMAIN field :
        /\ field'[x] \in [fate : Fates, round : 0..MaxRounds]
        /\ field'[x].round = field[x].round
        /\ x \in Members(s) => field'[x].fate = fate
  <2> TAKE x \in DOMAIN field
  <2>1. PICK w : w = [field[x] EXCEPT !.fate = fate]
    OBVIOUS
  <2>2. w \in [fate : Fates, round : 0..MaxRounds] /\ w.round = field[x].round /\ w.fate = fate
    BY <1>5, <2>1 DEF Fates
  <2>3. QED
    BY <1>5, <1>6, <2>1, <2>2
<1>8. TypeOK'
  <2>1. field' \in [DOMAIN field' -> [fate : Fates, round : 0..MaxRounds]]
    BY <1>6, <1>7
  <2>2. job' \in [Shards -> Job] /\ accepted' \subseteq Shards
    BY <1>1, <1>3, <1>4
  <2>3. DOMAIN field' \subseteq Txs
    BY <1>6 DEF TypeOK
  <2>4. QED
    BY <1>4, <2>1, <2>2, <2>3 DEF TypeOK, Job
<1>9. Assigned' /\ Settled'
  BY <1>1, <1>3, <1>4 DEF Assigned, Settled
<1>10. Present'
  <2> SUFFICES ASSUME NEW x \in Txs, Past(shardOf[x])'
               PROVE  x \in DOMAIN field' /\ field'[x].round = round
    BY <1>4 DEF Present
  <2>1. shardOf[x] \in Shards
    BY <1>1 DEF Assigned
  <2>2. Past(shardOf[x])
    BY <1>1, <1>4, <2>1 DEF Past
  <2>3. QED
    BY <1>1, <1>6, <1>7, <2>2 DEF Present
<1>11. Decided'
  <2>1. \A t \in accepted' : job'[t].pc = "done"
    BY <1>1, <1>3, <1>4 DEF Decided
  <2>2. ASSUME NEW x \in Txs, job'[shardOf[x]].pc = "done"
        PROVE  field'[x].fate = Fate(shardOf[x])'
    <3>1. shardOf[x] \in Shards
      BY <1>1 DEF Assigned
    <3>2. CASE shardOf[x] = s
      <4>1. Past(s) /\ s \notin accepted
        BY <1>1 DEF Past, Decided
      <4>2. x \in DOMAIN field /\ x \in Members(s)
        BY <1>1, <3>2, <4>1 DEF Present, Members
      <4>3. Fate(s)' = fate
        BY <1>4, <4>1 DEF Fate
      <4>4. QED
        BY <1>4, <1>7, <3>2, <4>2, <4>3
    <3>3. CASE shardOf[x] # s
      <4>1. job[shardOf[x]].pc = "done"
        BY <1>1, <1>4, <2>2, <3>1, <3>3
      <4>2. x \in DOMAIN field /\ field[x].fate = Fate(shardOf[x]) /\ x \notin Members(s)
        BY <1>1, <3>3, <4>1 DEF Decided, Present, Past, Members
      <4>3. Fate(shardOf[x])' = Fate(shardOf[x])
        BY <1>4, <3>3 DEF Fate
      <4>4. QED
        BY <1>6, <4>2, <4>3
    <3>4. QED
      BY <3>2, <3>3
  <2>3. QED
    BY <1>4, <2>1, <2>2 DEF Decided
<1>12. Counted' /\ SuccessesAreStrengthened'
  BY <1>1, <1>4 DEF Counted, SuccessesAreStrengthened
<1>13. QED
  BY <1>8, <1>9, <1>10, <1>11, <1>12

----------------------------------------------------------------------------
(* The steps of the simulation.                                            *)

LEMMA StartStep ==
  ASSUME IInv, NEW f \in [Txs -> Shards], StartRound(f)
  PROVE  IInv'
<1> USE DEF IInv
<1>1. /\ phase = "ready" /\ phase' = "round" /\ round' = round + 1 /\ shardOf' = f
      /\ accepted' = {} /\ field' = FieldOfRound
      /\ UNCHANGED <<mode, fieldLock, engineLock, last, success, failure, monitor>>
      /\ round \in 0..MaxRounds /\ round < MaxRounds /\ MaxRounds \in Nat
  BY ShardConsensusAssumption DEF StartRound, locks, totals, TypeOK
<1>2. job' \in [Shards -> Job]
      /\ \A s \in Shards : job'[s].pc \in {"none", "waiting"}
      /\ \A x \in Txs : job'[f[x]].pc # "none"
  <2>1. PICK r : r = [NoJob EXCEPT !.pc = "waiting"]
    OBVIOUS
  <2>2. r \in Job /\ r.pc = "waiting" /\ NoJob \in Job /\ NoJob.pc = "none"
    BY <2>1 DEF NoJob, Job, Steps
  <2>3. job' = [s \in Shards |-> IF \E x \in Txs : f[x] = s THEN r ELSE NoJob]
    BY <2>1 DEF StartRound, Drawn
  <2>4. QED
    BY <2>2, <2>3
<1>3. DOMAIN field' \subseteq Txs /\ field' \in [DOMAIN field' -> [fate : Fates, round : 0..MaxRounds]]
  <2>1. CASE mode = "local"
    BY <1>1, <2>1 DEF FieldOfRound
  <2>2. CASE mode # "local"
    BY <1>1, <2>2 DEF FieldOfRound, TypeOK
  <2>3. QED
    BY <2>1, <2>2
<1>4. TypeOK'
  BY <1>1, <1>2, <1>3 DEF TypeOK, Job
<1>5. Assigned' /\ Settled'
  BY <1>1, <1>2 DEF Assigned, Settled
<1>6. Present' /\ Decided'
  BY <1>1, <1>2 DEF Present, Decided, Past
<1>7. Counted'
  <2>1. round' - 1 = round
    BY <1>1
  <2>2. QED
    BY <1>1, <2>1 DEF Counted
<1>8. SuccessesAreStrengthened'
  BY <1>1 DEF SuccessesAreStrengthened
<1>9. QED
  BY <1>4, <1>5, <1>6, <1>7, <1>8

LEMMA EndStep ==
  ASSUME IInv, EndRound
  PROVE  IInv'
<1> USE DEF IInv
<1> DEFINE Strong == {x \in Txs : field[x].fate = "strengthened"}
           Weak == {x \in Txs : field[x].fate = "weakened"}
           n == Cardinality(Txs)
<1>1. /\ phase = "round" /\ phase' = "ready" /\ last' = Successes
      /\ success' = success + Successes /\ failure' = failure + (n - Successes)
      /\ UNCHANGED <<mode, round, shardOf, job, fieldLock, engineLock, field, accepted, monitor>>
      /\ \A s \in Shards : job[s].pc \in {"none", "done"}
  BY DEF EndRound, locks
<1>2. round \in Nat /\ round > 0 /\ success \in Nat /\ failure \in Nat
  BY <1>1, ShardConsensusAssumption DEF TypeOK, Assigned
<1>3. \A x \in Txs : job[shardOf[x]].pc = "done"
  BY <1>1 DEF Assigned
<1>4. DOMAIN field = Txs /\ \A x \in Txs : field[x].round = round
  BY <1>1, <1>3 DEF Present, Past, TypeOK
<1>5. \A x \in Txs : field[x].fate = Fate(shardOf[x])
  BY <1>1, <1>3 DEF Decided
<1>6. {x \in Txs : shardOf[x] \in accepted} = Strong /\ Weak = Txs \ Strong
  BY <1>5 DEF Fate
<1>7. Successes = Cardinality(Strong)
  BY <1>6 DEF Successes
<1>8. /\ Cardinality(Strong) \in Nat /\ n \in Nat /\ Cardinality(Strong) <= n
      /\ Cardinality(Weak) = n - Cardinality(Strong)
  BY <1>6, TxsFinite
<1>9. success' + failure' = round * n
  <2>1. success + failure = (round - 1) * n
    BY <1>1 DEF Counted
  <2>2. ((round - 1) + 1) * n = (round - 1) * n + n /\ (round - 1) + 1 = round
        /\ (round - 1) * n \in Nat
    <3>1. round - 1 \in Nat
      BY <1>2
    <3>2. QED
      BY <1>2, <1>8, <3>1, OneMoreRound
  <2>3. success' + failure' = (success + failure) + n
    BY <1>1, <1>2, <1>7, <1>8
  <2>4. QED
    BY <2>1, <2>2, <2>3
<1>10. TypeOK'
  <2>1. {last', success', failure'} \subseteq Nat
    BY <1>1, <1>2, <1>7, <1>8
  <2>2. QED
    BY <1>1, <2>1 DEF TypeOK
<1>11. Assigned' /\ Present' /\ Decided' /\ Settled'
  BY <1>1 DEF Assigned, Present, Decided, Settled
<1>12. Counted'
  BY <1>1, <1>9 DEF Counted
<1>13. SuccessesAreStrengthened'
  <2>1. last' = Cardinality(Strong)' /\ Cardinality(Weak)' = Cardinality(Txs) - last'
    BY <1>1, <1>7, <1>8
  <2>2. QED
    BY <1>1, <1>4, <1>9, <2>1 DEF SuccessesAreStrengthened
<1>14. QED
  BY <1>10, <1>11, <1>12, <1>13

\* The monitor, and the end of the simulation.
LEMMA OtherSteps ==
  ASSUME IInv, StopMonitor \/ MonitorEnds \/ Finish \/ FinishLocal \/ UNCHANGED vars
  PROVE  IInv'
<1> USE DEF IInv
<1>1. UNCHANGED <<mode, round, shardOf, job, fieldLock, engineLock, field, accepted,
                  last, success, failure>>
  BY DEF StopMonitor, MonitorEnds, Finish, FinishLocal, vars, locks, totals
<1>2. phase' = phase \/ (phase # "round" /\ phase' = "finished")
  BY DEF StopMonitor, MonitorEnds, Finish, FinishLocal, vars
<1>3. monitor' \in {"off", "on", "stop"}
  BY DEF StopMonitor, MonitorEnds, Finish, FinishLocal, vars, TypeOK
<1>4. TypeOK'
  BY <1>1, <1>2, <1>3 DEF TypeOK
<1>5. Assigned' /\ Present' /\ Decided' /\ Settled'
  BY <1>1, <1>2 DEF Assigned, Present, Decided, Settled, Past, Fate
<1>6. Counted' /\ SuccessesAreStrengthened'
  BY <1>1, <1>2 DEF Counted, SuccessesAreStrengthened
<1>7. QED
  BY <1>4, <1>5, <1>6

----------------------------------------------------------------------------
(* The inductive invariant and the theorems.                               *)

LEMMA InitIInv == Init => IInv
<1> SUFFICES ASSUME Init PROVE IInv
  OBVIOUS
<1> USE DEF Init
<1>1. TypeOK
  <2>1. NoJob \in Job
    BY DEF NoJob, Job, Steps
  <2>2. round \in 0..MaxRounds
    BY ShardConsensusAssumption
  <2>3. DOMAIN field = {} /\ field \in [DOMAIN field -> [fate : Fates, round : 0..MaxRounds]]
    OBVIOUS
  <2>4. QED
    BY <2>1, <2>2, <2>3 DEF TypeOK, Job
<1>2. Assigned /\ Present /\ Decided
  BY DEF Assigned, Present, Decided
<1>3. Settled
  BY DEF Settled, NoJob
<1>4. Counted
  <2>1. Cardinality(Txs) \in Nat
    BY TxsFinite
  <2>2. 0 * Cardinality(Txs) = 0
    BY <2>1
  <2>3. QED
    BY <2>2 DEF Counted
<1>5. SuccessesAreStrengthened
  BY DEF SuccessesAreStrengthened
<1>6. QED
  BY <1>1, <1>2, <1>3, <1>4, <1>5 DEF IInv

LEMMA NextIInv == IInv /\ [Next]_vars => IInv'
<1> SUFFICES ASSUME IInv, [Next]_vars PROVE IInv'
  OBVIOUS
<1>1. ASSUME NEW s \in Shards, ShardStep(s) PROVE IInv'
  <2>1. TypeOK /\ Settled
    BY DEF IInv
  <2>2. CASE LockField(s) \/ LockEngine(s) \/ Calculated(s) \/ LockForAnalysis(s) \/ Analysed(s)
    BY <2>1, <2>2, MovingSteps, MovedStep
  <2>3. QED
    BY <1>1, <2>2, AddStep, DecideStep DEF ShardStep, Outcomes
<1>2. ASSUME NEW w \in Workers, NEW s \in Shards, Take(w, s) \/ TakeInLoop(w, s) PROVE IInv'
  <2>1. TypeOK /\ Settled
    BY DEF IInv
  <2>2. QED
    BY <1>2, <2>1, TakingSteps, MovedStep
<1>3. QED
  BY <1>1, <1>2, StartStep, EndStep, OtherSteps DEF Next

THEOREM Invariance == Spec => []IInv
BY InitIInv, NextIInv, PTL DEF Spec

\* The variables keep their types.
THEOREM TypeCorrect == Spec => []TypeOK
<1>1. IInv => TypeOK
  BY DEF IInv
<1>2. QED
  BY <1>1, Invariance, PTL

\* After a round the strengthened waves are the successes it counted.
THEOREM SuccessesAreStrengthenedHolds == Spec => []SuccessesAreStrengthened
<1>1. IInv => SuccessesAreStrengthened
  BY DEF IInv
<1>2. QED
  BY <1>1, Invariance, PTL

----------------------------------------------------------------------------
(* The refinement: only Decide, and the start and the end of a round, are  *)
(* steps of ConsensusRounds; the other steps leave every decision alone.   *)

\* A decision of a shard that is done is its transactions' fate.
LEMMA DecisionInRound ==
  ASSUME phase = "round", round > 0, NEW x \in Txs
  PROVE  Decision[x] = IF job[shardOf[x]].pc = "done" THEN field[x].fate ELSE "open"
BY DEF Decision

LEMMA MovedStutters ==
  ASSUME IInv, NEW s \in Shards, Moved(s)
  PROVE  UNCHANGED Rounds!vars
<1>1. PICK r \in Job : job' = [job EXCEPT ![s] = r] /\ r.pc # "done"
  BY DEF Moved
<1>2. /\ phase = "round" /\ shardOf \in [Txs -> Shards] /\ job \in [Shards -> Job]
      /\ job[s].pc # "done"
  BY DEF Moved, IInv, Assigned, TypeOK, Job
<1>3. UNCHANGED <<phase, round, shardOf, field, success, failure>>
  BY DEF Moved
<1>4. \A t \in Shards : job'[t].pc = "done" <=> job[t].pc = "done"
  BY <1>1, <1>2
<1>5. Decision' = Decision
  BY <1>2, <1>3, <1>4 DEF Decision
<1>6. QED
  BY <1>3, <1>5 DEF Rounds!vars

LEMMA AddStutters ==
  ASSUME IInv, NEW s \in Shards, AddWaves(s)
  PROVE  UNCHANGED Rounds!vars
<1>1. /\ job[s].pc = "adding" /\ job \in [Shards -> Job] /\ phase = "round"
      /\ round > 0 /\ shardOf \in [Txs -> Shards]
  BY DEF AddWaves, At, IInv, TypeOK, Job, Settled, Assigned
<1>2. UNCHANGED <<phase, round, shardOf, success, failure>>
  BY DEF AddWaves, totals
<1>3. job'[s].pc = "locking" /\ \A t \in Shards : t # s => job'[t] = job[t]
  <2>1. PICK r : r = [job[s] EXCEPT !.pc = "locking"]
    OBVIOUS
  <2>2. r.pc = "locking" /\ job' = [job EXCEPT ![s] = r]
    BY <1>1, <2>1 DEF AddWaves, GoTo, Job
  <2>3. QED
    BY <1>1, <2>2
<1>4. \A x \in Txs : shardOf[x] # s /\ x \in DOMAIN field => field'[x] = field[x]
  BY DEF AddWaves, Added, Verified, Waves, Members
<1>5. \A x \in Txs : job[shardOf[x]].pc = "done" => x \in DOMAIN field
  BY <1>1 DEF IInv, Present, Past
<1>6. ASSUME NEW x \in Txs
      PROVE  (IF job'[shardOf[x]].pc = "done" THEN field'[x].fate ELSE "open")
               = IF job[shardOf[x]].pc = "done" THEN field[x].fate ELSE "open"
  <2>1. CASE shardOf[x] = s
    BY <1>1, <1>3, <2>1
  <2>2. CASE shardOf[x] # s
    BY <1>1, <1>3, <1>4, <1>5, <2>2
  <2>3. QED
    BY <2>1, <2>2
<1>7. Decision' = Decision
  BY <1>1, <1>2, <1>6 DEF Decision
<1>8. QED
  BY <1>2, <1>7 DEF Rounds!vars

LEMMA DecideDecides ==
  ASSUME IInv, NEW s \in Shards, NEW reached \in BOOLEAN, Decide(s, reached)
  PROVE  \E v \in Rounds!Verdicts : Rounds!Decide(s, v)
<1> DEFINE v == IF reached THEN "strengthened" ELSE "weakened"
<1>1. /\ job[s].pc = "deciding" /\ job \in [Shards -> Job] /\ phase = "round"
      /\ round > 0 /\ shardOf \in [Txs -> Shards]
  BY DEF Decide, At, IInv, TypeOK, Job, Settled, Assigned
<1>2. UNCHANGED <<phase, round, shardOf, success, failure>>
  BY DEF Decide, totals
<1>3. job'[s].pc = "done" /\ \A t \in Shards : t # s => job'[t] = job[t]
  <2>1. PICK r : r = [NoJob EXCEPT !.pc = "done"]
    OBVIOUS
  <2>2. r.pc = "done" /\ job' = [job EXCEPT ![s] = r]
    BY <2>1 DEF Decide, NoJob
  <2>3. QED
    BY <1>1, <2>2
<1>4. /\ \A x \in DOMAIN field : shardOf[x] # s => field'[x] = field[x]
      /\ \A x \in Txs \cap DOMAIN field :
            shardOf[x] = s => field'[x] = [field[x] EXCEPT !.fate = v]
  BY DEF Decide, Updated, Members
<1>5. \A x \in Txs : Past(shardOf[x]) => x \in DOMAIN field
  BY <1>1 DEF IInv, Present
<1>6. \A x \in Txs : Decision[x] = IF job[shardOf[x]].pc = "done" THEN field[x].fate ELSE "open"
  BY <1>1, DecisionInRound
<1>7. \A x \in Txs : Decision'[x] = IF job'[shardOf[x]].pc = "done" THEN field'[x].fate ELSE "open"
  BY <1>1, <1>2 DEF Decision
<1>8. ASSUME NEW x \in Txs
      PROVE  Decision'[x] = IF shardOf[x] = s THEN v ELSE Decision[x]
  <2>1. CASE shardOf[x] = s
    <3>1. x \in Txs \cap DOMAIN field
      BY <1>1, <1>5, <2>1 DEF Past
    <3>2. field'[x] = [field[x] EXCEPT !.fate = v]
      BY <1>4, <2>1, <3>1
    <3>3. field[x] \in [fate : Fates, round : 0..MaxRounds]
      BY <3>1 DEF IInv, TypeOK
    <3>4. field'[x].fate = v
      BY <3>2, <3>3
    <3>5. QED
      BY <1>3, <1>7, <2>1, <3>4
  <2>2. CASE shardOf[x] # s
    <3>1. job'[shardOf[x]] = job[shardOf[x]]
      BY <1>1, <1>3, <2>2
    <3>2. job[shardOf[x]].pc = "done" => field'[x] = field[x]
      BY <1>4, <1>5, <2>2 DEF Past
    <3>3. QED
      BY <1>6, <1>7, <2>2, <3>1, <3>2
  <2>3. QED
    BY <2>1, <2>2
<1>9. Decision' = [x \in Txs |-> IF shardOf[x] = s THEN v ELSE Decision[x]]
  BY <1>8 DEF Decision
<1>10. {x \in Txs : shardOf[x] = s} \subseteq Rounds!DecidedAs("open")
  BY <1>1, <1>6 DEF Rounds!DecidedAs
<1>11. v \in Rounds!Verdicts
  BY DEF Rounds!Verdicts
<1> HIDE DEF v
<1>12. Rounds!Decide(s, v)
  BY <1>1, <1>2, <1>9, <1>10 DEF Rounds!Decide
<1>13. QED
  BY <1>11, <1>12

LEMMA StartStarts ==
  ASSUME IInv, NEW f \in [Txs -> Shards], StartRound(f)
  PROVE  Rounds!Start
<1>1. /\ phase = "ready" /\ round < MaxRounds
      /\ phase' = "round" /\ round' = round + 1 /\ shardOf' = f
      /\ UNCHANGED <<success, failure>>
  BY DEF StartRound, totals
<1>2. \A s \in Shards : job'[s].pc # "done"
  <2>1. PICK r : r = [NoJob EXCEPT !.pc = "waiting"]
    OBVIOUS
  <2>2. job' = [s \in Shards |-> IF \E x \in Txs : f[x] = s THEN r ELSE NoJob]
    BY <2>1 DEF StartRound, Drawn
  <2>3. r.pc = "waiting" /\ NoJob.pc = "none"
    BY <2>1 DEF NoJob
  <2>4. QED
    BY <2>2, <2>3
<1>3. Decision' = [x \in Txs |-> "open"]
  BY <1>1, <1>2 DEF Decision
<1>4. QED
  BY <1>1, <1>3 DEF Rounds!Start

\* ConsensusRounds counts with the same operator.
LEMMA SameCardinality ==
  ASSUME NEW S
  PROVE  Rounds!Cardinality(S) = Cardinality(S)
BY DEF Rounds!Cardinality, Cardinality

LEMMA EndEnds ==
  ASSUME IInv, EndRound
  PROVE  Rounds!End
<1>1. /\ phase = "round" /\ phase' = "ready"
      /\ success' = success + Successes
      /\ failure' = failure + (Cardinality(Txs) - Successes)
      /\ UNCHANGED <<round, shardOf, job, field>>
      /\ \A s \in Shards : job[s].pc \in {"none", "done"}
  BY DEF EndRound
<1>2. round > 0 /\ \A x \in Txs : job[shardOf[x]].pc = "done"
  BY <1>1 DEF IInv, Assigned
<1>3. \A x \in Txs : field[x].fate = Fate(shardOf[x])
  BY <1>1, <1>2 DEF IInv, Decided
<1>4. \A x \in Txs : Decision[x] = Fate(shardOf[x])
  BY <1>1, <1>2, <1>3, DecisionInRound
<1>5. Decision' = Decision
  BY <1>1, <1>2 DEF Decision
<1>6. /\ Rounds!DecidedAs("open") = {}
      /\ Rounds!DecidedAs("strengthened") = {x \in Txs : shardOf[x] \in accepted}
      /\ Rounds!DecidedAs("weakened") = Txs \ {x \in Txs : shardOf[x] \in accepted}
  BY <1>4 DEF Rounds!DecidedAs, Fate
<1>7. Cardinality(Rounds!DecidedAs("weakened")) = Cardinality(Txs) - Successes
  <2>1. {x \in Txs : shardOf[x] \in accepted} \in SUBSET Txs
    OBVIOUS
  <2>2. QED
    BY <1>6, <2>1, TxsFinite DEF Successes
<1>8. QED
  BY <1>1, <1>5, <1>6, <1>7, SameCardinality DEF Rounds!End, Successes

LEMMA OthersFinishOrStutter ==
  ASSUME IInv, StopMonitor \/ MonitorEnds \/ Finish \/ FinishLocal \/ UNCHANGED vars
  PROVE  [Rounds!Next]_Rounds!vars
<1>1. UNCHANGED <<round, shardOf, job, field, success, failure>>
  BY DEF StopMonitor, MonitorEnds, Finish, FinishLocal, vars, totals
<1>2. CASE Finish \/ FinishLocal
  <2>1. phase = "ready" /\ round = MaxRounds /\ phase' = "finished"
    BY <1>2 DEF Finish, FinishLocal
  <2>2. Decision' = Decision
    BY <1>1, <2>1 DEF Decision
  <2>3. QED
    BY <1>1, <2>1, <2>2 DEF Rounds!Finish, Rounds!Next
<1>3. CASE StopMonitor \/ MonitorEnds \/ UNCHANGED vars
  <2>1. phase' = phase
    BY <1>3 DEF StopMonitor, MonitorEnds, vars
  <2>2. Decision' = Decision
    BY <1>1, <2>1 DEF Decision
  <2>3. QED
    BY <1>1, <2>1, <2>2 DEF Rounds!vars
<1>4. QED
  BY <1>2, <1>3

LEMMA NextRefines == IInv /\ [Next]_vars => [Rounds!Next]_Rounds!vars
<1> SUFFICES ASSUME IInv, [Next]_vars PROVE [Rounds!Next]_Rounds!vars
  OBVIOUS
<1>1. TypeOK /\ Settled
  BY DEF IInv
<1>2. ASSUME NEW s \in Shards, ShardStep(s) PROVE [Rounds!Next]_Rounds!vars
  <2>1. CASE LockField(s) \/ LockEngine(s) \/ Calculated(s) \/ LockForAnalysis(s) \/ Analysed(s)
    BY <1>1, <2>1, MovingSteps, MovedStutters
  <2>2. ASSUME NEW reached \in BOOLEAN, Decide(s, reached) PROVE Rounds!Next
    BY <2>2, DecideDecides DEF Rounds!Next
  <2>3. QED
    BY <1>2, <2>1, <2>2, AddStutters DEF ShardStep, Outcomes
<1>3. ASSUME NEW w \in Workers, NEW s \in Shards, Take(w, s) \/ TakeInLoop(w, s)
      PROVE  [Rounds!Next]_Rounds!vars
  BY <1>1, <1>3, TakingSteps, MovedStutters
<1>4. ASSUME NEW f \in [Txs -> Shards], StartRound(f) PROVE Rounds!Next
  BY <1>4, StartStarts DEF Rounds!Next
<1>5. CASE EndRound
  BY <1>5, EndEnds DEF Rounds!Next
<1>6. QED
  BY <1>2, <1>3, <1>4, <1>5, OthersFinishOrStutter DEF Next

\* The parallel shards implement rounds in which a shard is decided in one step.
THEOREM Refinement == Spec => ShardsDecideAtomically
<1>1. Init => Rounds!Init
  BY DEF Init, Rounds!Init, Decision
<1>2. QED
  BY <1>1, NextRefines, Invariance, PTL DEF Spec, ShardsDecideAtomically, Rounds!Spec

----------------------------------------------------------------------------
(* The locks.  A job that its worker has put aside is inside a loop, with  *)
(* the engine locked, so there is one at most.                             *)

Locked ==
  \A s \in Shards :
    /\ fieldLock = s <=> job[s].pc \in {"reading", "pattern"}
    /\ engineLock = s <=> job[s].pc \in {"pattern", "analysis"}

Busy == \A s \in Shards : Running(s) <=> job[s].pc \notin {"none", "waiting", "done"}

PutAside ==
  \A t \in Shards : job[t].under # None =>
    /\ Running(t) /\ job[t].under # t
    /\ job[job[t].under].pc \in {"pattern", "analysis"}

LockInv == Locked /\ Busy /\ PutAside

\* A job that could take a step: a worker is free for it, or its worker is at it
\* and it waits for no mutex.
CanGoOn(s) ==
  \/ job[s].pc = "waiting" /\ \E w \in Workers : Idle(w)
  \/ Running(s) /\ OnTop(s) /\ WaitsFor(s) = None

\* While a shard of the round is not done, some job can go on, unless one waits
\* for a mutex on top of the job that its worker has put aside.
NoLockCycle ==
  (\E s \in Shards : job[s].pc \notin {"none", "done"}) /\ ~WaitsInLoop =>
    \E s \in Shards : CanGoOn(s)

\* What a step makes of one job.
Becomes(s, pc, b, u) ==
  /\ job'[s].pc = pc /\ job'[s].by = b /\ job'[s].under = u
  /\ \A t \in Shards : t # s => job'[t] = job[t]

LEMMA GoToBecomes ==
  ASSUME TypeOK, NEW s \in Shards, NEW pc, GoTo(s, pc)
  PROVE  Becomes(s, pc, job[s].by, job[s].under)
<1>1. PICK r : r = [job[s] EXCEPT !.pc = pc]
  OBVIOUS
<1>2. job \in [Shards -> Job] /\ job[s] \in Job
  BY DEF TypeOK, Job
<1>3. r.pc = pc /\ r.by = job[s].by /\ r.under = job[s].under
  BY <1>1, <1>2 DEF Job
<1>4. job' = [job EXCEPT ![s] = r]
  BY <1>1 DEF GoTo
<1>5. QED
  BY <1>2, <1>3, <1>4 DEF Becomes

LEMMA LocksNone == None \notin Shards /\ None \notin Workers
BY ShardConsensusAssumption

\* A job goes on: it runs before and after, keeps its place on the stack of its
\* worker, and nothing is on top of it.
LEMMA GoesOn ==
  ASSUME TypeOK, LockInv, NEW s \in Shards, NEW pc,
         pc \notin {"none", "waiting", "done"}, job[s].pc \notin {"none", "waiting", "done"},
         OnTop(s), GoTo(s, pc)
  PROVE  Busy' /\ PutAside'
<1>1. Becomes(s, pc, job[s].by, job[s].under)
  BY GoToBecomes
<1>2. Busy'
  BY <1>1 DEF LockInv, Busy, Becomes, Running
<1>3. PutAside'
  <2> SUFFICES ASSUME NEW t \in Shards, job'[t].under # None
               PROVE  /\ job'[t].by # None /\ job'[t].under # t
                      /\ job'[job'[t].under].pc \in {"pattern", "analysis"}
    BY DEF PutAside, Running
  <2>1. job'[t].under = job[t].under /\ job'[t].by = job[t].by
    BY <1>1 DEF Becomes
  <2>2. job[t].under \in Shards /\ job[t].under # s
    BY <2>1 DEF TypeOK, OnTop
  <2>3. job'[job[t].under] = job[job[t].under]
    BY <1>1, <2>2 DEF Becomes
  <2>4. QED
    BY <2>1, <2>3 DEF LockInv, PutAside, Running
<1>4. QED
  BY <1>2, <1>3

\* A worker takes a shard, into its own hands or on top of another.
LEMMA Begins ==
  ASSUME TypeOK, LockInv, NEW s \in Shards, NEW w \in Workers, Take(w, s) \/ TakeInLoop(w, s)
  PROVE  LockInv'
<1>1. PICK p \in Shards \cup {None} :
        /\ job' = [job EXCEPT ![s] = [pc |-> "adding", by |-> w, under |-> p]]
        /\ p # None => job[p].pc \in {"pattern", "analysis"}
  BY DEF Take, TakeInLoop, InLoop, At
<1>2. job[s].pc = "waiting" /\ UNCHANGED <<fieldLock, engineLock>>
  BY DEF Take, TakeInLoop, locks
<1>3. Becomes(s, "adding", w, p)
  BY <1>1 DEF Becomes, TypeOK
<1>4. p # s
  BY <1>1, <1>2, LocksNone
<1>5. Locked'
  BY <1>2, <1>3 DEF LockInv, Locked, Becomes
<1>6. Busy'
  BY <1>2, <1>3, LocksNone DEF LockInv, Busy, Becomes, Running
<1>7. PutAside'
  <2> SUFFICES ASSUME NEW t \in Shards, job'[t].under # None
               PROVE  /\ job'[t].by # None /\ job'[t].under # t
                      /\ job'[job'[t].under].pc \in {"pattern", "analysis"}
    BY DEF PutAside, Running
  <2>1. CASE t = s
    <3>1. job'[s].under = p /\ job'[s].by = w /\ p \in Shards
      BY <1>3, <2>1 DEF Becomes
    <3>2. job'[p] = job[p]
      BY <1>3, <1>4, <3>1 DEF Becomes
    <3>3. QED
      BY <1>1, <1>4, <2>1, <3>1, <3>2, LocksNone
  <2>2. CASE t # s
    <3>1. job'[t] = job[t]
      BY <1>3, <2>2 DEF Becomes
    <3>2. /\ job[t].by # None /\ job[t].under # t /\ job[t].under \in Shards
          /\ job[job[t].under].pc \in {"pattern", "analysis"}
      BY <3>1 DEF LockInv, PutAside, Running, TypeOK
    <3>3. job'[job[t].under] = job[job[t].under]
      BY <1>2, <1>3, <3>2 DEF Becomes
    <3>4. QED
      BY <3>1, <3>2, <3>3
  <2>3. QED
    BY <2>1, <2>2
<1>8. QED
  BY <1>5, <1>6, <1>7 DEF LockInv

LEMMA StepLocks ==
  ASSUME TypeOK, LockInv, NEW s \in Shards, ShardStep(s)
  PROVE  LockInv'
<1> USE LocksNone DEF At
<1>1. CASE AddWaves(s)
  <2>1. GoTo(s, "locking") /\ job[s].pc = "adding" /\ OnTop(s) /\ UNCHANGED <<fieldLock, engineLock>>
    BY <1>1 DEF AddWaves, locks
  <2>2. Becomes(s, "locking", job[s].by, job[s].under)
    BY <2>1, GoToBecomes
  <2>3. Locked'
    BY <2>1, <2>2 DEF LockInv, Locked, Becomes
  <2>4. QED
    BY <2>1, <2>3, GoesOn DEF LockInv
<1>2. CASE LockField(s)
  <2>1. GoTo(s, "reading") /\ job[s].pc = "locking" /\ OnTop(s)
        /\ fieldLock = None /\ fieldLock' = s /\ engineLock' = engineLock
    BY <1>2 DEF LockField
  <2>2. Becomes(s, "reading", job[s].by, job[s].under)
    BY <2>1, GoToBecomes
  <2>3. Locked'
    BY <2>1, <2>2 DEF LockInv, Locked, Becomes
  <2>4. QED
    BY <2>1, <2>3, GoesOn DEF LockInv
<1>3. CASE LockEngine(s)
  <2>1. GoTo(s, "pattern") /\ job[s].pc = "reading" /\ OnTop(s)
        /\ engineLock = None /\ engineLock' = s /\ fieldLock' = fieldLock
    BY <1>3 DEF LockEngine
  <2>2. Becomes(s, "pattern", job[s].by, job[s].under)
    BY <2>1, GoToBecomes
  <2>3. Locked'
    BY <2>1, <2>2 DEF LockInv, Locked, Becomes
  <2>4. QED
    BY <2>1, <2>3, GoesOn DEF LockInv
<1>4. CASE Calculated(s)
  <2>1. GoTo(s, "analysing") /\ job[s].pc = "pattern" /\ OnTop(s)
        /\ fieldLock' = None /\ engineLock' = None
    BY <1>4 DEF Calculated, Unlocked
  <2>2. Becomes(s, "analysing", job[s].by, job[s].under)
    BY <2>1, GoToBecomes
  <2>3. Locked'
    BY <2>1, <2>2 DEF LockInv, Locked, Becomes
  <2>4. QED
    BY <2>1, <2>3, GoesOn DEF LockInv
<1>5. CASE LockForAnalysis(s)
  <2>1. GoTo(s, "analysis") /\ job[s].pc = "analysing" /\ OnTop(s)
        /\ engineLock = None /\ engineLock' = s /\ fieldLock' = fieldLock
    BY <1>5 DEF LockForAnalysis
  <2>2. Becomes(s, "analysis", job[s].by, job[s].under)
    BY <2>1, GoToBecomes
  <2>3. Locked'
    BY <2>1, <2>2 DEF LockInv, Locked, Becomes
  <2>4. QED
    BY <2>1, <2>3, GoesOn DEF LockInv
<1>6. CASE Analysed(s)
  <2>1. GoTo(s, "deciding") /\ job[s].pc = "analysis" /\ OnTop(s)
        /\ engineLock' = None /\ fieldLock' = fieldLock
    BY <1>6 DEF Analysed
  <2>2. Becomes(s, "deciding", job[s].by, job[s].under)
    BY <2>1, GoToBecomes
  <2>3. Locked'
    BY <2>1, <2>2 DEF LockInv, Locked, Becomes
  <2>4. QED
    BY <2>1, <2>3, GoesOn DEF LockInv
<1>7. ASSUME NEW reached \in BOOLEAN, Decide(s, reached) PROVE LockInv'
  <2>1. job[s].pc = "deciding" /\ OnTop(s) /\ UNCHANGED <<fieldLock, engineLock>>
    BY <1>7 DEF Decide, locks
  <2>2. Becomes(s, "done", None, None)
    <3>1. PICK r : r = [NoJob EXCEPT !.pc = "done"]
      OBVIOUS
    <3>2. r.pc = "done" /\ r.by = None /\ r.under = None
      BY <3>1 DEF NoJob
    <3>3. job' = [job EXCEPT ![s] = r] /\ job \in [Shards -> Job]
      BY <1>7, <3>1 DEF Decide, TypeOK, Job
    <3>4. QED
      BY <3>2, <3>3 DEF Becomes
  <2>3. Locked'
    BY <2>1, <2>2 DEF LockInv, Locked, Becomes
  <2>4. Busy'
    BY <2>2 DEF LockInv, Busy, Becomes, Running
  <2>5. PutAside'
    <3> SUFFICES ASSUME NEW t \in Shards, job'[t].under # None
                 PROVE  /\ job'[t].by # None /\ job'[t].under # t
                        /\ job'[job'[t].under].pc \in {"pattern", "analysis"}
      BY DEF PutAside, Running
    <3>1. t # s /\ job'[t] = job[t]
      BY <2>2 DEF Becomes
    <3>2. job[t].under \in Shards /\ job[t].under # s
      BY <2>1, <3>1 DEF TypeOK, OnTop
    <3>3. job'[job[t].under] = job[job[t].under]
      BY <2>2, <3>2 DEF Becomes
    <3>4. QED
      BY <3>1, <3>3 DEF LockInv, PutAside, Running
  <2>6. QED
    BY <2>3, <2>4, <2>5 DEF LockInv
<1>8. QED
  BY <1>1, <1>2, <1>3, <1>4, <1>5, <1>6, <1>7 DEF ShardStep, Outcomes

LEMMA NextLockInv == IInv /\ LockInv /\ [Next]_vars => LockInv'
<1> SUFFICES ASSUME IInv, LockInv, [Next]_vars PROVE LockInv'
  OBVIOUS
<1>1. TypeOK /\ Settled
  BY DEF IInv
<1>2. ASSUME NEW f \in [Txs -> Shards], StartRound(f) PROVE LockInv'
  <2>1. UNCHANGED <<fieldLock, engineLock>> /\ \A s \in Shards : job[s].pc \in {"none", "done"}
    BY <1>1, <1>2 DEF StartRound, Settled, locks
  <2>2. PICK r : r = [NoJob EXCEPT !.pc = "waiting"]
    OBVIOUS
  <2>3. job' = [s \in Shards |-> IF \E x \in Txs : f[x] = s THEN r ELSE NoJob]
    BY <1>2, <2>2 DEF StartRound, Drawn
  <2>4. r.pc = "waiting" /\ r.by = None /\ r.under = None
        /\ NoJob.pc = "none" /\ NoJob.by = None /\ NoJob.under = None
    BY <2>2 DEF NoJob
  <2>5. \A s \in Shards : /\ job'[s].pc \in {"none", "waiting"}
                           /\ job'[s].by = None /\ job'[s].under = None
    BY <2>3, <2>4
  <2>6. Locked'
    BY <2>1, <2>5 DEF LockInv, Locked
  <2>7. Busy' /\ PutAside'
    BY <2>5 DEF Busy, PutAside, Running
  <2>8. QED
    BY <2>6, <2>7 DEF LockInv
<1>3. CASE EndRound \/ StopMonitor \/ MonitorEnds \/ Finish \/ FinishLocal \/ UNCHANGED vars
  <2>1. UNCHANGED <<job, fieldLock, engineLock>>
    BY <1>3 DEF EndRound, StopMonitor, MonitorEnds, Finish, FinishLocal, vars, locks
  <2>2. QED
    BY <2>1 DEF LockInv, Locked, Busy, PutAside, Running
<1>4. QED
  BY <1>1, <1>2, <1>3, Begins, StepLocks DEF Next

LEMMA LocksGoOn == TypeOK /\ LockInv => NoLockCycle
<1> SUFFICES ASSUME TypeOK, LockInv, ~WaitsInLoop,
                    NEW s \in Shards, job[s].pc \notin {"none", "done"}
             PROVE  \E t \in Shards : CanGoOn(t)
  BY DEF NoLockCycle
<1> USE LocksNone DEF LockInv
<1>1. CASE \E t \in Shards : job[t].under # None
  <2>1. PICK t \in Shards : job[t].under # None
    BY <1>1
  <2>2. PICK p \in Shards : p = job[t].under
    BY <2>1 DEF TypeOK
  <2>3. Running(t) /\ p # t /\ job[p].pc \in {"pattern", "analysis"}
    BY <2>1, <2>2 DEF PutAside
  <2>4. engineLock = p
    BY <2>3 DEF Locked
  <2>5. OnTop(t)
    <3> SUFFICES ASSUME NEW q \in Shards, job[q].under = t PROVE FALSE
      BY DEF OnTop
    <3>1. job[t].pc \in {"pattern", "analysis"}
      BY DEF PutAside
    <3>2. engineLock = t
      BY <3>1 DEF Locked
    <3>3. QED
      BY <2>3, <2>4, <3>2
  <2>6. WaitsFor(t) = None
    BY <2>1 DEF WaitsInLoop
  <2>7. QED
    BY <2>3, <2>5, <2>6 DEF CanGoOn
<1>2. CASE ~(\E t \in Shards : job[t].under # None)
  <2>1. \A t \in Shards : OnTop(t)
    BY <1>2 DEF OnTop
  <2>2. CASE \A t \in Shards : ~Running(t)
    <3>1. job[s].pc = "waiting"
      BY <2>2 DEF Busy
    <3>2. \A w \in Workers : Idle(w)
      BY <2>2 DEF Idle, Running
    <3>3. QED
      BY <3>1, <3>2, ShardConsensusAssumption DEF CanGoOn
  <2>3. ASSUME NEW e \in Shards, engineLock = e PROVE \E t \in Shards : CanGoOn(t)
    <3>1. job[e].pc \in {"pattern", "analysis"}
      BY <2>3 DEF Locked
    <3>2. Running(e) /\ WaitsFor(e) = None
      BY <2>1, <3>1 DEF Busy, WaitsFor
    <3>3. QED
      BY <2>1, <3>2 DEF CanGoOn
  <2>4. ASSUME NEW h \in Shards, fieldLock = h, engineLock = None
        PROVE  \E t \in Shards : CanGoOn(t)
    <3>1. job[h].pc \in {"reading", "pattern"}
      BY <2>4 DEF Locked
    <3>2. Running(h) /\ WaitsFor(h) = None
      BY <2>1, <2>4, <3>1 DEF Busy, WaitsFor
    <3>3. QED
      BY <2>1, <3>2 DEF CanGoOn
  <2>5. ASSUME NEW t \in Shards, Running(t), fieldLock = None, engineLock = None
        PROVE  CanGoOn(t)
    BY <2>1, <2>5 DEF CanGoOn, WaitsFor
  <2>6. {fieldLock, engineLock} \subseteq Shards \cup {None}
    BY DEF TypeOK
  <2>7. QED
    BY <2>2, <2>3, <2>4, <2>5, <2>6
<1>3. QED
  BY <1>1, <1>2

\* The two mutexes alone never block a round: without a job that waits on top of
\* the one its worker has put aside, some job can go on until all are done.
THEOREM NoLockCycleHolds == Spec => []NoLockCycle
<1>1. Init => LockInv
  BY LocksNone DEF Init, LockInv, Locked, Busy, PutAside, Running, NoJob
<1>2. IInv => TypeOK
  BY DEF IInv
<1>3. QED
  BY <1>1, <1>2, NextLockInv, LocksGoOn, Invariance, PTL DEF Spec
=============================================================================
