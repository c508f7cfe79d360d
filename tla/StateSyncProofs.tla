-------------------------- MODULE StateSyncProofs --------------------------
(***************************************************************************)
(* Proofs about StateSync, for any number of shards, permits and chunks,   *)
(* any finite sets of calls and tasks, and any faults.                     *)
(*                                                                         *)
(* Permits are counted: a call holds one from acquire to return.  A task   *)
(* past its downloads has joined every chunk, and one past the check of    *)
(* them has verified them all (Joined).  A shard that is InProgress has a  *)
(* task that has not completed it yet, or one that died                    *)
(* (Attended): Complete is the only way past "complete" for a task that    *)
(* lives, and it changes the status.  A handle is lost only to another     *)
(* sync of its shard, as a call spawns its task for its own shard          *)
(* (SpawnedOK).  The chunks a task has requested are on their way, ready   *)
(* or joined (Fetched), so a join always adds a chunk that was not counted.*)
(* That nobody is stuck rests on what a call will need (Room) and on every *)
(* chunk having been requested (AllRequested).                             *)
(***************************************************************************)
EXTENDS StateSync, FiniteSetTheorems, TLAPS

Working(t) == task[t].pc \in Stages \cup {"complete"}
Dead(t) == task[t].pc = "err" \/ task[t].abort

\* What a task has behind it, by the place it has reached.
Joined ==
  \A t \in Tasks :
    /\ task[t].pc \in {"verify", "apply", "complete", "stats", "unregister", "ok"} =>
         task[t].chunks = TotalChunks
    /\ task[t].pc \in {"apply", "complete", "stats", "unregister", "ok"} =>
         task[t].verified = TotalChunks
    /\ task[t].pc \in {"stats", "unregister", "ok"} => task[t].completed

Attended ==
  \A s \in Shards : status[s].st = "InProgress" =>
    \E t \in TasksOf(s) : Working(t) \/ Dead(t)

\* A call that is not idle has its shard, and a spawned one its task.
CallerOK ==
  \A c \in Callers :
    /\ caller[c].pc # "idle" => caller[c].shard \in Shards
    /\ caller[c].pc = "spawned" => caller[c].task \in Tasks

TaskOK ==
  \A t \in Tasks : IF task[t].pc = "unused" THEN task[t].shard = NoShard
                                            ELSE task[t].shard \in Shards

\* A call that has spawned its task has spawned it for its own shard.
SpawnedOK ==
  \A c \in Callers : caller[c].pc = "spawned" =>
    /\ task[caller[c].task].pc # "unused"
    /\ task[caller[c].task].shard = caller[c].shard

\* A task handles no chunk before it has the metadata, and no more than there
\* are after that.
Fetched ==
  \A t \in Tasks :
    /\ task[t].flying + task[t].ready + task[t].chunks <= TotalChunks
    /\ task[t].pc \in {"unused", "peers", "metadata"} =>
         task[t].flying = 0 /\ task[t].ready = 0 /\ task[t].chunks = 0

IInv == /\ TypeOK /\ PermitsConserved /\ CallerOK /\ TaskOK /\ SpawnedOK /\ Joined /\ Fetched
        /\ CompletedIsVerified /\ Attended /\ SyncsCountedOnce /\ LoneSyncIsReachable
        /\ ProgressIsReal

----------------------------------------------------------------------------
(* Permits.                                                                *)

LEMMA HoldersFinite ==
  IsFiniteSet(Holders) /\ Cardinality(Holders) \in Nat
<1>1. Holders \in SUBSET Callers
  BY DEF Holders
<1>2. QED
  BY <1>1, SyncAssumption, FS_Subset, FS_CardinalityType

\* A step that takes a permit makes its call a holder, one that gives it back
\* ends the call, and no other step changes who holds a permit.
LEMMA PermitsStep ==
  ASSUME TypeOK, PermitsConserved, Next
  PROVE  permits' \in 0..MaxConcurrentShards /\ PermitsConserved'
<1>1. permits \in 0..MaxConcurrentShards /\ MaxConcurrentShards \in Nat
      /\ caller \in [Callers -> Caller]
  BY SyncAssumption DEF TypeOK
<1>2. IsFiniteSet(Holders) /\ Cardinality(Holders) \in Nat
      /\ permits + Cardinality(Holders) = MaxConcurrentShards
  BY HoldersFinite DEF PermitsConserved
<1>3. ASSUME permits' = permits, Holders' = Holders
      PROVE  permits' \in 0..MaxConcurrentShards /\ PermitsConserved'
  BY <1>1, <1>2, <1>3 DEF PermitsConserved
<1>4. ASSUME NEW c \in Callers, AcquirePermit(c)
      PROVE  permits' \in 0..MaxConcurrentShards /\ PermitsConserved'
  <2>1. c \notin Holders /\ Holders' = Holders \cup {c}
    BY <1>1, <1>4 DEF AcquirePermit, Holders
  <2>2. Cardinality(Holders') = Cardinality(Holders) + 1
    BY <1>2, <2>1, FS_AddElement
  <2>3. QED
    BY <1>1, <1>2, <1>4, <2>2 DEF AcquirePermit, PermitsConserved
<1>5. ASSUME NEW c \in Callers, StoreHandle(c)
      PROVE  permits' \in 0..MaxConcurrentShards /\ PermitsConserved'
  <2>1. c \in Holders /\ Holders' = Holders \ {c}
    BY <1>1, <1>5 DEF StoreHandle, Holders, IdleCaller
  <2>2. Cardinality(Holders') = Cardinality(Holders) - 1
    BY <1>2, <2>1, FS_RemoveElement
  <2>3. Cardinality(Holders') \in Nat
    BY <1>2, <2>1, FS_RemoveElement, FS_CardinalityType
  <2>4. QED
    BY <1>1, <1>2, <1>5, <2>2, <2>3 DEF StoreHandle, PermitsConserved
<1>6. ASSUME NEW c \in Callers, NEW t \in Tasks, MarkAndSpawn(c, t)
      PROVE  permits' = permits /\ Holders' = Holders
  BY <1>1, <1>6 DEF MarkAndSpawn, Holders
<1>7. ASSUME NEW c \in Callers, NEW s \in Shards, CheckStatus(c, s)
      PROVE  permits' = permits /\ Holders' = Holders
  BY <1>1, <1>7 DEF CheckStatus, Holders, IdleCaller
<1>8. CASE \/ Start \/ Stop \/ CancelMark
           \/ \E t \in Tasks : TaskStep(t) \/ ChunkArrives(t)
           \/ \E s \in Shards : CancelAbort(s)
  <2>1. permits' = permits /\ caller' = caller
    BY <1>8 DEF Start, Stop, CancelMark, CancelAbort, ChunkArrives, TaskStep, GetPeers,
                GetMetadata, JoinChunk, AllJoined, Verify, Apply, Complete, CountSync,
                Unregister, Fail, AbortTakesEffect
  <2>2. QED
    BY <1>3, <2>1 DEF Holders
<1>9. QED
  BY <1>3, <1>4, <1>5, <1>6, <1>7, <1>8 DEF Next, CallerStep

----------------------------------------------------------------------------
(* Types.                                                                  *)

\* Aborting sets a flag and nothing else.
LEMMA AbortAllTasks ==
  ASSUME TypeOK, NEW ts, task' = AbortAll(ts)
  PROVE  /\ task' \in [Tasks -> Task]
         /\ \A t \in Tasks : /\ task'[t].pc = task[t].pc /\ task'[t].shard = task[t].shard
                             /\ task'[t].chunks = task[t].chunks
                             /\ task'[t].verified = task[t].verified
                             /\ task'[t].completed = task[t].completed
                             /\ task'[t].flying = task[t].flying
                             /\ task'[t].ready = task[t].ready
                             /\ task[t].abort => task'[t].abort
<1>1. ASSUME NEW t \in Tasks
      PROVE  LET r == [task[t] EXCEPT !.abort = TRUE]
             IN  r \in Task /\ r.pc = task[t].pc /\ r.shard = task[t].shard
                 /\ r.chunks = task[t].chunks /\ r.abort
                 /\ r.verified = task[t].verified /\ r.completed = task[t].completed
                 /\ r.flying = task[t].flying /\ r.ready = task[t].ready
  <2>1. task[t] \in Task
    BY DEF TypeOK
  <2>2. QED
    BY <2>1 DEF Task
<1>2. \A t \in Tasks : task[t] \in Task
  BY DEF TypeOK
<1>3. QED
  BY <1>1, <1>2 DEF AbortAll

LEMMA AbortedOK ==
  ASSUME TypeOK, TaskOK, NEW ts, task' = AbortAll(ts)
  PROVE  task' \in [Tasks -> Task] /\ TaskOK'
<1>1. /\ task' \in [Tasks -> Task]
      /\ \A t \in Tasks : task'[t].pc = task[t].pc /\ task'[t].shard = task[t].shard
  BY AbortAllTasks
<1>2. QED
  BY <1>1 DEF TaskOK

\* A task record with two fields changed.
LEMMA ChangedTask ==
  ASSUME NEW r \in Task, NEW pc \in {"peers", "download"},
         NEW s \in Shards \cup {NoShard}, NEW n \in Nat
  PROVE  /\ [r EXCEPT !.pc = pc, !.shard = s] \in Task
         /\ [r EXCEPT !.pc = pc, !.flying = n] \in Task
         /\ [r EXCEPT !.pc = pc, !.flying = n].shard = r.shard
BY DEF Task, Stages

\* The record of a task that has verified n chunks, or completed its shard.
LEMMA PassedTask ==
  ASSUME NEW r \in Task, NEW n \in Nat
  PROVE  /\ [r EXCEPT !.pc = "apply", !.verified = n] \in Task
         /\ [r EXCEPT !.pc = "apply", !.verified = n].shard = r.shard
         /\ [r EXCEPT !.pc = "apply", !.verified = n].pc = "apply"
         /\ [r EXCEPT !.pc = "stats", !.completed = TRUE] \in Task
         /\ [r EXCEPT !.pc = "stats", !.completed = TRUE].shard = r.shard
         /\ [r EXCEPT !.pc = "stats", !.completed = TRUE].pc = "stats"
BY DEF Task, Stages

LEMMA TypeStep ==
  ASSUME IInv, Next
  PROVE  /\ running' \in BOOLEAN /\ synced' \in Nat
         /\ status' \in [Shards -> Status]
         /\ active' \in [Shards -> Tasks \cup {NoTask}]
         /\ caller' \in [Callers -> Caller]
         /\ task' \in [Tasks -> Task]
         /\ cancelling' \in Shards \cup {NoShard}
         /\ CallerOK' /\ TaskOK'
<1> USE SyncAssumption DEF IInv, TypeOK, CallerOK, TaskOK
<1>1. CASE Start
  BY <1>1 DEF Start
<1>2. CASE Stop
  <2>1. task' \in [Tasks -> Task] /\ TaskOK'
    <3>1. task' = AbortAll({active[s] : s \in Shards} \cap LiveTasks)
      BY <1>2 DEF Stop
    <3>2. QED
      BY <3>1, AbortedOK
  <2>2. QED
    BY <1>2, <2>1 DEF Stop
<1>3. ASSUME NEW c \in Callers, NEW s \in Shards, CheckStatus(c, s) PROVE UNCHANGED <<running, synced, status, active, task, cancelling>> /\ caller' \in [Callers -> Caller] /\ CallerOK'
  BY <1>3 DEF CheckStatus, IdleCaller, Caller
<1>4. ASSUME NEW c \in Callers, AcquirePermit(c) PROVE UNCHANGED <<running, synced, status, active, task, cancelling>> /\ caller' \in [Callers -> Caller] /\ CallerOK'
  BY <1>4 DEF AcquirePermit, Caller
<1>5. ASSUME NEW c \in Callers, NEW t \in Tasks, MarkAndSpawn(c, t)
      PROVE  /\ UNCHANGED <<running, synced, active, cancelling>>
             /\ status' \in [Shards -> Status] /\ task' \in [Tasks -> Task]
             /\ caller' \in [Callers -> Caller] /\ CallerOK' /\ TaskOK'
  <2>1. caller[c].shard \in Shards
    BY <1>5 DEF MarkAndSpawn
  <2>2. status' \in [Shards -> Status]
    BY <1>5, <2>1 DEF MarkAndSpawn, Status
  <2>3. task' \in [Tasks -> Task] /\ TaskOK'
    <3>1. task' = [task EXCEPT ![t] = [task[t] EXCEPT !.pc = "peers", !.shard = caller[c].shard]]
      BY <1>5 DEF MarkAndSpawn
    <3>2. [task[t] EXCEPT !.pc = "peers", !.shard = caller[c].shard] \in Task
      BY <2>1, ChangedTask
    <3>3. [task[t] EXCEPT !.pc = "peers", !.shard = caller[c].shard].shard = caller[c].shard
      BY DEF Task
    <3>4. QED
      BY <2>1, <3>1, <3>2, <3>3
  <2>4. caller' \in [Callers -> Caller] /\ CallerOK'
    <3>1. caller' = [caller EXCEPT ![c] = [caller[c] EXCEPT !.pc = "spawned", !.task = t]]
      BY <1>5 DEF MarkAndSpawn
    <3>2. PICK r : r = [caller[c] EXCEPT !.pc = "spawned", !.task = t]
      OBVIOUS
    <3>3. caller[c] \in Caller
      OBVIOUS
    <3>4. r \in Caller /\ r.shard = caller[c].shard /\ r.task = t
      BY ONLY <3>2, <3>3, t \in Tasks DEF Caller
    <3>5. QED
      BY <2>1, <3>1, <3>2, <3>4
  <2>5. QED
    BY <1>5, <2>2, <2>3, <2>4 DEF MarkAndSpawn
<1>6. ASSUME NEW c \in Callers, StoreHandle(c)
      PROVE  /\ UNCHANGED <<running, synced, status, task, cancelling>>
             /\ active' \in [Shards -> Tasks \cup {NoTask}]
             /\ caller' \in [Callers -> Caller] /\ CallerOK'
  BY <1>6 DEF StoreHandle, IdleCaller, Caller
<1>7. ASSUME NEW t \in Tasks, TaskStep(t) \/ ChunkArrives(t)
      PROVE  /\ UNCHANGED <<running, caller, cancelling>>
             /\ synced' \in Nat
             /\ status' \in [Shards -> Status]
             /\ active' \in [Shards -> Tasks \cup {NoTask}]
             /\ task' \in [Tasks -> Task] /\ TaskOK'
  <2>1. task[t].flying \in Nat /\ task[t].ready \in Nat /\ task[t].chunks \in Nat
    BY DEF Task
  <2>2. ASSUME NEW pc \in Stages \cup {"complete", "stats", "unregister", "ok", "err", "aborted"},
               Goto(t, pc), task[t].pc # "unused"
        PROVE  task' \in [Tasks -> Task] /\ TaskOK'
    BY <2>2 DEF Goto, Task, Stages
  <2>3. CASE GetPeers(t)
    BY <2>2, <2>3 DEF GetPeers, Stages
  <2>4. CASE GetMetadata(t)
    <3>1. task' = [task EXCEPT ![t] = [task[t] EXCEPT !.pc = "download", !.flying = TotalChunks]]
      BY <2>4 DEF GetMetadata
    <3>2. [task[t] EXCEPT !.pc = "download", !.flying = TotalChunks] \in Task
          /\ [task[t] EXCEPT !.pc = "download", !.flying = TotalChunks].shard = task[t].shard
      BY ChangedTask
    <3>3. task' \in [Tasks -> Task] /\ TaskOK'
      BY <2>4, <3>1, <3>2 DEF GetMetadata
    <3>4. status' \in [Shards -> Status]
      BY <2>4 DEF GetMetadata, Status
    <3>5. QED
      BY <2>4, <3>3, <3>4 DEF GetMetadata
  <2>5. CASE ChunkArrives(t)
    BY <2>1, <2>5 DEF ChunkArrives, Task
  <2>6. CASE JoinChunk(t)
    BY <2>1, <2>6 DEF JoinChunk, Task, Status
  <2>7. CASE AllJoined(t) \/ Apply(t)
    BY <2>2, <2>7 DEF AllJoined, Apply, Stages
  <2>13. ASSUME NEW r \in Task, task' = [task EXCEPT ![t] = r], r.shard = task[t].shard,
                r.pc # "unused", task[t].pc # "unused"
         PROVE  task' \in [Tasks -> Task] /\ TaskOK'
    BY <2>13
  <2>14. CASE Verify(t)
    <3>1. task' = [task EXCEPT ![t] = [task[t] EXCEPT !.pc = "apply", !.verified = task[t].chunks]]
          /\ task[t].pc = "verify"
      BY <2>14 DEF Verify
    <3>2. [task[t] EXCEPT !.pc = "apply", !.verified = task[t].chunks] \in Task
          /\ [task[t] EXCEPT !.pc = "apply", !.verified = task[t].chunks].shard = task[t].shard
          /\ [task[t] EXCEPT !.pc = "apply", !.verified = task[t].chunks].pc = "apply"
      BY <2>1, PassedTask
    <3>3. task' \in [Tasks -> Task] /\ TaskOK'
      BY <2>13, <3>1, <3>2
    <3>4. QED
      BY <2>14, <3>3 DEF Verify
  <2>8. CASE Complete(t)
    <3>1. task' = [task EXCEPT ![t] = [task[t] EXCEPT !.pc = "stats", !.completed = TRUE]]
          /\ task[t].pc = "complete"
      BY <2>8 DEF Complete
    <3>2. [task[t] EXCEPT !.pc = "stats", !.completed = TRUE] \in Task
          /\ [task[t] EXCEPT !.pc = "stats", !.completed = TRUE].shard = task[t].shard
          /\ [task[t] EXCEPT !.pc = "stats", !.completed = TRUE].pc = "stats"
      BY <2>1, PassedTask
    <3>3. status' \in [Shards -> Status]
      BY <2>8, SyncAssumption DEF Complete, Status
    <3>4. task' \in [Tasks -> Task] /\ TaskOK'
      BY <2>13, <3>1, <3>2
    <3>5. QED
      BY <2>8, <3>3, <3>4 DEF Complete
  <2>9. CASE CountSync(t)
    BY <2>2, <2>9 DEF CountSync
  <2>10. CASE Unregister(t)
    BY <2>2, <2>10 DEF Unregister
  <2>11. CASE Fail(t)
    BY <2>2, <2>11 DEF Fail, Stages
  <2>12. CASE AbortTakesEffect(t)
    BY <2>2, <2>12 DEF AbortTakesEffect, Live
  <2>15. QED
    BY <1>7, <2>3, <2>4, <2>5, <2>6, <2>7, <2>8, <2>9, <2>10, <2>11, <2>12, <2>14 DEF TaskStep
<1>8. ASSUME NEW s \in Shards, CancelAbort(s)
      PROVE  /\ UNCHANGED <<running, synced, status, caller>>
             /\ active' \in [Shards -> Tasks \cup {NoTask}] /\ cancelling' \in Shards
             /\ task' \in [Tasks -> Task] /\ TaskOK'
  <2>1. task' \in [Tasks -> Task] /\ TaskOK'
    <3>1. task' = AbortAll({active[s]} \cap LiveTasks)
      BY <1>8 DEF CancelAbort
    <3>2. QED
      BY <3>1, AbortedOK
  <2>2. QED
    BY <1>8, <2>1 DEF CancelAbort
<1>9. CASE CancelMark
  BY <1>9 DEF CancelMark, Status
<1>10. QED
  BY <1>1, <1>2, <1>3, <1>4, <1>5, <1>6, <1>7, <1>8, <1>9 DEF Next, CallerStep

----------------------------------------------------------------------------
(* Tasks and statuses.                                                     *)

\* What a task has behind it stays behind it.
LEMMA JoinedStep ==
  ASSUME IInv, Next
  PROVE  Joined'
<1> USE DEF IInv, TypeOK, Joined
<1>1. ASSUME NEW t \in Tasks, GetPeers(t) \/ GetMetadata(t) \/ ChunkArrives(t) \/ JoinChunk(t)
      PROVE  Joined'
  BY <1>1 DEF GetPeers, GetMetadata, ChunkArrives, JoinChunk, Goto, Task
<1>2. ASSUME NEW t \in Tasks, AllJoined(t) \/ Verify(t) \/ Apply(t) \/ Complete(t)
                               \/ CountSync(t) \/ Unregister(t)
      PROVE  Joined'
  BY <1>2 DEF AllJoined, Verify, Apply, Complete, CountSync, Unregister, Goto, Task
<1>3. ASSUME NEW t \in Tasks, Fail(t) \/ AbortTakesEffect(t)
      PROVE  Joined'
  BY <1>3 DEF Fail, AbortTakesEffect, Goto, Task
<1>4. ASSUME NEW c \in Callers, NEW t \in Tasks, MarkAndSpawn(c, t)
      PROVE  Joined'
  BY <1>4 DEF MarkAndSpawn, Task
<1>5. CASE Stop \/ \E s \in Shards : CancelAbort(s)
  <2>1. PICK ts : task' = AbortAll(ts)
    BY <1>5 DEF Stop, CancelAbort
  <2>2. QED
    BY <2>1, AbortAllTasks
<1>6. CASE \/ Start \/ CancelMark
           \/ \E c \in Callers : AcquirePermit(c) \/ StoreHandle(c) \/ \E s \in Shards : CheckStatus(c, s)
  BY <1>6 DEF Start, CancelMark, AcquirePermit, StoreHandle, CheckStatus
<1>7. QED
  BY <1>1, <1>2, <1>3, <1>4, <1>5, <1>6 DEF Next, TaskStep, CallerStep

\* The kinds of step a task or a status sees.  A sync task only moves on, and
\* only Complete makes a shard Completed.
LEMMA VerifiedStep ==
  ASSUME IInv, Next
  PROVE  CompletedIsVerified'
<1> USE DEF IInv, TypeOK
<1> DEFINE Witness(s, t) == /\ task[t].shard = s /\ task[t].verified = TotalChunks
                            /\ task[t].completed
<1>1. CompletedIsVerified <=>
        \A s \in Shards : status[s].st = "Completed" => \E t \in Tasks : Witness(s, t)
  BY DEF CompletedIsVerified, TasksOf
<1>2. CompletedIsVerified' <=>
        \A s \in Shards : status'[s].st = "Completed" => \E t \in Tasks : Witness(s, t)'
  BY DEF CompletedIsVerified, TasksOf
<1>3. \A s \in Shards, t \in Tasks : Witness(s, t) => Witness(s, t)'
  <2> SUFFICES ASSUME NEW s \in Shards, NEW t \in Tasks, Witness(s, t) PROVE Witness(s, t)'
    OBVIOUS
  <2>1. ASSUME NEW u \in Tasks, TaskStep(u) \/ ChunkArrives(u) PROVE Witness(s, t)'
    <3>1. CASE GetPeers(u) \/ GetMetadata(u) \/ ChunkArrives(u) \/ JoinChunk(u)
      BY <3>1 DEF GetPeers, GetMetadata, ChunkArrives, JoinChunk, Goto, Task
    <3>2. CASE AllJoined(u) \/ Verify(u) \/ Apply(u) \/ Complete(u) \/ CountSync(u) \/ Unregister(u)
      BY <3>2 DEF AllJoined, Verify, Apply, Complete, CountSync, Unregister, Goto, Task
    <3>3. CASE Fail(u)
      BY <3>3, SyncAssumption DEF Fail, Goto, Task, Stages
    <3>4. CASE AbortTakesEffect(u)
      BY <3>4 DEF AbortTakesEffect, Goto, Task
    <3>5. QED
      BY <2>1, <3>1, <3>2, <3>3, <3>4 DEF TaskStep
  <2>2. ASSUME NEW c \in Callers, NEW u \in Tasks, MarkAndSpawn(c, u) PROVE Witness(s, t)'
    BY <2>2 DEF MarkAndSpawn, Task
  <2>3. CASE Stop \/ \E z \in Shards : CancelAbort(z)
    BY <2>3, AbortAllTasks DEF Stop, CancelAbort
  <2>4. CASE task' = task
    BY <2>4
  <2>5. QED
    BY <2>1, <2>2, <2>3, <2>4 DEF Next, CallerStep, Start, CancelMark, AcquirePermit, StoreHandle, CheckStatus
<1>4. ASSUME NEW s \in Shards, status'[s].st = "Completed", status[s].st # "Completed"
      PROVE  \E t \in Tasks : Witness(s, t)'
  <2>1. PICK t \in Tasks : Complete(t) /\ task[t].shard = s
    <3>1. CASE UNCHANGED status
      BY <1>4, <3>1
    <3>2. ASSUME NEW c \in Callers, NEW u \in Tasks, MarkAndSpawn(c, u) PROVE FALSE
      BY <1>4, <3>2 DEF MarkAndSpawn
    <3>3. ASSUME NEW u \in Tasks, GetMetadata(u) \/ JoinChunk(u) PROVE FALSE
      BY <1>4, <3>3 DEF GetMetadata, JoinChunk, Status
    <3>4. ASSUME NEW u \in Tasks, Complete(u) PROVE task[u].shard = s
      BY <1>4, <3>4 DEF Complete
    <3>5. CASE CancelMark
      BY <1>4, <3>5 DEF CancelMark
    <3>6. QED
      BY <3>1, <3>2, <3>3, <3>4, <3>5
         DEF Next, CallerStep, TaskStep, Start, Stop, CheckStatus, AcquirePermit, StoreHandle,
             GetPeers, ChunkArrives, AllJoined, Verify, Apply, CountSync, Unregister, Fail,
             AbortTakesEffect, CancelAbort
  <2>2. task[t].verified = TotalChunks
    BY <2>1 DEF Complete, Joined
  <2>3. Witness(s, t)'
    BY <2>1, <2>2 DEF Complete, Goto, Task
  <2>4. QED
    BY <2>3
<1>5. QED
  BY <1>1, <1>2, <1>3, <1>4

\* A task that attends a shard goes on attending it, unless it completes it.
LEMMA AttendedStep ==
  ASSUME IInv, Next
  PROVE  Attended'
<1> USE DEF IInv, TypeOK
<1> DEFINE Attends(s, t) == task[t].shard = s /\ (Working(t) \/ Dead(t))
<1>1. Attended <=> \A s \in Shards : status[s].st = "InProgress" => \E t \in Tasks : Attends(s, t)
  BY DEF Attended, TasksOf
<1>2. Attended' <=> \A s \in Shards : status'[s].st = "InProgress" => \E t \in Tasks : Attends(s, t)'
  BY DEF Attended, TasksOf, Working, Dead
<1>3. ASSUME NEW s \in Shards, NEW t \in Tasks, Attends(s, t), ~Complete(t)
      PROVE  Attends(s, t)'
  <2> USE <1>3 DEF Working, Dead
  <2>1. ASSUME NEW u \in Tasks, TaskStep(u) \/ ChunkArrives(u) PROVE Attends(s, t)'
    <3>1. CASE GetPeers(u) \/ GetMetadata(u) \/ ChunkArrives(u) \/ JoinChunk(u)
      BY <3>1 DEF GetPeers, GetMetadata, ChunkArrives, JoinChunk, Goto, Task, Stages
    <3>2. CASE AllJoined(u) \/ Verify(u) \/ Apply(u) \/ CountSync(u) \/ Unregister(u)
      BY <3>2 DEF AllJoined, Verify, Apply, CountSync, Unregister, Goto, Task, Stages
    <3>3. CASE Complete(u)
      BY <3>3 DEF Complete, Goto, Task, Stages
    <3>4. CASE Fail(u) \/ AbortTakesEffect(u)
      BY <3>4 DEF Fail, AbortTakesEffect, Goto, Task, Stages
    <3>5. QED
      BY <2>1, <3>1, <3>2, <3>3, <3>4 DEF TaskStep
  <2>2. ASSUME NEW c \in Callers, NEW u \in Tasks, MarkAndSpawn(c, u) PROVE Attends(s, t)'
    <3>1. task' = [task EXCEPT ![u] = [task[u] EXCEPT !.pc = "peers", !.shard = caller[c].shard]]
      BY <2>2 DEF MarkAndSpawn
    <3>2. CASE u # t
      BY <3>1, <3>2
    <3>3. CASE u = t
      BY <2>2, <3>3, SyncAssumption DEF MarkAndSpawn, TaskOK
    <3>4. QED
      BY <3>2, <3>3
  <2>3. CASE Stop \/ \E z \in Shards : CancelAbort(z)
    BY <2>3, AbortAllTasks DEF Stop, CancelAbort
  <2>4. CASE task' = task
    BY <2>4
  <2>5. QED
    BY <2>1, <2>2, <2>3, <2>4 DEF Next, CallerStep, Start, CancelMark, AcquirePermit, StoreHandle, CheckStatus
<1>4. ASSUME NEW s \in Shards, status'[s].st = "InProgress"
      PROVE  \E t \in Tasks : Attends(s, t)'
  <2>1. ASSUME NEW t \in Tasks, Attends(s, t) PROVE ~Complete(t)
    BY <1>4, <2>1 DEF Complete
  <2>2. CASE status[s].st = "InProgress"
    BY <1>1, <1>3, <2>1, <2>2
  <2>3. ASSUME status[s].st # "InProgress"
        PROVE  \E c \in Callers, u \in Tasks : MarkAndSpawn(c, u) /\ caller[c].shard = s
    <3>1. CASE UNCHANGED status
      BY <1>4, <2>3, <3>1
    <3>2. ASSUME NEW c \in Callers, NEW u \in Tasks, MarkAndSpawn(c, u) PROVE caller[c].shard = s
      BY <1>4, <2>3, <3>2 DEF MarkAndSpawn
    <3>3. ASSUME NEW u \in Tasks, GetMetadata(u) \/ JoinChunk(u) PROVE FALSE
      BY <1>4, <2>3, <3>3 DEF GetMetadata, JoinChunk, Status
    <3>4. ASSUME NEW u \in Tasks, Complete(u) PROVE FALSE
      BY <1>4, <2>3, <3>4 DEF Complete
    <3>5. CASE CancelMark
      BY <1>4, <2>3, <3>5 DEF CancelMark
    <3>6. QED
      BY <3>1, <3>2, <3>3, <3>4, <3>5
         DEF Next, CallerStep, TaskStep, Start, Stop, CheckStatus, AcquirePermit, StoreHandle,
             GetPeers, ChunkArrives, AllJoined, Verify, Apply, CountSync, Unregister, Fail,
             AbortTakesEffect, CancelAbort
  <2>4. ASSUME NEW c \in Callers, NEW u \in Tasks, MarkAndSpawn(c, u), caller[c].shard = s
        PROVE  Attends(s, u)'
    <3>1. task' = [task EXCEPT ![u] = [task[u] EXCEPT !.pc = "peers", !.shard = s]]
      BY <2>4 DEF MarkAndSpawn
    <3>2. task'[u].shard = s /\ task'[u].pc = "peers"
      BY <3>1 DEF Task
    <3>3. QED
      BY <3>2 DEF Working, Stages
  <2>5. QED
    BY <2>2, <2>3, <2>4
<1>5. QED
  BY <1>2, <1>4

----------------------------------------------------------------------------
(* Counts and handles.                                                     *)

\* What a step does to one task: it keeps its shard unless it was unused, its
\* abort flag, and its end; a task is spawned by one kind of step only.
KeepsTask(t) ==
  /\ task[t].pc # "unused" => task'[t].pc # "unused" /\ task'[t].shard = task[t].shard
  /\ task[t].abort => task'[t].abort
  /\ task[t].pc \in Ended => task'[t].pc = task[t].pc /\ task'[t].chunks = task[t].chunks

LEMMA TaskStepKeeps ==
  ASSUME IInv, NEW t \in Tasks, NEW u \in Tasks, TaskStep(u) \/ ChunkArrives(u)
  PROVE  /\ KeepsTask(t)
         /\ task[t].pc = "unused" => task'[t].pc = "unused"
         /\ t # u => task'[t] = task[t]
         /\ task'[t].abort = task[t].abort
<1> USE DEF IInv, TypeOK, KeepsTask, Ended
<1>1. CASE GetPeers(u) \/ JoinChunk(u) \/ AllJoined(u)
  BY <1>1 DEF GetPeers, JoinChunk, AllJoined, Goto, Task
<1>2. CASE GetMetadata(u)
  <2>1. task' = [task EXCEPT ![u] = [task[u] EXCEPT !.pc = "download", !.flying = TotalChunks]]
        /\ task[u].pc = "metadata"
    BY <1>2 DEF GetMetadata
  <2>2. [task[u] EXCEPT !.pc = "download", !.flying = TotalChunks].pc = "download"
        /\ [task[u] EXCEPT !.pc = "download", !.flying = TotalChunks].shard = task[u].shard
        /\ [task[u] EXCEPT !.pc = "download", !.flying = TotalChunks].abort = task[u].abort
    BY DEF Task
  <2>3. QED
    BY <2>1, <2>2
<1>3. CASE ChunkArrives(u)
  <2>1. task[u].flying > 0 /\ task' = [task EXCEPT ![u] = [task[u] EXCEPT !.flying = @ - 1, !.ready = @ + 1]]
    BY <1>3 DEF ChunkArrives
  <2>2. LET r == [task[u] EXCEPT !.flying = @ - 1, !.ready = @ + 1]
        IN  r.pc = task[u].pc /\ r.shard = task[u].shard /\ r.abort = task[u].abort
            /\ r.chunks = task[u].chunks
    BY DEF Task
  <2>3. QED
    BY <2>1, <2>2
<1>4. CASE Verify(u) \/ Apply(u) \/ Complete(u) \/ CountSync(u) \/ Unregister(u)
  BY <1>4 DEF Verify, Apply, Complete, CountSync, Unregister, Goto, Task
<1>5. CASE Fail(u) \/ AbortTakesEffect(u)
  BY <1>5, SyncAssumption DEF Fail, AbortTakesEffect, Live, Stages, Goto, Task
<1>6. QED
  BY <1>1, <1>2, <1>3, <1>4, <1>5 DEF TaskStep

\* A spawned task was unused, is not aborted before it runs, and belongs to
\* the shard of its call.
LEMMA SpawnedTask ==
  ASSUME IInv, NEW c \in Callers, NEW t \in Tasks, MarkAndSpawn(c, t)
  PROVE  /\ task[t].pc = "unused" /\ task'[t].pc = "peers"
         /\ task'[t].shard = caller[c].shard /\ task'[t].abort = task[t].abort
         /\ \A u \in Tasks : u # t => task'[u] = task[u]
         /\ caller'[c].pc = "spawned" /\ caller'[c].task = t /\ caller'[c].shard = caller[c].shard
         /\ \A d \in Callers : d # c => caller'[d] = caller[d]
<1> USE DEF IInv, TypeOK
<1>1. task' = [task EXCEPT ![t] = [task[t] EXCEPT !.pc = "peers", !.shard = caller[c].shard]]
      /\ caller' = [caller EXCEPT ![c] = [caller[c] EXCEPT !.pc = "spawned", !.task = t]]
      /\ task[t].pc = "unused"
  BY DEF MarkAndSpawn
<1>2. /\ [task[t] EXCEPT !.pc = "peers", !.shard = caller[c].shard].pc = "peers"
      /\ [task[t] EXCEPT !.pc = "peers", !.shard = caller[c].shard].shard = caller[c].shard
      /\ [task[t] EXCEPT !.pc = "peers", !.shard = caller[c].shard].abort = task[t].abort
  BY DEF Task
<1>3. /\ [caller[c] EXCEPT !.pc = "spawned", !.task = t].pc = "spawned"
      /\ [caller[c] EXCEPT !.pc = "spawned", !.task = t].task = t
      /\ [caller[c] EXCEPT !.pc = "spawned", !.task = t].shard = caller[c].shard
  BY DEF Caller
<1>4. QED
  BY <1>1, <1>2, <1>3

\* The tasks that have been counted.
Counted == {t \in Tasks : /\ task[t].pc \in {"unregister", "ok", "aborted"}
                          /\ task[t].completed}

\* A counted task stays counted.
LEMMA CountedStays ==
  ASSUME IInv, Next
  PROVE  Counted \subseteq Counted'
<1> SUFFICES ASSUME NEW t \in Counted PROVE t \in Counted'
  OBVIOUS
<1> USE DEF IInv, TypeOK, Counted
<1>1. ASSUME NEW u \in Tasks, TaskStep(u) \/ ChunkArrives(u) PROVE t \in Counted'
  <2>1. CASE t = u
    <3>1. CASE GetPeers(u) \/ GetMetadata(u) \/ JoinChunk(u) \/ AllJoined(u)
      BY <2>1, <3>1 DEF GetPeers, GetMetadata, JoinChunk, AllJoined
    <3>2. CASE ChunkArrives(u)
      BY <2>1, <3>2 DEF ChunkArrives, Task
    <3>3. CASE Verify(u) \/ Apply(u) \/ Complete(u) \/ CountSync(u) \/ Unregister(u)
      BY <2>1, <3>3 DEF Verify, Apply, Complete, CountSync, Unregister, Goto, Task
    <3>4. CASE Fail(u) \/ AbortTakesEffect(u)
      BY <2>1, <3>4, SyncAssumption DEF Fail, AbortTakesEffect, Stages, Goto, Task
    <3>5. QED
      BY <1>1, <3>1, <3>2, <3>3, <3>4 DEF TaskStep
  <2>2. CASE t # u
    BY <1>1, <2>2, TaskStepKeeps
  <2>3. QED
    BY <2>1, <2>2
<1>2. ASSUME NEW c \in Callers, NEW u \in Tasks, MarkAndSpawn(c, u) PROVE t \in Counted'
  <2>1. t # u
    BY <1>2, SpawnedTask
  <2>2. QED
    BY <1>2, <2>1, SpawnedTask
<1>3. CASE Stop \/ \E z \in Shards : CancelAbort(z)
  BY <1>3, AbortAllTasks DEF Stop, CancelAbort
<1>4. CASE task' = task
  BY <1>4
<1>5. QED
  BY <1>1, <1>2, <1>3, <1>4 DEF Next, CallerStep, Start, CancelMark, AcquirePermit, StoreHandle, CheckStatus

\* Only a task that has completed its shard counts, and it leaves "stats" for good.
LEMMA CountedStep ==
  ASSUME IInv, Next
  PROVE  SyncsCountedOnce'
<1> USE DEF IInv, TypeOK
<1>1. IsFiniteSet(Counted) /\ IsFiniteSet(Counted')
  <2>1. Counted \in SUBSET Tasks /\ Counted' \in SUBSET Tasks
    BY DEF Counted
  <2>2. QED
    BY <2>1, SyncAssumption, FS_Subset
<1>2. Cardinality(Counted) \in Nat /\ Cardinality(Counted') \in Nat
  BY <1>1, FS_CardinalityType
<1>3. Cardinality(Counted) <= Cardinality(Counted')
  BY <1>1, CountedStays, FS_Subset
<1>4. synced <= Cardinality(Counted)
  BY DEF SyncsCountedOnce, Counted
<1>5. SyncsCountedOnce' <=> synced' <= Cardinality(Counted')
  BY DEF SyncsCountedOnce, Counted
<1>6. ASSUME NEW t \in Tasks, CountSync(t) PROVE synced' <= Cardinality(Counted')
  <2>1. t \notin Counted /\ Counted \cup {t} \subseteq Counted'
    <3>1. task[t].pc = "stats" /\ task[t].completed
      BY <1>6 DEF CountSync, Joined
    <3>2. t \in Counted'
      BY <1>6, <3>1 DEF CountSync, Goto, Counted, Task
    <3>3. QED
      BY <3>1, <3>2, CountedStays DEF Counted
  <2>2. Cardinality(Counted \cup {t}) = Cardinality(Counted) + 1
    BY <1>1, <2>1, FS_AddElement
  <2>3. Cardinality(Counted \cup {t}) <= Cardinality(Counted')
    BY <1>1, <2>1, FS_Subset
  <2>4. QED
    BY <1>2, <1>4, <1>6, <2>2, <2>3 DEF CountSync
<1>7. ASSUME synced' = synced PROVE synced' <= Cardinality(Counted')
  <2>1. synced \in Nat
    OBVIOUS
  <2>2. QED
    BY ONLY <2>1, <1>2, <1>3, <1>4, <1>7
<1>8. QED
  BY <1>5, <1>6, <1>7
     DEF Next, CallerStep, TaskStep, Start, Stop, CheckStatus, AcquirePermit, MarkAndSpawn, StoreHandle,
         GetPeers, GetMetadata, ChunkArrives, JoinChunk, AllJoined, Verify, Apply, Complete, Unregister,
         Fail, AbortTakesEffect, CancelAbort, CancelMark

\* A call that has spawned a task goes on naming it, until its handle is stored.
LEMMA SpawnedStep ==
  ASSUME IInv, Next
  PROVE  SpawnedOK'
<1> USE DEF IInv, TypeOK
<1>1. \A c \in Callers : caller[c].pc = "spawned" => caller[c].task \in Tasks
  BY DEF CallerOK
<1>2. ASSUME \A t \in Tasks : KeepsTask(t),
             \A c \in Callers : caller'[c].pc = "spawned" => caller'[c] = caller[c]
      PROVE  SpawnedOK'
  BY <1>1, <1>2 DEF SpawnedOK, KeepsTask
<1>3. ASSUME NEW u \in Tasks, TaskStep(u) \/ ChunkArrives(u) PROVE SpawnedOK'
  <2>1. caller' = caller
    BY <1>3 DEF TaskStep, GetPeers, GetMetadata, ChunkArrives, JoinChunk, AllJoined, Verify, Apply,
                Complete, CountSync, Unregister, Fail, AbortTakesEffect
  <2>2. \A t \in Tasks : KeepsTask(t)
    BY <1>3, TaskStepKeeps
  <2>3. QED
    BY <1>2, <2>1, <2>2
<1>4. ASSUME NEW c \in Callers, NEW t \in Tasks, MarkAndSpawn(c, t) PROVE SpawnedOK'
  <2>1. \A d \in Callers : d # c /\ caller[d].pc = "spawned" => caller[d].task # t
    BY <1>4, SpawnedTask DEF SpawnedOK
  <2>2. QED
    BY <1>1, <1>4, <2>1, SpawnedTask DEF SpawnedOK
<1>5. CASE \/ Stop \/ \E s \in Shards : CancelAbort(s)
  <2>1. caller' = caller
    BY <1>5 DEF Stop, CancelAbort
  <2>2. \A t \in Tasks : KeepsTask(t)
    BY <1>5, AbortAllTasks DEF Stop, CancelAbort, KeepsTask
  <2>3. QED
    BY <1>2, <2>1, <2>2
<1>6. CASE \/ Start \/ CancelMark
           \/ \E c \in Callers : AcquirePermit(c) \/ StoreHandle(c) \/ \E s \in Shards : CheckStatus(c, s)
  <2>1. \A t \in Tasks : KeepsTask(t)
    BY <1>6 DEF Start, CancelMark, AcquirePermit, StoreHandle, CheckStatus, KeepsTask
  <2>2. \A c \in Callers : caller'[c].pc = "spawned" => caller'[c] = caller[c]
    <3>1. ASSUME NEW c \in Callers, AcquirePermit(c)
          PROVE  \A d \in Callers : caller'[d].pc = "spawned" => caller'[d] = caller[d]
      BY <3>1 DEF AcquirePermit, Caller
    <3>2. ASSUME NEW c \in Callers, StoreHandle(c)
          PROVE  \A d \in Callers : caller'[d].pc = "spawned" => caller'[d] = caller[d]
      BY <3>2 DEF StoreHandle, IdleCaller
    <3>3. ASSUME NEW c \in Callers, NEW s \in Shards, CheckStatus(c, s)
          PROVE  \A d \in Callers : caller'[d].pc = "spawned" => caller'[d] = caller[d]
      <4>1. [IdleCaller EXCEPT !.pc = "checked", !.shard = s].pc = "checked"
        BY DEF IdleCaller
      <4>2. QED
        BY <3>3, <4>1 DEF CheckStatus
    <3>4. CASE Start \/ CancelMark
      BY <3>4 DEF Start, CancelMark
    <3>5. QED
      BY <1>6, <3>1, <3>2, <3>3, <3>4
  <2>3. QED
    BY <1>2, <2>1, <2>2
<1>7. QED
  BY <1>3, <1>4, <1>5, <1>6 DEF Next, CallerStep

\* A task that can be reached: it was told to abort, its handle is stored, its
\* shard has had another task, or its call is about to store the handle.
Reached(t) ==
  \/ task[t].abort
  \/ active[task[t].shard] = t
  \/ \E u \in Tasks : u # t /\ task[u].shard = task[t].shard
  \/ \E c \in Callers : caller[c].pc = "spawned" /\ caller[c].task = t

LEMMA LoneIsReached ==
  LoneSyncIsReachable <=> \A t \in Tasks : Live(t) => Reached(t)
BY DEF LoneSyncIsReachable, Reached, LiveTasks, TasksOf

\* The cases of a step that keeps every task, by what it does to the handles.
LEMMA ReachedStep ==
  ASSUME IInv, Next, NEW t \in Tasks, Live(t)', task[t].pc # "unused", Reached(t)
  PROVE  Reached(t)'
<1> USE DEF IInv, TypeOK, Live
<1>1. task[t].shard \in Shards
  BY DEF TaskOK
<1>2. ASSUME \A u \in Tasks : KeepsTask(u),
             active'[task[t].shard] = t \/ active[task[t].shard] # t,
             \A c \in Callers : caller[c].pc = "spawned" /\ caller[c].task = t => caller'[c] = caller[c]
      PROVE  Reached(t)'
  <2>1. task'[t].shard = task[t].shard /\ (task[t].abort => task'[t].abort)
    BY <1>2 DEF KeepsTask
  <2>2. \A u \in Tasks : task[u].shard = task[t].shard => task'[u].shard = task[t].shard
    BY <1>1, <1>2, SyncAssumption DEF KeepsTask, TaskOK
  <2>3. QED
    BY <1>2, <2>1, <2>2 DEF Reached
<1>3. ASSUME NEW u \in Tasks, TaskStep(u) \/ ChunkArrives(u) PROVE Reached(t)'
  <2>1. \A v \in Tasks : KeepsTask(v)
    BY <1>3, TaskStepKeeps
  <2>2. caller' = caller
    BY <1>3 DEF TaskStep, GetPeers, GetMetadata, ChunkArrives, JoinChunk, AllJoined, Verify, Apply,
                Complete, CountSync, Unregister, Fail, AbortTakesEffect
  <2>3. CASE active' = active
    BY <1>2, <2>1, <2>2, <2>3
  <2>4. CASE Unregister(u) /\ task[u].shard # task[t].shard
    <3>1. active'[task[t].shard] = active[task[t].shard]
      BY <1>1, <2>4 DEF Unregister
    <3>2. QED
      BY <1>2, <2>1, <2>2, <3>1
  <2>5. CASE Unregister(u) /\ task[u].shard = task[t].shard
    <3>1. u # t
      BY <2>5 DEF Unregister, Goto, Ended, Task
    <3>2. task'[u].shard = task[t].shard /\ task'[t].shard = task[t].shard
      BY <2>1, <2>5 DEF KeepsTask, Unregister
    <3>3. QED
      BY <3>1, <3>2 DEF Reached
  <2>6. QED
    BY <1>3, <2>3, <2>4, <2>5
       DEF TaskStep, GetPeers, GetMetadata, ChunkArrives, JoinChunk, AllJoined, Verify, Apply,
           Complete, CountSync, Fail, AbortTakesEffect
<1>4. ASSUME NEW c \in Callers, NEW u \in Tasks, MarkAndSpawn(c, u) PROVE Reached(t)'
  <2>1. t # u
    BY <1>4, SpawnedTask
  <2>2. active' = active
    BY <1>4 DEF MarkAndSpawn
  <2>3. task'[t] = task[t] /\ \A v \in Tasks : v # u => task'[v] = task[v]
    BY <1>4, <2>1, SpawnedTask
  <2>4. \A v \in Tasks : task[v].shard = task[t].shard => v # u
    BY <1>1, <1>4, SpawnedTask, SyncAssumption DEF TaskOK
  <2>5. \A d \in Callers : caller[d].pc = "spawned" => d # c
    BY <1>4 DEF MarkAndSpawn
  <2>6. \A d \in Callers : d # c => caller'[d] = caller[d]
    BY <1>4, SpawnedTask
  <2>7. QED
    BY <2>2, <2>3, <2>4, <2>5, <2>6 DEF Reached
<1>5. ASSUME NEW c \in Callers, StoreHandle(c) PROVE Reached(t)'
  <2>1. caller[c].shard \in Shards /\ caller[c].task \in Tasks
        /\ task[caller[c].task].shard = caller[c].shard
    BY <1>5 DEF StoreHandle, CallerOK, SpawnedOK
  <2>2. task' = task /\ active' = [active EXCEPT ![caller[c].shard] = caller[c].task]
        /\ caller' = [caller EXCEPT ![c] = IdleCaller]
    BY <1>5 DEF StoreHandle
  <2>3. CASE caller[c].task = t
    BY <2>1, <2>2, <2>3 DEF Reached
  <2>4. CASE caller[c].task # t /\ caller[c].shard = task[t].shard
    BY <2>1, <2>2, <2>4 DEF Reached
  <2>5. CASE caller[c].task # t /\ caller[c].shard # task[t].shard
    BY <1>1, <2>1, <2>2, <2>5 DEF Reached
  <2>6. QED
    BY <2>3, <2>4, <2>5
<1>6. ASSUME NEW s \in Shards, CancelAbort(s) PROVE Reached(t)'
  <2>1. \A u \in Tasks : KeepsTask(u)
    BY <1>6, AbortAllTasks DEF CancelAbort, KeepsTask
  <2>2. caller' = caller /\ active' = [active EXCEPT ![s] = NoTask]
    BY <1>6 DEF CancelAbort
  <2>3. CASE active[s] = t
    <3>1. task[t].pc = task'[t].pc
      BY <1>6, AbortAllTasks DEF CancelAbort
    <3>2. t \in LiveTasks
      BY <3>1 DEF LiveTasks
    <3>3. task'[t] = [task[t] EXCEPT !.abort = TRUE]
      BY <1>6, <2>3, <3>2 DEF CancelAbort, AbortAll
    <3>4. task'[t].abort
      BY <3>3 DEF Task
    <3>5. QED
      BY <3>4 DEF Reached
  <2>4. CASE active[s] # t
    <3>1. active'[task[t].shard] = t \/ active[task[t].shard] # t
      BY <1>1, <2>2, <2>4
    <3>2. QED
      BY <1>2, <2>1, <2>2, <3>1
  <2>5. QED
    BY <2>3, <2>4
<1>7. CASE Stop
  <2>1. \A u \in Tasks : KeepsTask(u)
    BY <1>7, AbortAllTasks DEF Stop, KeepsTask
  <2>2. caller' = caller
    BY <1>7 DEF Stop
  <2>3. CASE active[task[t].shard] = t
    <3>1. task[t].pc = task'[t].pc
      BY <1>7, AbortAllTasks DEF Stop
    <3>2. t \in {active[s] : s \in Shards} \cap LiveTasks
      BY <1>1, <2>3, <3>1 DEF LiveTasks
    <3>3. task'[t] = [task[t] EXCEPT !.abort = TRUE]
      BY <1>7, <3>2 DEF Stop, AbortAll
    <3>4. task'[t].abort
      BY <3>3 DEF Task
    <3>5. QED
      BY <3>4 DEF Reached
  <2>4. CASE active[task[t].shard] # t
    BY <1>2, <2>1, <2>2, <2>4
  <2>5. QED
    BY <2>3, <2>4
<1>8. CASE \/ Start \/ CancelMark
           \/ \E c \in Callers : AcquirePermit(c) \/ \E s \in Shards : CheckStatus(c, s)
  <2>1. \A u \in Tasks : KeepsTask(u)
    BY <1>8 DEF Start, CancelMark, AcquirePermit, CheckStatus, KeepsTask
  <2>2. active' = active
    BY <1>8 DEF Start, CancelMark, AcquirePermit, CheckStatus
  <2>3. \A c \in Callers : caller[c].pc = "spawned" => caller'[c] = caller[c]
    BY <1>8 DEF Start, CancelMark, AcquirePermit, CheckStatus
  <2>4. QED
    BY <1>2, <2>1, <2>2, <2>3
<1>9. QED
  BY <1>3, <1>4, <1>5, <1>6, <1>7, <1>8 DEF Next, CallerStep

LEMMA LoneStep ==
  ASSUME IInv, Next
  PROVE  LoneSyncIsReachable'
<1>1. LoneSyncIsReachable' <=> \A t \in Tasks : Live(t)' => Reached(t)'
  BY DEF LoneSyncIsReachable, Reached, LiveTasks, TasksOf, Live
<1>2. SUFFICES ASSUME NEW t \in Tasks, Live(t)' PROVE Reached(t)'
  BY <1>1
<1> USE DEF IInv, TypeOK, Live
<1>3. CASE Live(t)
  BY <1>2, <1>3, LoneIsReached, ReachedStep
<1>4. ASSUME ~Live(t)
      PROVE  \E c \in Callers : MarkAndSpawn(c, t)
  <2>1. ASSUME NEW u \in Tasks, TaskStep(u) \/ ChunkArrives(u) PROVE FALSE
    BY <1>2, <1>4, <2>1, TaskStepKeeps DEF KeepsTask
  <2>2. ASSUME NEW c \in Callers, NEW u \in Tasks, MarkAndSpawn(c, u) PROVE u = t
    BY <1>2, <1>4, <2>2, SpawnedTask
  <2>3. CASE Stop \/ \E z \in Shards : CancelAbort(z)
    BY <1>2, <1>4, <2>3, AbortAllTasks DEF Stop, CancelAbort
  <2>4. CASE task' = task
    BY <1>2, <1>4, <2>4
  <2>5. QED
    BY <2>1, <2>2, <2>3, <2>4 DEF Next, CallerStep, Start, CancelMark, AcquirePermit, StoreHandle, CheckStatus
<1>5. CASE ~Live(t)
  <2>1. PICK c \in Callers : MarkAndSpawn(c, t)
    BY <1>4, <1>5
  <2>2. caller'[c].pc = "spawned" /\ caller'[c].task = t
    BY <2>1, SpawnedTask
  <2>3. QED
    BY <2>2 DEF Reached
<1>6. QED
  BY <1>3, <1>5

----------------------------------------------------------------------------
(* Chunks and progress.                                                    *)

\* What a step does to the chunks of a task: nothing, except for the step
\* that requests them, an arrival and a join.
LEMMA ChunksOf ==
  ASSUME IInv, Next, NEW t \in Tasks, ~GetMetadata(t), ~ChunkArrives(t), ~JoinChunk(t)
  PROVE  /\ task'[t].flying = task[t].flying /\ task'[t].ready = task[t].ready
         /\ task'[t].chunks = task[t].chunks
         /\ task'[t].pc \in {"unused", "peers", "metadata"} =>
              task[t].pc \in {"unused", "peers", "metadata"}
         /\ task'[t].pc = "download" => task[t].pc = "download"
<1> USE DEF IInv, TypeOK
<1>1. ASSUME NEW u \in Tasks, u # t, TaskStep(u) \/ ChunkArrives(u)
      PROVE  task'[t] = task[t]
  BY <1>1, TaskStepKeeps
<1>2. ASSUME NEW pc, Goto(t, pc)
      PROVE  /\ task'[t].flying = task[t].flying /\ task'[t].ready = task[t].ready
             /\ task'[t].chunks = task[t].chunks /\ task'[t].pc = pc
  BY <1>2 DEF Goto, Task
<1>3. CASE GetPeers(t)
  BY <1>2, <1>3 DEF GetPeers
<1>4. CASE AllJoined(t) \/ Apply(t) \/ CountSync(t) \/ Unregister(t)
  BY <1>2, <1>4 DEF AllJoined, Apply, CountSync, Unregister
<1>10. CASE Verify(t)
  BY <1>10 DEF Verify, Task
<1>11. CASE Complete(t)
  BY <1>11 DEF Complete, Task
<1>5. CASE Fail(t) \/ AbortTakesEffect(t)
  BY <1>2, <1>5 DEF Fail, AbortTakesEffect
<1>6. ASSUME NEW c \in Callers, NEW u \in Tasks, MarkAndSpawn(c, u)
      PROVE  /\ task'[t].flying = task[t].flying /\ task'[t].ready = task[t].ready
             /\ task'[t].chunks = task[t].chunks
             /\ task'[t].pc # task[t].pc => task[t].pc = "unused" /\ task'[t].pc = "peers"
  <2>1. /\ task' = [task EXCEPT ![u] = [task[u] EXCEPT !.pc = "peers", !.shard = caller[c].shard]]
        /\ task[u].pc = "unused"
    BY <1>6 DEF MarkAndSpawn
  <2>2. /\ [task[u] EXCEPT !.pc = "peers", !.shard = caller[c].shard].flying = task[u].flying
        /\ [task[u] EXCEPT !.pc = "peers", !.shard = caller[c].shard].ready = task[u].ready
        /\ [task[u] EXCEPT !.pc = "peers", !.shard = caller[c].shard].chunks = task[u].chunks
        /\ [task[u] EXCEPT !.pc = "peers", !.shard = caller[c].shard].pc = "peers"
    BY DEF Task
  <2>3. QED
    BY <2>1, <2>2
<1>7. CASE Stop \/ \E s \in Shards : CancelAbort(s)
  BY <1>7, AbortAllTasks DEF Stop, CancelAbort
<1>8. CASE task' = task
  BY <1>8
<1>9. QED
  BY <1>1, <1>3, <1>4, <1>5, <1>6, <1>7, <1>8, <1>10, <1>11
     DEF Next, CallerStep, TaskStep, Start, CancelMark, AcquirePermit, StoreHandle, CheckStatus

\* The three steps that change the chunks of a task.
LEMMA ChunkSteps ==
  ASSUME IInv, NEW t \in Tasks
  PROVE  /\ GetMetadata(t) => /\ task'[t].flying = TotalChunks /\ task'[t].ready = task[t].ready
                              /\ task'[t].chunks = task[t].chunks /\ task'[t].pc = "download"
         /\ ChunkArrives(t) => /\ task'[t].flying = task[t].flying - 1
                               /\ task'[t].ready = task[t].ready + 1
                               /\ task'[t].chunks = task[t].chunks /\ task'[t].pc = task[t].pc
         /\ JoinChunk(t) => /\ task'[t].flying = task[t].flying
                            /\ task'[t].ready = task[t].ready - 1
                            /\ task'[t].chunks = task[t].chunks + 1 /\ task'[t].pc = task[t].pc
<1>1. task \in [Tasks -> Task] /\ task[t] \in Task
  BY DEF IInv, TypeOK
<1>2. ASSUME GetMetadata(t)
      PROVE  /\ task'[t].flying = TotalChunks /\ task'[t].ready = task[t].ready
             /\ task'[t].chunks = task[t].chunks /\ task'[t].pc = "download"
  <2>1. task' = [task EXCEPT ![t] = [task[t] EXCEPT !.pc = "download", !.flying = TotalChunks]]
    BY <1>2 DEF GetMetadata
  <2>2. LET r == [task[t] EXCEPT !.pc = "download", !.flying = TotalChunks]
        IN  r.flying = TotalChunks /\ r.ready = task[t].ready /\ r.chunks = task[t].chunks
            /\ r.pc = "download"
    BY <1>1 DEF Task
  <2>3. QED
    BY <1>1, <2>1, <2>2
<1>3. ASSUME ChunkArrives(t)
      PROVE  /\ task'[t].flying = task[t].flying - 1 /\ task'[t].ready = task[t].ready + 1
             /\ task'[t].chunks = task[t].chunks /\ task'[t].pc = task[t].pc
  <2>1. task' = [task EXCEPT ![t] = [task[t] EXCEPT !.flying = @ - 1, !.ready = @ + 1]]
    BY <1>3 DEF ChunkArrives
  <2>2. LET r == [task[t] EXCEPT !.flying = @ - 1, !.ready = @ + 1]
        IN  r.flying = task[t].flying - 1 /\ r.ready = task[t].ready + 1
            /\ r.chunks = task[t].chunks /\ r.pc = task[t].pc
    BY <1>1 DEF Task
  <2>3. QED
    BY <1>1, <2>1, <2>2
<1>4. ASSUME JoinChunk(t)
      PROVE  /\ task'[t].flying = task[t].flying /\ task'[t].ready = task[t].ready - 1
             /\ task'[t].chunks = task[t].chunks + 1 /\ task'[t].pc = task[t].pc
  <2>1. task' = [task EXCEPT ![t] = [task[t] EXCEPT !.ready = @ - 1, !.chunks = @ + 1]]
    BY <1>4 DEF JoinChunk
  <2>2. LET r == [task[t] EXCEPT !.ready = @ - 1, !.chunks = @ + 1]
        IN  r.flying = task[t].flying /\ r.ready = task[t].ready - 1
            /\ r.chunks = task[t].chunks + 1 /\ r.pc = task[t].pc
    BY <1>1 DEF Task
  <2>3. QED
    BY <1>1, <2>1, <2>2
<1>5. QED
  BY <1>2, <1>3, <1>4

LEMMA FetchedStep ==
  ASSUME IInv, Next
  PROVE  Fetched'
<1> SUFFICES ASSUME NEW t \in Tasks
             PROVE  /\ task'[t].flying + task'[t].ready + task'[t].chunks <= TotalChunks
                    /\ task'[t].pc \in {"unused", "peers", "metadata"} =>
                         task'[t].flying = 0 /\ task'[t].ready = 0 /\ task'[t].chunks = 0
  BY DEF Fetched
<1>1. /\ task[t].flying \in Nat /\ task[t].ready \in Nat /\ task[t].chunks \in Nat
      /\ TotalChunks \in Nat
      /\ task[t].flying + task[t].ready + task[t].chunks <= TotalChunks
      /\ task[t].pc \in {"unused", "peers", "metadata"} =>
           task[t].flying = 0 /\ task[t].ready = 0 /\ task[t].chunks = 0
  BY SyncAssumption DEF IInv, Fetched, TypeOK, Task
<1>2. CASE GetMetadata(t)
  <2>1. task[t].flying = 0 /\ task[t].ready = 0 /\ task[t].chunks = 0
    BY <1>1, <1>2 DEF GetMetadata
  <2>2. QED
    BY <1>1, <1>2, <2>1, ChunkSteps
<1>3. CASE ChunkArrives(t)
  <2>1. task[t].flying > 0
    BY <1>3 DEF ChunkArrives
  <2>2. QED
    BY <1>1, <1>3, <2>1, ChunkSteps
<1>4. CASE JoinChunk(t)
  <2>1. task[t].pc = "download"
    BY <1>4 DEF JoinChunk
  <2>2. QED
    BY <1>1, <1>4, <2>1, ChunkSteps
<1>5. CASE ~GetMetadata(t) /\ ~ChunkArrives(t) /\ ~JoinChunk(t)
  BY <1>1, <1>5, ChunksOf
<1>6. QED
  BY <1>2, <1>3, <1>4, <1>5

LEMMA JoinsFinite ==
  ASSUME NEW s \in Shards
  PROVE  /\ IsFiniteSet(JoinedChunks(s)) /\ Cardinality(JoinedChunks(s)) \in Nat
         /\ IsFiniteSet(JoinedChunks(s)') /\ Cardinality(JoinedChunks(s)') \in Nat
<1>1. IsFiniteSet(Tasks \X (1..TotalChunks))
  <2>1. IsFiniteSet(Tasks) /\ 1 \in Int /\ TotalChunks \in Int
    BY SyncAssumption
  <2>2. IsFiniteSet(1..TotalChunks)
    BY <2>1, FS_Interval
  <2>3. QED
    BY <2>1, <2>2, FS_Product
<1>2. JoinedChunks(s) \in SUBSET (Tasks \X (1..TotalChunks))
      /\ JoinedChunks(s)' \in SUBSET (Tasks \X (1..TotalChunks))
  BY DEF JoinedChunks, TasksOf
<1>3. QED
  BY <1>1, <1>2, FS_Subset, FS_CardinalityType

\* A join is never forgotten: tasks keep their shard and their chunks.
LEMMA JoinsStay ==
  ASSUME IInv, Next, NEW s \in Shards
  PROVE  JoinedChunks(s) \subseteq JoinedChunks(s)'
<1> SUFFICES ASSUME NEW t \in TasksOf(s), NEW n \in 1..TotalChunks, n <= task[t].chunks
             PROVE  t \in TasksOf(s)' /\ n <= task'[t].chunks
  BY DEF JoinedChunks
<1>1. t \in Tasks /\ task[t].shard = s /\ task[t].pc # "unused" /\ task[t].chunks \in Nat
  BY SyncAssumption DEF TasksOf, IInv, TaskOK, TypeOK, Task
<1>2. task'[t].shard = s
  <2>1. CASE \E u \in Tasks : TaskStep(u) \/ ChunkArrives(u)
    BY <1>1, <2>1, TaskStepKeeps DEF KeepsTask
  <2>2. CASE \E c \in Callers, u \in Tasks : MarkAndSpawn(c, u)
    BY <1>1, <2>2, SpawnedTask
  <2>3. CASE Stop \/ \E z \in Shards : CancelAbort(z)
    BY <1>1, <2>3, AbortAllTasks DEF Stop, CancelAbort, IInv
  <2>4. CASE task' = task
    BY <1>1, <2>4
  <2>5. QED
    BY <2>1, <2>2, <2>3, <2>4 DEF Next, CallerStep, Start, CancelMark, AcquirePermit, StoreHandle, CheckStatus
<1>3. task[t].chunks <= task'[t].chunks
  <2>1. CASE GetMetadata(t) \/ ChunkArrives(t) \/ JoinChunk(t)
    BY <1>1, <2>1, ChunkSteps
  <2>2. CASE ~GetMetadata(t) /\ ~ChunkArrives(t) /\ ~JoinChunk(t)
    BY <1>1, <2>2, ChunksOf
  <2>3. QED
    BY <2>1, <2>2
<1>4. task'[t].chunks \in Nat
  <2>1. task'[t] \in Task
    BY <1>1, TypeStep
  <2>2. QED
    BY <2>1 DEF Task
<1>5. QED
  BY <1>1, <1>2, <1>3, <1>4 DEF TasksOf

\* Only a join raises the count of a shard, by the chunk that was joined.
LEMMA ProgressStep ==
  ASSUME IInv, Next
  PROVE  ProgressIsReal'
<1> SUFFICES ASSUME NEW s \in Shards
             PROVE  status'[s].downloaded <= Cardinality(JoinedChunks(s)')
  BY DEF ProgressIsReal
<1> DEFINE J == JoinedChunks(s)
<1>1. /\ IsFiniteSet(J) /\ IsFiniteSet(J') /\ Cardinality(J) \in Nat /\ Cardinality(J') \in Nat
      /\ J \subseteq J'
  BY JoinsFinite, JoinsStay
<1>2. /\ status \in [Shards -> Status] /\ status[s].downloaded \in Nat
      /\ status[s].downloaded <= Cardinality(J)
  BY DEF IInv, TypeOK, Status, ProgressIsReal
<1>3. ASSUME status'[s].downloaded = 0 \/ status'[s].downloaded = status[s].downloaded
      PROVE  status'[s].downloaded <= Cardinality(J')
  <2>1. Cardinality(J) <= Cardinality(J')
    BY <1>1, FS_Subset
  <2>2. QED
    BY <1>1, <1>2, <1>3, <2>1
<1>4. ASSUME NEW t \in Tasks, JoinChunk(t)
      PROVE  status'[s].downloaded <= Cardinality(J')
  <2>1. CASE task[t].shard # s \/ status[s].st # "InProgress"
    <3>1. status'[s] = status[s]
      BY <1>2, <1>4, <2>1 DEF JoinChunk
    <3>2. QED
      BY <1>3, <3>1
  <2>2. CASE task[t].shard = s /\ status[s].st = "InProgress"
    <3>1. status'[s].downloaded = status[s].downloaded + 1
      BY <1>2, <1>4, <2>2 DEF JoinChunk, Status
    <3>2. PICK n \in Nat : n = task[t].chunks
      BY DEF IInv, TypeOK, Task
    <3>3. n + 1 <= TotalChunks
      BY <1>4, <3>2, SyncAssumption DEF JoinChunk, IInv, Fetched, TypeOK, Task
    <3>4. <<t, n + 1>> \notin J
      BY <3>2 DEF JoinedChunks
    <3>5. <<t, n + 1>> \in J'
      <4>1. task'[t].chunks = n + 1
        BY <1>4, <3>2, ChunkSteps
      <4>2. task'[t].shard = s
        BY <1>4, <2>2 DEF JoinChunk, IInv, TypeOK, Task
      <4>3. n + 1 \in 1..TotalChunks
        BY <3>2, <3>3, SyncAssumption
      <4>4. QED
        BY <4>1, <4>2, <4>3 DEF JoinedChunks, TasksOf
    <3>6. /\ J \cup {<<t, n + 1>>} \subseteq J'
          /\ Cardinality(J \cup {<<t, n + 1>>}) = Cardinality(J) + 1
      BY <1>1, <3>4, <3>5, FS_AddElement
    <3>7. Cardinality(J \cup {<<t, n + 1>>}) <= Cardinality(J')
      BY <1>1, <3>6, FS_Subset
    <3>8. QED
      BY <1>1, <1>2, <3>1, <3>6, <3>7
  <2>3. QED
    BY <2>1, <2>2
<1>5. CASE \/ \E c \in Callers, t \in Tasks : MarkAndSpawn(c, t)
           \/ \E t \in Tasks : Complete(t) \/ GetMetadata(t)
           \/ CancelMark
  <2>1. status[s] \in Status
    BY <1>2
  <2>2. ASSUME NEW z, status' = [status EXCEPT ![z].total = TotalChunks]
        PROVE  status'[s].downloaded = status[s].downloaded
    BY <1>2, <2>1, <2>2 DEF Status
  <2>3. CASE \E c \in Callers, t \in Tasks : MarkAndSpawn(c, t)
    <3>1. PICK c \in Callers, t \in Tasks : MarkAndSpawn(c, t)
      BY <2>3
    <3>2. status' = [status EXCEPT ![caller[c].shard] =
                       [st |-> "InProgress", downloaded |-> 0, total |-> 0]]
      BY <3>1 DEF MarkAndSpawn
    <3>3. QED
      BY <1>3, <1>2, <3>2
  <2>4. CASE \E t \in Tasks : Complete(t)
    <3>1. PICK t \in Tasks : Complete(t)
      BY <2>4
    <3>2. status' = [status EXCEPT ![task[t].shard] =
                       [st |-> "Completed", downloaded |-> 0, total |-> TotalChunks]]
      BY <3>1 DEF Complete
    <3>3. QED
      BY <1>3, <1>2, <3>2
  <2>5. CASE \E t \in Tasks : GetMetadata(t)
    <3>1. PICK t \in Tasks : GetMetadata(t)
      BY <2>5
    <3>2. status' = status \/ status' = [status EXCEPT ![task[t].shard].total = TotalChunks]
      BY <3>1 DEF GetMetadata
    <3>3. QED
      BY <1>3, <2>2, <3>2
  <2>6. CASE CancelMark
    <3>1. status' = [status EXCEPT ![cancelling] =
                       [st |-> "Failed", downloaded |-> 0, total |-> 0]]
      BY <2>6 DEF CancelMark
    <3>2. QED
      BY <1>3, <1>2, <3>1
  <2>7. QED
    BY <1>5, <2>3, <2>4, <2>5, <2>6
<1>6. CASE status' = status
  BY <1>3, <1>6
<1>7. QED
  BY <1>4, <1>5, <1>6
     DEF Next, CallerStep, TaskStep, Start, Stop, CheckStatus, AcquirePermit, StoreHandle,
         GetPeers, ChunkArrives, AllJoined, Verify, Apply, CountSync, Unregister,
         Fail, AbortTakesEffect, CancelAbort

----------------------------------------------------------------------------
(* The inductive invariant and the theorems.                               *)

LEMMA InitIInv == Init => IInv
<1> SUFFICES ASSUME Init PROVE IInv
  OBVIOUS
<1> USE SyncAssumption DEF Init
<1>1. TypeOK
  <2>1. Unused \in Task /\ IdleCaller \in Caller
    BY DEF Unused, Task, IdleCaller, Caller
  <2>2. [st |-> "NotStarted", downloaded |-> 0, total |-> 0] \in Status
    BY DEF Status
  <2>3. permits \in 0..MaxConcurrentShards
    OBVIOUS
  <2>4. /\ status \in [Shards -> Status] /\ task \in [Tasks -> Task]
        /\ caller \in [Callers -> Caller]
    BY <2>1, <2>2
  <2>5. QED
    BY <2>3, <2>4 DEF TypeOK
<1>2. PermitsConserved
  <2>1. Holders = {}
    BY DEF Holders, IdleCaller
  <2>2. QED
    BY <2>1, FS_EmptySet DEF PermitsConserved
<1>3. CallerOK /\ TaskOK /\ Joined /\ CompletedIsVerified /\ Attended
  BY DEF CallerOK, TaskOK, Joined, CompletedIsVerified, Attended, IdleCaller, Unused
<1>4. SyncsCountedOnce
  <2>1. \A t \in Tasks : task[t].pc = "unused"
    BY DEF Unused
  <2>2. Counted = {}
    BY <2>1 DEF Counted
  <2>3. SyncsCountedOnce <=> synced <= Cardinality(Counted)
    BY DEF SyncsCountedOnce, Counted
  <2>4. QED
    BY <2>2, <2>3, FS_EmptySet
<1>5. SpawnedOK /\ LoneSyncIsReachable
  BY DEF SpawnedOK, LoneSyncIsReachable, LiveTasks, Live, IdleCaller, Unused
<1>6. Fetched
  BY DEF Fetched, Unused
<1>7. ProgressIsReal
  <2>1. \A s \in Shards : Cardinality(JoinedChunks(s)) \in Nat
    BY JoinsFinite
  <2>2. \A s \in Shards : status[s].downloaded = 0
    OBVIOUS
  <2>3. QED
    BY <2>1, <2>2 DEF ProgressIsReal
<1>8. QED
  BY <1>1, <1>2, <1>3, <1>4, <1>5, <1>6, <1>7 DEF IInv

LEMMA NextIInv == IInv /\ [Next]_vars => IInv'
<1> SUFFICES ASSUME IInv, [Next]_vars PROVE IInv'
  OBVIOUS
<1>1. CASE Next
  <2>1. TypeOK' /\ PermitsConserved' /\ CallerOK' /\ TaskOK'
    BY <1>1, TypeStep, PermitsStep DEF IInv, TypeOK
  <2>2. Joined' /\ CompletedIsVerified' /\ Attended'
    BY <1>1, JoinedStep, VerifiedStep, AttendedStep
  <2>3. SpawnedOK' /\ SyncsCountedOnce' /\ LoneSyncIsReachable'
    BY <1>1, SpawnedStep, CountedStep, LoneStep
  <2>4. Fetched' /\ ProgressIsReal'
    BY <1>1, FetchedStep, ProgressStep
  <2>5. QED
    BY <2>1, <2>2, <2>3, <2>4 DEF IInv
<1>2. CASE UNCHANGED vars
  <2>1. TypeOK' /\ PermitsConserved' /\ CallerOK' /\ TaskOK' /\ SpawnedOK' /\ Joined'
    BY <1>2 DEF vars, IInv, TypeOK, PermitsConserved, Holders, CallerOK, TaskOK, SpawnedOK, Joined
  <2>2. CompletedIsVerified' /\ Attended' /\ SyncsCountedOnce'
    BY <1>2 DEF vars, IInv, CompletedIsVerified, Attended, TasksOf, Working, Dead, SyncsCountedOnce
  <2>3. LoneSyncIsReachable'
    BY <1>2 DEF vars, IInv, LoneSyncIsReachable, LiveTasks, Live, TasksOf
  <2>4. Fetched' /\ ProgressIsReal'
    BY <1>2 DEF vars, IInv, Fetched, ProgressIsReal, JoinedChunks, TasksOf
  <2>5. QED
    BY <2>1, <2>2, <2>3, <2>4 DEF IInv
<1>3. QED
  BY <1>1, <1>2

THEOREM Invariance == Spec => []IInv
BY InitIInv, NextIInv, PTL DEF Spec

\* The variables keep their types.
THEOREM TypeCorrect == Spec => []TypeOK
<1>1. IInv => TypeOK
  BY DEF IInv
<1>2. QED
  BY <1>1, Invariance, PTL

\* No permit of the sync semaphore is ever lost or made.
THEOREM PermitsConservedHolds == Spec => []PermitsConserved
<1>1. IInv => PermitsConserved
  BY DEF IInv
<1>2. QED
  BY <1>1, Invariance, PTL

\* Completed means that a task of the shard joined every chunk, saw all of them
\* pass verification, and then wrote the status.
THEOREM CompletedIsVerifiedHolds == Spec => []CompletedIsVerified
<1>1. IInv => CompletedIsVerified
  BY DEF IInv
<1>2. QED
  BY <1>1, Invariance, PTL

\* Each sync is counted once.
THEOREM SyncsCountedOnceHolds == Spec => []SyncsCountedOnce
<1>1. IInv => SyncsCountedOnce
  BY DEF IInv
<1>2. QED
  BY <1>1, Invariance, PTL

\* The progress of a shard never exceeds the chunks that were joined for it.
THEOREM ProgressIsRealHolds == Spec => []ProgressIsReal
<1>1. IInv => ProgressIsReal
  BY DEF IInv
<1>2. QED
  BY <1>1, Invariance, PTL

\* stop and cancel can reach every sync that is alone on its shard.
THEOREM LoneSyncIsReachableHolds == Spec => []LoneSyncIsReachable
<1>1. IInv => LoneSyncIsReachable
  BY DEF IInv
<1>2. QED
  BY <1>1, Invariance, PTL

\* A shard is stuck InProgress only after a task of it died.
THEOREM StuckOnlyAfterDeathHolds == Spec => []StuckOnlyAfterDeath
<1>1. IInv => StuckOnlyAfterDeath
  <2> SUFFICES ASSUME IInv, NEW s \in Shards, status[s].st = "InProgress",
                      TasksOf(s) \cap LiveTasks = {}
               PROVE  \E t \in TasksOf(s) : task[t].pc = "err" \/ task[t].abort
    BY DEF StuckOnlyAfterDeath
  <2>1. PICK t \in TasksOf(s) : Working(t) \/ Dead(t)
    BY DEF IInv, Attended
  <2>2. Working(t) => t \in LiveTasks
    BY DEF Working, LiveTasks, Live, Ended, Stages, TasksOf
  <2>3. QED
    BY <2>1, <2>2 DEF Dead
<1>2. QED
  BY <1>1, Invariance, PTL

----------------------------------------------------------------------------
(* Whom a call or a task waits for.                                        *)

Entering == {c \in Callers : caller[c].pc \in {"checked", "permitted"}}
Spare == {t \in Tasks : task[t].pc = "unused"}

\* Every call that is under way can still spawn its task.
Room == Cardinality(Entering) <= Cardinality(Spare)

\* A task that downloads has requested every chunk.
AllRequested ==
  \A t \in Tasks : task[t].pc = "download" =>
    task[t].flying + task[t].ready + task[t].chunks = TotalChunks

CallGoesOn(c) ==
  \/ caller[c].pc = "checked" /\ permits > 0
  \/ caller[c].pc = "permitted" /\ Spare # {}
  \/ caller[c].pc = "spawned" /\ cancelling = NoShard

\* A task that downloads can join a chunk, leaves, or has a chunk on its way.
TaskGoesOn(t) ==
  \/ task[t].pc \notin {"download", "unregister"}
  \/ task[t].pc = "download" /\ \/ task[t].flying > 0 \/ task[t].ready > 0
                                \/ task[t].chunks = TotalChunks
  \/ task[t].pc = "unregister" /\ cancelling = NoShard

\* Unless a cancellation is about to unlock the handles, a call can go on or
\* waits for a permit that is held by one that can, and every task can go on.
NobodyIsStuck ==
  cancelling = NoShard =>
    /\ \A c \in Callers : caller[c].pc # "idle" =>
         CallGoesOn(c) \/ \E d \in Holders : CallGoesOn(d)
    /\ \A t \in LiveTasks : TaskGoesOn(t)

LEMMA RoomFinite ==
  /\ IsFiniteSet(Entering) /\ Cardinality(Entering) \in Nat
  /\ IsFiniteSet(Spare) /\ Cardinality(Spare) \in Nat
<1>1. Entering \in SUBSET Callers /\ Spare \in SUBSET Tasks
  BY DEF Entering, Spare
<1>2. QED
  BY <1>1, SyncAssumption, FS_Subset, FS_CardinalityType

\* Only a call that enters needs more room, and only one that spawns takes it.
LEMMA RoomStep ==
  ASSUME IInv, Room, Next
  PROVE  Room'
<1>1. caller \in [Callers -> Caller] /\ task \in [Tasks -> Task]
  BY DEF IInv, TypeOK
<1>2. /\ IsFiniteSet(Entering) /\ Cardinality(Entering) \in Nat
      /\ IsFiniteSet(Spare) /\ Cardinality(Spare) \in Nat
  BY RoomFinite
<1>3. ASSUME Entering' = Entering, Spare' = Spare
      PROVE  Room'
  BY <1>3 DEF Room
<1>4. ASSUME NEW c \in Callers, NEW s \in Shards, CheckStatus(c, s)
      PROVE  Room'
  <2>1. c \notin Entering /\ Entering' = Entering \cup {c} /\ Spare' = Spare
    BY <1>1, <1>4 DEF CheckStatus, Entering, Spare, IdleCaller
  <2>2. Cardinality(Entering') = Cardinality(Entering) + 1
    BY <1>2, <2>1, FS_AddElement
  <2>3. Cardinality(Entering) < Cardinality(Spare)
    BY <1>4 DEF CheckStatus, CanSpawn, Entering, Spare
  <2>4. QED
    BY <1>2, <2>1, <2>2, <2>3 DEF Room
<1>5. ASSUME NEW c \in Callers, AcquirePermit(c)
      PROVE  Room'
  <2>1. Entering' = Entering /\ Spare' = Spare
    BY <1>1, <1>5 DEF AcquirePermit, Entering, Spare
  <2>2. QED
    BY <1>3, <2>1
<1>6. ASSUME NEW c \in Callers, NEW t \in Tasks, MarkAndSpawn(c, t)
      PROVE  Room'
  <2>1. /\ caller'[c].pc = "spawned" /\ \A d \in Callers : d # c => caller'[d] = caller[d]
        /\ task'[t].pc = "peers" /\ \A u \in Tasks : u # t => task'[u] = task[u]
    BY <1>6, SpawnedTask
  <2>2. c \in Entering /\ t \in Spare /\ Entering' = Entering \ {c} /\ Spare' = Spare \ {t}
    BY <1>6, <2>1 DEF MarkAndSpawn, Entering, Spare
  <2>3. Cardinality(Entering') = Cardinality(Entering) - 1
        /\ Cardinality(Spare') = Cardinality(Spare) - 1
    BY <1>2, <2>2, FS_RemoveElement
  <2>4. QED
    BY <1>2, <2>3 DEF Room
<1>7. ASSUME NEW c \in Callers, StoreHandle(c)
      PROVE  Room'
  <2>1. Entering' = Entering /\ Spare' = Spare
    BY <1>1, <1>7 DEF StoreHandle, IdleCaller, Entering, Spare
  <2>2. QED
    BY <1>3, <2>1
<1>8. ASSUME NEW u \in Tasks, TaskStep(u) \/ ChunkArrives(u)
      PROVE  Room'
  <2>1. \A t \in Tasks : task'[t].pc = "unused" <=> task[t].pc = "unused"
    BY <1>8, TaskStepKeeps DEF KeepsTask
  <2>2. caller' = caller
    BY <1>8 DEF ChunkArrives, TaskStep, GetPeers, GetMetadata, JoinChunk, AllJoined, Verify,
                Apply, Complete, CountSync, Unregister, Fail, AbortTakesEffect
  <2>3. QED
    BY <1>3, <2>1, <2>2 DEF Entering, Spare
<1>9. CASE Start \/ Stop \/ CancelMark \/ \E s \in Shards : CancelAbort(s)
  <2>1. caller' = caller
    BY <1>9 DEF Start, Stop, CancelMark, CancelAbort
  <2>2. \A t \in Tasks : task'[t].pc = task[t].pc
    BY <1>9, AbortAllTasks DEF IInv, Start, Stop, CancelMark, CancelAbort
  <2>3. QED
    BY <1>3, <2>1, <2>2 DEF Entering, Spare
<1>10. QED
  BY <1>4, <1>5, <1>6, <1>7, <1>8, <1>9 DEF Next, CallerStep

LEMMA AllRequestedStep ==
  ASSUME IInv, AllRequested, Next
  PROVE  AllRequested'
<1> SUFFICES ASSUME NEW t \in Tasks, task'[t].pc = "download"
             PROVE  task'[t].flying + task'[t].ready + task'[t].chunks = TotalChunks
  BY DEF AllRequested
<1>1. /\ task[t].flying \in Nat /\ task[t].ready \in Nat /\ task[t].chunks \in Nat
      /\ TotalChunks \in Nat
      /\ task[t].pc = "download" =>
           task[t].flying + task[t].ready + task[t].chunks = TotalChunks
  BY SyncAssumption DEF IInv, AllRequested, TypeOK, Task
<1>2. CASE GetMetadata(t)
  <2>1. task[t].flying = 0 /\ task[t].ready = 0 /\ task[t].chunks = 0
    BY <1>2 DEF IInv, Fetched, GetMetadata
  <2>2. QED
    BY <1>1, <1>2, <2>1, ChunkSteps
<1>3. CASE ChunkArrives(t) \/ JoinChunk(t)
  BY <1>1, <1>3, ChunkSteps
<1>4. CASE ~GetMetadata(t) /\ ~ChunkArrives(t) /\ ~JoinChunk(t)
  BY <1>1, <1>4, ChunksOf
<1>5. QED
  BY <1>2, <1>3, <1>4

\* The permits that are not free are held by calls, and those have room for their
\* tasks.
LEMMA SomebodyGoesOn ==
  ASSUME IInv, Room, AllRequested
  PROVE  NobodyIsStuck
<1> SUFFICES ASSUME cancelling = NoShard
             PROVE  /\ \A c \in Callers : caller[c].pc # "idle" =>
                         CallGoesOn(c) \/ \E d \in Holders : CallGoesOn(d)
                    /\ \A t \in LiveTasks : TaskGoesOn(t)
  BY DEF NobodyIsStuck
<1>1. \A d \in Holders : CallGoesOn(d)
  <2> SUFFICES ASSUME NEW d \in Callers, caller[d].pc = "permitted"
               PROVE  Spare # {}
    BY DEF CallGoesOn, Holders
  <2>1. Entering # {}
    BY DEF Entering
  <2>2. Cardinality(Entering) # 0
    BY <2>1, RoomFinite, FS_EmptySet
  <2>3. Cardinality(Spare) # 0
    BY <2>2, RoomFinite DEF Room
  <2>4. QED
    BY <2>3, FS_EmptySet
<1>2. permits > 0 \/ Holders # {}
  <2>1. permits \in Nat /\ MaxConcurrentShards \in Nat \ {0}
        /\ permits + Cardinality(Holders) = MaxConcurrentShards
    BY SyncAssumption DEF IInv, TypeOK, PermitsConserved
  <2>2. CASE Holders = {}
    BY <2>1, <2>2, FS_EmptySet
  <2>3. QED
    BY <2>2
<1>3. \A c \in Callers : caller[c].pc # "idle" => caller[c].pc = "checked" \/ c \in Holders
  BY DEF IInv, TypeOK, Caller, Holders
<1>4. \A t \in LiveTasks : TaskGoesOn(t)
  <2> SUFFICES ASSUME NEW t \in Tasks, task[t].pc = "download"
               PROVE  \/ task[t].flying > 0 \/ task[t].ready > 0
                      \/ task[t].chunks = TotalChunks
    BY DEF TaskGoesOn, LiveTasks
  <2>1. /\ task[t].flying \in Nat /\ task[t].ready \in Nat /\ task[t].chunks \in Nat
        /\ task[t].flying + task[t].ready + task[t].chunks = TotalChunks
    BY DEF IInv, AllRequested, TypeOK, Task
  <2>2. QED
    BY <2>1
<1>5. QED
  BY <1>1, <1>2, <1>3, <1>4 DEF CallGoesOn

\* No call waits for a permit that nobody gives back, and no task for a chunk that
\* nobody sends.
THEOREM NobodyIsStuckHolds == Spec => []NobodyIsStuck
<1>1. Init => Room /\ AllRequested
  <2> SUFFICES ASSUME Init PROVE Room /\ AllRequested
    OBVIOUS
  <2>1. Entering = {}
    BY DEF Init, IdleCaller, Entering
  <2>2. Room
    BY <2>1, RoomFinite, FS_EmptySet DEF Room
  <2>3. AllRequested
    BY DEF Init, Unused, AllRequested
  <2>4. QED
    BY <2>2, <2>3
<1>2. IInv /\ Room /\ AllRequested /\ [Next]_vars => Room' /\ AllRequested'
  <2>1. CASE UNCHANGED vars
    BY <2>1 DEF vars, Room, Entering, Spare, AllRequested
  <2>2. CASE Next
    BY <2>2, RoomStep, AllRequestedStep
  <2>3. QED
    BY <2>1, <2>2
<1>3. QED
  BY <1>1, <1>2, SomebodyGoesOn, Invariance, PTL DEF Spec
=============================================================================
