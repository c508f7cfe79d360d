----------------------------- MODULE StateSync -----------------------------
(***************************************************************************)
(* StateSyncService of src/network/discovery/state_sync.rs: sync_shard     *)
(* checks the shard's status, waits for a permit, marks the shard          *)
(* InProgress, spawns a task and stores its handle; the task fetches       *)
(* metadata, joins its chunk downloads, verifies, completes and removes    *)
(* the handle.  Every .await is a point where other calls and tasks run,   *)
(* so a call and a task are processes with a program counter.              *)
(*                                                                         *)
(* The network and hash stubs of the code are replaced by their contract:  *)
(* every fallible stage may succeed or, in Faults, fail.  The peers, the   *)
(* versions and the bytes are left out; a chunk is counted, not stored,    *)
(* and the counts do not say which chunk a task waits for.  The download   *)
(* semaphores are created and never used: they have no state.              *)
(***************************************************************************)
EXTENDS Naturals, FiniteSets

CONSTANTS
  Shards,
  Callers,        \* tasks of the program that call sync_shard
  Tasks,          \* bound: the syncs that can be spawned
  NoTask, NoShard,
  MaxConcurrentShards,
  TotalChunks,    \* ShardMetadata.total_chunks
  Faults          \* the stages that may fail

Stages == {"peers", "metadata", "download", "verify", "apply"}

ASSUME SyncAssumption ==
  /\ IsFiniteSet(Callers) /\ IsFiniteSet(Tasks)
  /\ NoTask \notin Tasks /\ NoShard \notin Shards
  /\ MaxConcurrentShards \in Nat \ {0}
  /\ TotalChunks \in Nat \ {0}
  /\ Faults \subseteq Stages

VARIABLES
  running,    \* the service is started
  status,     \* shard_status: NotStarted stands for no entry
  active,     \* active_syncs: the handle stored for each shard
  permits,    \* free permits of sync_semaphore
  caller,     \* the sync_shard calls: where each is, and for which shard
  task,       \* the sync tasks
  synced,     \* stats.total_shards_synced
  cancelling  \* the shard whose handle cancel_shard_sync is dropping

vars == <<running, status, active, permits, caller, task, synced, cancelling>>

Status == [st : {"NotStarted", "InProgress", "Completed", "Failed"},
           downloaded : Nat, total : Nat]

\* flying: chunk downloads under way; ready: finished, not yet joined;
\* chunks: joined.  Kept for the properties only: verified, the chunks that
\* passed verify_shard_chunks, and completed, that the task wrote Completed.
Task == [pc : {"unused"} \cup Stages \cup {"complete", "stats", "unregister"}
              \cup {"ok", "err", "aborted"},
         shard : Shards \cup {NoShard}, abort : BOOLEAN,
         flying : Nat, ready : Nat, chunks : Nat,
         verified : Nat, completed : BOOLEAN]

Caller == [pc : {"idle", "checked", "permitted", "spawned"},
           shard : Shards \cup {NoShard}, task : Tasks \cup {NoTask}]

Unused == [pc |-> "unused", shard |-> NoShard, abort |-> FALSE,
           flying |-> 0, ready |-> 0, chunks |-> 0,
           verified |-> 0, completed |-> FALSE]
IdleCaller == [pc |-> "idle", shard |-> NoShard, task |-> NoTask]

Ended == {"ok", "err", "aborted"}
Live(t) == task[t].pc \notin {"unused"} \cup Ended
LiveTasks == {t \in Tasks : Live(t)}

Init ==
  /\ running = FALSE
  /\ status = [s \in Shards |-> [st |-> "NotStarted", downloaded |-> 0, total |-> 0]]
  /\ active = [s \in Shards |-> NoTask]
  /\ permits = MaxConcurrentShards
  /\ caller = [c \in Callers |-> IdleCaller]
  /\ task = [t \in Tasks |-> Unused]
  /\ synced = 0
  /\ cancelling = NoShard

----------------------------------------------------------------------------
(* The service.  start and stop take &mut self: no call is in progress.    *)

Exclusive == (\A c \in Callers : caller[c].pc = "idle") /\ cancelling = NoShard

Start ==
  /\ Exclusive
  /\ ~running
  /\ running' = TRUE
  /\ UNCHANGED <<status, active, permits, caller, task, synced, cancelling>>

AbortAll(ts) == [t \in Tasks |-> IF t \in ts THEN [task[t] EXCEPT !.abort = TRUE] ELSE task[t]]

\* Fault: the handles are dropped, which does not stop their tasks.
StopWithoutAbort ==
  /\ Exclusive
  /\ running
  /\ active' = [s \in Shards |-> NoTask]
  /\ running' = FALSE
  /\ UNCHANGED <<status, permits, caller, task, synced, cancelling>>

\* stop aborts the tasks whose handles are stored, and forgets them.
Stop ==
  /\ Exclusive
  /\ running
  /\ task' = AbortAll({active[s] : s \in Shards} \cap LiveTasks)
  /\ active' = [s \in Shards |-> NoTask]
  /\ running' = FALSE
  /\ UNCHANGED <<status, permits, caller, synced, cancelling>>

----------------------------------------------------------------------------
(* sync_shard.                                                             *)

\* Bound: a call starts only while every call can still spawn its task.
CanSpawn ==
  Cardinality({c \in Callers : caller[c].pc \in {"checked", "permitted"}})
    < Cardinality({t \in Tasks : task[t].pc = "unused"})

\* A stopped service or a shard in progress returns an error at once.
CheckStatus(c, s) ==
  /\ CanSpawn
  /\ caller[c].pc = "idle"
  /\ running
  /\ status[s].st # "InProgress"
  /\ caller' = [caller EXCEPT ![c] = [IdleCaller EXCEPT !.pc = "checked", !.shard = s]]
  /\ UNCHANGED <<running, status, active, permits, task, synced, cancelling>>

AcquirePermit(c) ==
  /\ caller[c].pc = "checked"
  /\ permits > 0
  /\ permits' = permits - 1
  /\ caller' = [caller EXCEPT ![c].pc = "permitted"]
  /\ UNCHANGED <<running, status, active, task, synced, cancelling>>

MarkAndSpawn(c, t) ==
  /\ caller[c].pc = "permitted"
  /\ task[t].pc = "unused"
  /\ LET s == caller[c].shard
     IN  /\ status' = [status EXCEPT ![s] = [st |-> "InProgress", downloaded |-> 0, total |-> 0]]
         /\ task' = [task EXCEPT ![t].pc = "peers", ![t].shard = s]
  /\ caller' = [caller EXCEPT ![c].pc = "spawned", ![c].task = t]
  /\ UNCHANGED <<running, active, permits, synced, cancelling>>

\* Fault: the permit is forgotten when the call returns.
StoreHandleAndLeak(c) ==
  /\ caller[c].pc = "spawned"
  /\ cancelling = NoShard
  /\ active' = [active EXCEPT ![caller[c].shard] = caller[c].task]
  /\ caller' = [caller EXCEPT ![c] = IdleCaller]
  /\ UNCHANGED <<running, status, permits, task, synced, cancelling>>

\* The handle that was stored is dropped, its task runs on; the permit is
\* released when sync_shard returns.
StoreHandle(c) ==
  /\ caller[c].pc = "spawned"
  /\ cancelling = NoShard
  /\ active' = [active EXCEPT ![caller[c].shard] = caller[c].task]
  /\ permits' = permits + 1
  /\ caller' = [caller EXCEPT ![c] = IdleCaller]
  /\ UNCHANGED <<running, status, task, synced, cancelling>>

----------------------------------------------------------------------------
(* sync_shard_internal.  A task that was told to abort may still run for   *)
(* as long as its current poll lasts: its steps are not disabled.          *)

Goto(t, pc) == task' = [task EXCEPT ![t].pc = pc]

\* Fault: a sync without peers returns Ok and leaves the shard as it is.
GetPeersOrReturn(t) ==
  /\ task[t].pc = "peers"
  /\ Goto(t, "metadata") \/ Goto(t, "ok")
  /\ UNCHANGED <<running, status, active, permits, caller, synced, cancelling>>

GetPeers(t) ==
  /\ task[t].pc = "peers"
  /\ Goto(t, "metadata")
  /\ UNCHANGED <<running, status, active, permits, caller, synced, cancelling>>

\* Fault: the last chunk is not requested.
GetMetadataButOne(t) ==
  /\ task[t].pc = "metadata"
  /\ task' = [task EXCEPT ![t].pc = "download", ![t].flying = TotalChunks - 1]
  /\ UNCHANGED <<running, status, active, permits, caller, synced, cancelling>>

\* The total is recorded if the shard is in progress, and one download is
\* spawned for every chunk.
GetMetadata(t) ==
  /\ task[t].pc = "metadata"
  /\ LET s == task[t].shard
     IN  status' = IF status[s].st = "InProgress"
                   THEN [status EXCEPT ![s].total = TotalChunks] ELSE status
  /\ task' = [task EXCEPT ![t].pc = "download", ![t].flying = TotalChunks]
  /\ UNCHANGED <<running, active, permits, caller, synced, cancelling>>

\* Fault: progress counted at arrival too.
ChunkArrivesAndCounts(t) ==
  /\ task[t].flying > 0
  /\ task' = [task EXCEPT ![t].flying = @ - 1, ![t].ready = @ + 1]
  /\ status' = [status EXCEPT ![task[t].shard].downloaded = @ + 1]
  /\ UNCHANGED <<running, active, permits, caller, synced, cancelling>>

\* A chunk task finishes by itself: it outlives the sync that spawned it.
ChunkArrives(t) ==
  /\ task[t].flying > 0
  /\ task' = [task EXCEPT ![t].flying = @ - 1, ![t].ready = @ + 1]
  /\ UNCHANGED <<running, status, active, permits, caller, synced, cancelling>>

JoinChunk(t) ==
  /\ task[t].pc = "download"
  /\ task[t].ready > 0
  /\ task' = [task EXCEPT ![t].ready = @ - 1, ![t].chunks = @ + 1]
  /\ LET s == task[t].shard
     IN  status' = IF status[s].st = "InProgress"
                   THEN [status EXCEPT ![s].downloaded = @ + 1] ELSE status
  /\ UNCHANGED <<running, active, permits, caller, synced, cancelling>>

AllJoined(t) ==
  /\ task[t].pc = "download" /\ task[t].chunks = TotalChunks
  /\ Goto(t, "verify")
  /\ UNCHANGED <<running, status, active, permits, caller, synced, cancelling>>

\* Fault: the joined chunks are applied without being verified.
VerifyNothing(t) ==
  /\ task[t].pc = "verify"
  /\ Goto(t, "apply")
  /\ UNCHANGED <<running, status, active, permits, caller, synced, cancelling>>

\* One chunk that does not verify makes Fail of the whole stage.
Verify(t) ==
  /\ task[t].pc = "verify"
  /\ task' = [task EXCEPT ![t].pc = "apply", ![t].verified = task[t].chunks]
  /\ UNCHANGED <<running, status, active, permits, caller, synced, cancelling>>

Apply(t) ==
  /\ task[t].pc = "apply"
  /\ Goto(t, "complete")
  /\ UNCHANGED <<running, status, active, permits, caller, synced, cancelling>>

\* Faults: completion counted here as well, or not marked.
CompleteAndCount(t) ==
  /\ task[t].pc = "complete"
  /\ status' = [status EXCEPT ![task[t].shard] =
                  [st |-> "Completed", downloaded |-> 0, total |-> TotalChunks]]
  /\ synced' = synced + 1
  /\ task' = [task EXCEPT ![t].pc = "stats", ![t].completed = TRUE]
  /\ UNCHANGED <<running, active, permits, caller, cancelling>>
CompleteSilently(t) ==
  /\ task[t].pc = "complete"
  /\ Goto(t, "stats")
  /\ UNCHANGED <<running, status, active, permits, caller, synced, cancelling>>

Complete(t) ==
  /\ task[t].pc = "complete"
  /\ status' = [status EXCEPT ![task[t].shard] =
                  [st |-> "Completed", downloaded |-> 0, total |-> TotalChunks]]
  /\ task' = [task EXCEPT ![t].pc = "stats", ![t].completed = TRUE]
  /\ UNCHANGED <<running, active, permits, caller, synced, cancelling>>

CountSync(t) ==
  /\ task[t].pc = "stats"
  /\ synced' = synced + 1
  /\ Goto(t, "unregister")
  /\ UNCHANGED <<running, status, active, permits, caller, cancelling>>

\* Removes the handle stored for the shard, whichever task it belongs to.
Unregister(t) ==
  /\ task[t].pc = "unregister"
  /\ cancelling = NoShard
  /\ active' = [active EXCEPT ![task[t].shard] = NoTask]
  /\ Goto(t, "ok")
  /\ UNCHANGED <<running, status, permits, caller, synced, cancelling>>

\* An error leaves through `?`: the status, the handle and the statistics stay.
Fail(t) ==
  /\ task[t].pc \in Faults
  /\ task[t].pc = "download" => task[t].ready > 0
  /\ Goto(t, "err")
  /\ UNCHANGED <<running, status, active, permits, caller, synced, cancelling>>

AbortTakesEffect(t) ==
  /\ Live(t) /\ task[t].abort
  /\ Goto(t, "aborted")
  /\ UNCHANGED <<running, status, active, permits, caller, synced, cancelling>>

----------------------------------------------------------------------------
(* cancel_shard_sync: the handle is removed and aborted, then the status   *)
(* is written, with active_syncs locked all along.                         *)

CancelAbort(s) ==
  /\ cancelling = NoShard
  /\ active[s] # NoTask
  /\ task' = AbortAll({active[s]} \cap LiveTasks)
  /\ active' = [active EXCEPT ![s] = NoTask]
  /\ cancelling' = s
  /\ UNCHANGED <<running, status, permits, caller, synced>>

CancelMark ==
  /\ cancelling # NoShard
  /\ status' = [status EXCEPT ![cancelling] = [st |-> "Failed", downloaded |-> 0, total |-> 0]]
  /\ cancelling' = NoShard
  /\ UNCHANGED <<running, active, permits, caller, task, synced>>

----------------------------------------------------------------------------
CallerStep(c) ==
  \/ AcquirePermit(c)
  \/ \E t \in Tasks : MarkAndSpawn(c, t)
  \/ StoreHandle(c)

TaskStep(t) ==
  \/ GetPeers(t) \/ GetMetadata(t) \/ JoinChunk(t) \/ AllJoined(t)
  \/ Verify(t) \/ Apply(t) \/ Complete(t) \/ CountSync(t) \/ Unregister(t)
  \/ Fail(t) \/ AbortTakesEffect(t)

Next ==
  \/ Start \/ Stop
  \/ \E c \in Callers, s \in Shards : CheckStatus(c, s)
  \/ \E c \in Callers : CallerStep(c)
  \/ \E t \in Tasks : TaskStep(t) \/ ChunkArrives(t)
  \/ \E s \in Shards : CancelAbort(s)
  \/ CancelMark

Spec == Init /\ [][Next]_vars

\* tokio polls every woken task and queues the waiters of a semaphore or a
\* lock in order: no call, sync task or chunk download waits for ever for
\* something that keeps being available.  Nobody has to start, stop, sync or
\* cancel.
Fairness ==
  /\ \A c \in Callers : /\ SF_vars(AcquirePermit(c))
                        /\ WF_vars(\E t \in Tasks : MarkAndSpawn(c, t))
                        /\ SF_vars(StoreHandle(c))
  /\ \A t \in Tasks : SF_vars(TaskStep(t)) /\ WF_vars(ChunkArrives(t))
  /\ WF_vars(CancelMark)

FairSpec == Spec /\ Fairness

----------------------------------------------------------------------------
(* Properties.                                                             *)

\* The types of the variables.
TypeOK ==
  /\ running \in BOOLEAN
  /\ status \in [Shards -> Status]
  /\ active \in [Shards -> Tasks \cup {NoTask}]
  /\ permits \in 0..MaxConcurrentShards
  /\ caller \in [Callers -> Caller]
  /\ task \in [Tasks -> Task]
  /\ synced \in Nat
  /\ cancelling \in Shards \cup {NoShard}

Holders == {c \in Callers : caller[c].pc \in {"permitted", "spawned"}}
TasksOf(s) == {t \in Tasks : task[t].shard = s}

\* No permit is lost or made: the free ones and those of the calls between
\* acquire and return are all there are, whichever way the calls interleave.
PermitsConserved == permits + Cardinality(Holders) = MaxConcurrentShards

\* A shard is called Completed only by a task of it of which every chunk was
\* joined and passed verify_shard_chunks, however many tasks of the shard ran,
\* failed or were aborted in the meantime.
CompletedIsVerified ==
  \A s \in Shards : status[s].st = "Completed" =>
    \E t \in TasksOf(s) : task[t].verified = TotalChunks /\ task[t].completed

\* A shard is left InProgress with nobody working on it only after a task of
\* that shard died: by an error, or told to abort by stop or cancel.
StuckOnlyAfterDeath ==
  \A s \in Shards :
    status[s].st = "InProgress" /\ TasksOf(s) \cap LiveTasks = {} =>
      \E t \in TasksOf(s) : task[t].pc = "err" \/ task[t].abort

\* The joins of a shard: each of its tasks with the number of every chunk the
\* task has joined.
JoinedChunks(s) ==
  {j \in TasksOf(s) \X (1..TotalChunks) : j[2] <= task[j[1]].chunks}

\* The progress reported for a shard counts chunks that were joined for it,
\* each at most once, though the tasks of several syncs may add to it.
ProgressIsReal ==
  \A s \in Shards : status[s].downloaded <= Cardinality(JoinedChunks(s))

\* Each sync is counted once, and only after it completed its shard.
SyncsCountedOnce ==
  synced <= Cardinality({t \in Tasks : /\ task[t].pc \in {"unregister", "ok", "aborted"}
                                      /\ task[t].completed})

\* stop and cancel_shard_sync can reach every sync that is alone on its shard:
\* its handle is lost only to another sync of that shard, which replaced or
\* removed it, or while the call that spawned it is about to store it.
LoneSyncIsReachable ==
  \A t \in LiveTasks :
    \/ task[t].abort
    \/ active[task[t].shard] = t
    \/ TasksOf(task[t].shard) # {t}
    \/ \E c \in Callers : caller[c].pc = "spawned" /\ caller[c].task = t

\* Every sync_shard call returns, though more calls than permits compete: the
\* permit does not outlive the call.
CallsReturn == \A c \in Callers : caller[c].pc # "idle" ~> caller[c].pc = "idle"

\* Every sync that was spawned comes to an end.
TasksEnd == \A t \in Tasks : Live(t) ~> ~Live(t)

\* A shard does not stay InProgress for ever, unless a task of it died.
ProgressEnds ==
  \A s \in Shards :
    status[s].st = "InProgress" ~>
      \/ status[s].st # "InProgress"
      \/ \E t \in TasksOf(s) : task[t].pc = "err" \/ task[t].abort

----------------------------------------------------------------------------
(* What comments of the code say and the code does not do: each is refuted *)
(* by a run of its own.                                                    *)

\* "Check if shard is already syncing" (state_sync.rs:208): the status is read
\* before the wait for a permit and not after it.
OneSyncPerShard == \A s \in Shards : Cardinality(TasksOf(s) \cap LiveTasks) <= 1

\* "Failed with error" (state_sync.rs:101): when every task of a shard ended and
\* one ended in an error, the shard is not reported to be in progress.
ErrorIsReported ==
  \A s \in Shards :
    /\ TasksOf(s) \cap LiveTasks = {}
    /\ \E t \in TasksOf(s) : task[t].pc = "err"
    => status[s].st # "InProgress"
=============================================================================
