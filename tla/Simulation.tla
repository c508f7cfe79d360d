----------------------------- MODULE Simulation -----------------------------
(***************************************************************************)
(* The simulation of src/main.rs: a driver that spawns scenarios until     *)
(* enough transactions are counted, then joins them and prints the         *)
(* metrics; the scenarios share the nodes and the metrics, each behind an  *)
(* asynchronous mutex, and at most sixteen of them run at a time.          *)
(*                                                                         *)
(* The driver locks the metrics once, before its loop, and reads its       *)
(* counters through that guard, which lives until main returns.            *)
(*                                                                         *)
(* A scenario is the list of the locks it takes, one after the other.  No  *)
(* node is ever overloaded, since the only list of overloaded nodes stays  *)
(* empty.  The scenarios of attacks, overloads and recoveries are never    *)
(* called.  What the metrics add up beside the transactions is left out.   *)
(***************************************************************************)
EXTENDS Integers, Sequences, FiniteSets

CONSTANTS
  Tasks,       \* bound: scenarios at a time, more than there are permits
  Permits,     \* 16
  Target,      \* TARGET_TX, 100
  Driver, None

VARIABLES
  driver,      \* "starting", "looping", "joining", "done"
  metrics,     \* who holds the metrics
  nodes,       \* who holds the nodes
  counted,     \* total_tx + failed_tx
  task         \* every scenario: the rest of its plan

vars == <<driver, metrics, nodes, counted, task>>

\* "deliver" fails for a batch whose receiver comes before its sender;
\* "agree" keeps the nodes locked while it waits for the metrics.
SimplePlan == <<"deliver", "nodes", "metrics", "nodes", "metrics", "metrics",
                "metrics", "metrics", "metrics", "count", "agree", "agreed">>
BatchPart == <<"deliver", "nodes", "metrics", "nodes", "metrics", "metrics",
               "metrics", "metrics", "metrics", "count">>
Plans == [simple |-> SimplePlan, batch |-> BatchPart \o BatchPart \o <<"metrics">>]

NoTask == [kind |-> "none", running |-> FALSE, plan |-> <<>>]
NextLock(t) == Head(task[t].plan)
Live == {t \in Tasks : task[t].kind # "none"}
Running == {t \in Tasks : task[t].running}

Init ==
  /\ driver = "starting"
  /\ metrics = None /\ nodes = None
  /\ counted = 0
  /\ task = [t \in Tasks |-> NoTask]

----------------------------------------------------------------------------
(* main.                                                                   *)

LockMetrics ==
  /\ driver = "starting" /\ metrics = None
  /\ driver' = "looping" /\ metrics' = Driver
  /\ UNCHANGED <<nodes, counted, task>>

Spawn(t, kind) ==
  /\ driver = "looping" /\ counted < Target
  /\ t \notin Live
  /\ task' = [task EXCEPT ![t] = [kind |-> kind, running |-> FALSE,
                                  plan |-> Plans[kind]]]
  /\ UNCHANGED <<driver, metrics, nodes, counted>>

LeaveLoop ==
  /\ driver = "looping" /\ counted >= Target
  /\ driver' = "joining"
  /\ UNCHANGED <<metrics, nodes, counted, task>>

\* All scenarios are joined, and both mutexes are locked for the report.
Report ==
  /\ driver = "joining" /\ Live = {}
  /\ nodes = None /\ metrics = None
  /\ driver' = "done"
  /\ UNCHANGED <<metrics, nodes, counted, task>>

----------------------------------------------------------------------------
(* scenario_simple_tx and scenario_batch_tx.                               *)

\* The semaphore's permit.
Begin(t) ==
  /\ t \in Live \ Running /\ Cardinality(Running) < Permits
  /\ task' = [task EXCEPT ![t].running = TRUE]
  /\ UNCHANGED <<driver, metrics, nodes, counted>>

Done(t) == Len(task[t].plan) = 1
Advanced(t) ==
  [task EXCEPT ![t] = IF Done(t) THEN NoTask ELSE [@ EXCEPT !.plan = Tail(@)]]

UseNodes(t) ==
  /\ t \in Running /\ NextLock(t) \in {"deliver", "nodes"} /\ nodes = None
  /\ task' = Advanced(t)
  /\ UNCHANGED <<driver, metrics, nodes, counted>>

\* first[sender_idx] is out of bounds: the task ends and drops its permit.
Panic(t) ==
  /\ t \in Running /\ task[t].kind = "batch"
  /\ NextLock(t) = "deliver" /\ nodes = None
  /\ task' = [task EXCEPT ![t] = NoTask]
  /\ UNCHANGED <<driver, metrics, nodes, counted>>

UseMetrics(t) ==
  /\ t \in Running /\ NextLock(t) \in {"metrics", "count"} /\ metrics = None
  /\ counted' = IF NextLock(t) = "count" THEN counted + 1 ELSE counted
  /\ task' = Advanced(t)
  /\ UNCHANGED <<driver, metrics, nodes>>

\* The consensus of all nodes, and its count under both locks.
Agree(t) ==
  /\ t \in Running /\ NextLock(t) = "agree" /\ nodes = None
  /\ nodes' = t
  /\ task' = Advanced(t)
  /\ UNCHANGED <<driver, metrics, counted>>

Agreed(t) ==
  /\ t \in Running /\ NextLock(t) = "agreed" /\ metrics = None
  /\ nodes' = None
  /\ task' = Advanced(t)
  /\ UNCHANGED <<driver, metrics, counted>>

Scenario(t) ==
  Begin(t) \/ UseNodes(t) \/ Panic(t) \/ UseMetrics(t) \/ Agree(t) \/ Agreed(t)

Next ==
  \/ LockMetrics
  \/ \E t \in Tasks, kind \in DOMAIN Plans : Spawn(t, kind)
  \/ LeaveLoop \/ Report
  \/ \E t \in Tasks : Scenario(t)

\* Every thread runs, and both mutexes and the semaphore are fair.
Spec ==
  /\ Init /\ [][Next]_vars
  /\ WF_vars(LockMetrics) /\ WF_vars(LeaveLoop) /\ WF_vars(Report)
  /\ \A t \in Tasks : WF_vars(\E kind \in DOMAIN Plans : Spawn(t, kind))
  /\ \A t \in Tasks : SF_vars(Scenario(t))

----------------------------------------------------------------------------

\* "=== SIMULATION COMPLETE ===" (main.rs) is printed at last.  It never is:
\* every scenario needs the metrics to count its first transaction, and the
\* driver keeps them locked until there are enough.
SimulationCompletes == <>(driver = "done")
=============================================================================
