----------------------------- MODULE Discovery -----------------------------
(***************************************************************************)
(* The discovery service of a node: LibP2PDiscoveryService::start and stop *)
(* (src/network/discovery/mod.rs), called by RealNetworkNode               *)
(* (src/network/real_node.rs) and by the binary triad-node.                *)
(*                                                                         *)
(* Each start of the node spawns a task that runs the service and one that *)
(* drains its events.  The service keeps one sender of a shutdown signal;  *)
(* a task whose sender is used or dropped leaves its loop.  Stopping the   *)
(* node waits for no task.                                                 *)
(***************************************************************************)
EXTENDS Integers, FiniteSets

CONSTANTS
  MaxStarts,     \* bound: starts of the node
  EventCap       \* 100: capacity of the channel of events

Starts == 1..MaxStarts

VARIABLES
  running,       \* is_running of the node
  starts,        \* starts so far; each has a task that drains the events
  task,          \* the discovery task of every start
  shutdown_tx,   \* the start whose sender the service keeps, 0 for none
  signalled,     \* the starts whose shutdown_rx is ready
  listener,      \* the start that listens on the TCP port, 0 for none
  events,        \* events in the channel
  late           \* history: the tasks the last stop found unregistered

vars == <<running, starts, task, shutdown_tx, signalled, listener, events, late>>

Steps == {"none", "spawned", "checked", "registered", "loop", "sending", "ended", "panicked"}

Init ==
  /\ running = FALSE /\ starts = 0
  /\ task = [i \in Starts |-> "none"]
  /\ shutdown_tx = 0 /\ signalled = {} /\ listener = 0
  /\ events = 0 /\ late = {}

----------------------------------------------------------------------------
(* RealNetworkNode::start and stop.                                        *)

NodeStart ==
  /\ ~running /\ running' = TRUE
  /\ starts < MaxStarts /\ starts' = starts + 1
  /\ task' = [task EXCEPT ![starts + 1] = "spawned"]
  /\ UNCHANGED <<shutdown_tx, signalled, listener, events, late>>

\* The sender is taken and used; without one, stop has nothing to do.
NodeStop ==
  /\ running /\ running' = FALSE
  /\ signalled' = signalled \cup ({shutdown_tx} \ {0})
  /\ shutdown_tx' = 0
  /\ late' = {i \in Starts : task[i] \in {"spawned", "checked"}}
  /\ UNCHANGED <<starts, task, listener, events>>

\* The event task of any start.
Drain ==
  /\ starts > 0 /\ events > 0 /\ events' = events - 1
  /\ UNCHANGED <<running, starts, task, shutdown_tx, signalled, listener, late>>

----------------------------------------------------------------------------
(* LibP2PDiscoveryService::start.                                          *)

Check(i) ==
  /\ task[i] = "spawned"
  /\ task' = [task EXCEPT ![i] = IF shutdown_tx = 0 THEN "checked" ELSE "ended"]
  /\ UNCHANGED <<running, starts, shutdown_tx, signalled, listener, events, late>>

\* Fault: the loop waits for a signal that was sent, not for a dropped sender.
OnlyWhenSent(i) == {}
\* The sender of an earlier task, which the new one replaces.
Dropped(i) == {shutdown_tx} \ {0}

Register(i) ==
  /\ task[i] = "checked"
  /\ task' = [task EXCEPT ![i] = "registered"]
  /\ signalled' = signalled \cup Dropped(i)
  /\ shutdown_tx' = i
  /\ UNCHANGED <<running, starts, listener, events, late>>

\* listen_on fails, and expect panics, while an earlier task has the port.
Listen(i) ==
  /\ task[i] = "registered"
  /\ IF listener = 0
     THEN listener' = i /\ task' = [task EXCEPT ![i] = "loop"]
     ELSE listener' = listener /\ task' = [task EXCEPT ![i] = "panicked"]
  /\ UNCHANGED <<running, starts, shutdown_tx, signalled, events, late>>

\* A connection closes; the send waits while the channel is full.
Closed(i) ==
  /\ task[i] = "loop"
  /\ IF events < EventCap
     THEN events' = events + 1 /\ task' = task
     ELSE events' = events /\ task' = [task EXCEPT ![i] = "sending"]
  /\ UNCHANGED <<running, starts, shutdown_tx, signalled, listener, late>>

Sent(i) ==
  /\ task[i] = "sending" /\ events < EventCap
  /\ events' = events + 1
  /\ task' = [task EXCEPT ![i] = "loop"]
  /\ UNCHANGED <<running, starts, shutdown_tx, signalled, listener, late>>

\* The signal ends the loop and drops the swarm with its listener.
Leave(i) ==
  /\ task[i] = "loop" /\ i \in signalled
  /\ task' = [task EXCEPT ![i] = "ended"]
  /\ listener' = 0
  /\ UNCHANGED <<running, starts, shutdown_tx, signalled, events, late>>

Next ==
  \/ NodeStart \/ NodeStop \/ Drain
  \/ \E i \in Starts :
       Check(i) \/ Register(i) \/ Listen(i) \/ Closed(i) \/ Sent(i) \/ Leave(i)

\* select! chooses at random among the branches that are ready, and the channel
\* serves its senders in turn: neither is passed over for ever.
Fairness ==
  /\ WF_vars(Drain)
  /\ \A i \in Starts :
       /\ WF_vars(Check(i)) /\ WF_vars(Register(i)) /\ WF_vars(Listen(i))
       /\ SF_vars(Sent(i)) /\ SF_vars(Leave(i))

Spec == Init /\ [][Next]_vars /\ Fairness

----------------------------------------------------------------------------
(* Properties.                                                             *)

TypeOK ==
  /\ running \in BOOLEAN /\ starts \in 0..MaxStarts
  /\ task \in [Starts -> Steps]
  /\ shutdown_tx \in 0..MaxStarts /\ listener \in 0..MaxStarts
  /\ signalled \subseteq Starts /\ late \subseteq Starts
  /\ events \in 0..EventCap

Active(i) == task[i] \notin {"none", "ended", "panicked"}

\* On a node that stays stopped no discovery task is left, unless it had not
\* registered its sender when the node was stopped: that stop finds nothing to
\* signal, and the service runs on (triad-node then waits for it for ever).
StoppedMeansEnded ==
  \A i \in Starts : (~running /\ i \notin late) ~> (running \/ ~Active(i))
=============================================================================
