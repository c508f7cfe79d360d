-------------------------------- MODULE Quic --------------------------------
(***************************************************************************)
(* QUICTransportService of src/network/discovery/quic_transport.rs: the    *)
(* map of connections, the acceptor and the handlers of accepted           *)
(* connections, the health checker, and calls that connect and send.       *)
(*                                                                         *)
(* Time passes in periods of the health checker.  A check that nothing     *)
(* holds up is made before the next is due; the ones it makes up for after *)
(* it was held up find nothing idle and are left out.  send_to_peer holds  *)
(* the map's read lock until the peer has taken its message, the checker   *)
(* waits for the write lock, and a new reader queues behind it.            *)
(*                                                                         *)
(* A handler leaves its loop when the error it gets says "closed"; other   *)
(* ends of a connection (a time-out, a reset, an abort) give it the same   *)
(* error at once for ever, and the loop keeps its worker thread.           *)
(*                                                                         *)
(* What comes in on a stream is read and thrown away: the buffer that is   *)
(* parsed is another, empty one.  Qualities and byte counts are left out.  *)
(***************************************************************************)
EXTENDS Integers, FiniteSets

CONSTANTS
  Incoming, Outgoing,    \* bound: connections accepted and made
  Senders,               \* calls of send_to_peer
  NoConn,
  Workers,               \* worker threads of the runtime
  IdleLimit              \* periods in the time after which a connection is
                         \* idle (10: 300 s of 30 s)

Conns == Incoming \cup Outgoing

VARIABLES
  running,
  endpoint,    \* "none", "open" or "closed"; it keeps its port when closed
  link,        \* the state of each connection
  pool,        \* connections in the map
  idle,        \* periods begun since last_activity
  handler,     \* the task of each accepted connection
  sending,     \* the connection each call sends on, with the map locked
  due,         \* the checker waits for the map
  active,      \* active_connections of the statistics
  held         \* periods for which the check that is due has been held up

vars == <<running, endpoint, link, pool, idle, handler, sending, due, active,
          held>>

Readers == {s \in Senders : sending[s] # NoConn}
MapFree == Readers = {}
Spinning == {c \in Incoming : handler[c] = "spinning"}
WorkerFree == Cardinality(Spinning) < Workers
Closable == {c \in Conns : link[c] \in {"accepted", "open"}}

Init ==
  /\ running = FALSE /\ endpoint = "none"
  /\ link = [c \in Conns |-> "new"]
  /\ pool = {}
  /\ idle = [c \in Conns |-> 0]
  /\ handler = [c \in Incoming |-> "none"]
  /\ sending = [s \in Senders |-> NoConn]
  /\ due = FALSE
  /\ active = 0
  /\ held = 0

----------------------------------------------------------------------------
(* start and stop.                                                         *)

\* The port is bound before the stored endpoint is replaced, so a start after
\* a stop fails: the closed endpoint has the port.
Start ==
  /\ ~running /\ endpoint = "none"
  /\ running' = TRUE /\ endpoint' = "open"
  /\ UNCHANGED <<link, pool, idle, handler, sending, due, active, held>>

\* The map is cleared and the endpoint closed with it locked; the checker
\* remains, and so does the count of active connections.
Stop ==
  /\ running /\ MapFree /\ WorkerFree
  /\ running' = FALSE /\ endpoint' = "closed"
  /\ link' = [c \in Conns |-> IF c \in Closable THEN "closed" ELSE link[c]]
  /\ pool' = {}
  /\ UNCHANGED <<idle, handler, sending, due, active, held>>

----------------------------------------------------------------------------
(* Connections.                                                            *)

Accept(c) ==
  /\ c \in Incoming /\ link[c] = "new"
  /\ endpoint = "open" /\ WorkerFree
  /\ link' = [link EXCEPT ![c] = "accepted"]
  /\ UNCHANGED <<running, endpoint, pool, idle, handler, sending, due, active, held>>

\* The connection enters the map and the counts, and its handler begins; it
\* may have been closed since.
Admit(c) ==
  /\ c \in Incoming /\ handler[c] = "none" /\ link[c] # "new"
  /\ MapFree /\ WorkerFree
  /\ link' = [link EXCEPT ![c] = IF @ = "accepted" THEN "open" ELSE @]
  /\ pool' = pool \cup {c}
  /\ idle' = [idle EXCEPT ![c] = 0]
  /\ active' = active + 1
  /\ handler' = [handler EXCEPT ![c] = "accepting"]
  /\ UNCHANGED <<running, endpoint, sending, due, held>>

\* connect_to_peer: in the map, but not in the counts, and without a handler.
Connect(c) ==
  /\ c \in Outgoing /\ link[c] = "new"
  /\ endpoint = "open" /\ MapFree /\ WorkerFree
  /\ link' = [link EXCEPT ![c] = "open"]
  /\ pool' = pool \cup {c}
  /\ idle' = [idle EXCEPT ![c] = 0]
  /\ UNCHANGED <<running, endpoint, handler, sending, due, active, held>>

\* The peer closes the connection, or it times out, is reset or aborted.
LinkEnds(c, how) ==
  /\ c \in Closable
  /\ link' = [link EXCEPT ![c] = how]
  /\ UNCHANGED <<running, endpoint, pool, idle, handler, sending, due, active, held>>

\* Fault: every error keeps the handler in its loop.
NeverLeaves(c) == "spinning"
AfterError(c) == IF link[c] = "closed" THEN "done" ELSE "spinning"

\* accept_bi returns an error.  The connection stays in the map.
StreamError(c) ==
  /\ handler[c] = "accepting" /\ link[c] \in {"closed", "lost"}
  /\ WorkerFree
  /\ handler' = [handler EXCEPT ![c] = AfterError(c)]
  /\ UNCHANGED <<running, endpoint, link, pool, idle, sending, due, active, held>>

----------------------------------------------------------------------------
(* send_to_peer and the health checker.                                    *)

Send(s, c) ==
  /\ sending[s] = NoConn /\ c \in pool
  /\ ~due /\ WorkerFree
  /\ sending' = [sending EXCEPT ![s] = c]
  /\ UNCHANGED <<running, endpoint, link, pool, idle, handler, due, active, held>>

\* The message was taken, or the connection has ended.
Sent(s) ==
  /\ sending[s] # NoConn /\ WorkerFree
  /\ sending' = [sending EXCEPT ![s] = NoConn]
  /\ UNCHANGED <<running, endpoint, link, pool, idle, handler, due, active, held>>

Up(n) == IF n > IdleLimit THEN n ELSE n + 1

Tick ==
  /\ endpoint # "none"
  /\ due => ~(MapFree /\ WorkerFree)
  /\ due' = TRUE
  /\ idle' = [c \in Conns |-> IF c \in pool THEN Up(idle[c]) ELSE 0]
  /\ held' = IF due THEN Up(held) ELSE 0
  /\ UNCHANGED <<running, endpoint, link, pool, handler, sending, active>>

\* Fault: only a connection that has just been used is refreshed.
NotRefreshed(c) == idle[c]
Refreshed(c) == 0

\* last_activity lies somewhere between two periods: when the last of IdleLimit
\* periods has begun, the time is over or not, and one period later it is.
MayBeExpired == {c \in pool : idle[c] = IdleLimit}
MustBeExpired == {c \in pool : idle[c] > IdleLimit}

\* A connection that is not idle yet is taken for active now.
Check(expired) ==
  /\ due /\ MapFree /\ WorkerFree
  /\ MustBeExpired \subseteq expired /\ expired \subseteq MustBeExpired \cup MayBeExpired
  /\ due' = FALSE
  /\ pool' = pool \ expired
  /\ link' = [c \in Conns |-> IF c \in expired \cap Closable THEN "closed" ELSE link[c]]
  /\ idle' = [c \in Conns |-> IF c \in pool' THEN Refreshed(c) ELSE 0]
  /\ active' = IF active < Cardinality(expired) THEN 0 ELSE active - Cardinality(expired)
  /\ held' = 0
  /\ UNCHANGED <<running, endpoint, handler, sending>>

Next ==
  \/ Start \/ Stop
  \/ \E c \in Conns : Accept(c) \/ Admit(c) \/ Connect(c)
  \/ \E c \in Conns, how \in {"closed", "lost"} : LinkEnds(c, how)
  \/ \E c \in Incoming : StreamError(c)
  \/ \E s \in Senders, c \in Conns : Send(s, c)
  \/ \E s \in Senders : Sent(s)
  \/ Tick
  \/ \E expired \in SUBSET pool : Check(expired)

\* The runtime polls the handlers while it has a worker.
Fairness == \A c \in Incoming : WF_vars(StreamError(c))

Spec == Init /\ [][Next]_vars /\ Fairness

----------------------------------------------------------------------------
(* Properties.                                                             *)

TypeOK ==
  /\ running \in BOOLEAN /\ endpoint \in {"none", "open", "closed"}
  /\ link \in [Conns -> {"new", "accepted", "open", "closed", "lost"}]
  /\ pool \subseteq Conns
  /\ idle \in [Conns -> 0..(IdleLimit + 1)]
  /\ handler \in [Incoming -> {"none", "accepting", "spinning", "done"}]
  /\ sending \in [Senders -> Conns \cup {NoConn}]
  /\ due \in BOOLEAN /\ active \in Nat
  /\ held \in 0..(IdleLimit + 1)

\* A connection leaves the map of a running service only if calls that keep the
\* map locked over their sending (or handlers that keep the workers) have held
\* up a check for all but one of the periods that make a connection idle: on
\* time, every check takes it for active, used or not.
IdleOnlyIfHeldUp ==
  [][running' /\ ~(pool \subseteq pool') => held >= IdleLimit - 1]_vars

\* The handler of a closed connection ends, unless as many others as there are
\* workers have been left spinning on connections that ended in another way.
HandlersEnd ==
  \A c \in Incoming :
    handler[c] = "accepting" /\ link[c] = "closed"
      ~> handler[c] = "done" \/ Cardinality(Spinning) >= Workers
=============================================================================
