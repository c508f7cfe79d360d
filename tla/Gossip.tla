------------------------------ MODULE Gossip ------------------------------
(***************************************************************************)
(* GossipService of src/network/discovery/gossip.rs on every node of a     *)
(* network.  A message travels in copies that count their hops; a node     *)
(* drops the copies whose id is in its cache.                              *)
(*                                                                         *)
(* handle_message looks the id up under one lock and inserts it under      *)
(* another: a copy is handled in two steps.  A cache lists its ids in the  *)
(* order of cached_at.  The clean-up loop drops those that are too old,    *)
(* so any first part of the list; stop drops all, and the loops go on.     *)
(*                                                                         *)
(* send_message_to_peer only logs; it stands here for a transport that     *)
(* delivers copies in any order, late or never.  Handlers by type, topics, *)
(* heartbeats and statistics change nothing that is read.                  *)
(***************************************************************************)
EXTENDS Integers, Sequences, FiniteSets, SequencesExt

CONSTANTS
  Nodes,
  PeersOf,       \* the peers each node's peer manager lists
  Ids,           \* bound: the messages ever published
  FanOut, MaxTtl,
  CacheMax, CacheKeep,   \* 10000 and 5000
  Publishers,    \* bound: the nodes that publish
  Restarting     \* bound: the nodes that are stopped and started again

ASSUME GossipAssumption ==
  /\ IsFiniteSet(Nodes) /\ IsFiniteSet(Ids)
  /\ PeersOf \in [Nodes -> SUBSET Nodes]
  /\ {FanOut, CacheMax} \subseteq Nat
  /\ {MaxTtl, CacheKeep} \subseteq Nat \ {0}
  /\ CacheKeep <= CacheMax
  /\ Publishers \subseteq Nodes /\ Restarting \subseteq Nodes

NotPublished == "nobody"

ASSUME NobodyAssumption == NotPublished \notin Nodes

VARIABLES
  running,     \* nodes whose service was started
  cache,       \* message_cache: the ids of each node, oldest first
  net,         \* copies on their way
  handling,    \* copies that a node has found unseen and valid
  origin,      \* the node that published each message
  processed,   \* how often a node has processed a message: 0, 1 or 2 for more
  excused,     \* node and message: copies overlapped there or the id was dropped
  old          \* messages older than an hour

vars == <<running, cache, net, handling, origin, processed, excused, old>>

Copy == [from : Nodes, to : Nodes, id : Ids, hop : 1..MaxTtl]

Init ==
  /\ running = Nodes
  /\ cache = [n \in Nodes |-> <<>>]
  /\ net = {} /\ handling = {}
  /\ origin = [i \in Ids |-> NotPublished]
  /\ processed = [n \in Nodes |-> [i \in Ids |-> 0]]
  /\ excused = {} /\ old = {}

----------------------------------------------------------------------------
(* The cache.                                                              *)

Seen(n, i) == Contains(cache[n], i)

\* An id is cached once.
Without(q, i) ==
  IF Contains(q, i) THEN RemoveAt(q, CHOOSE k \in DOMAIN q : q[k] = i) ELSE q

Newest(q, k) == SubSeq(q, Len(q) - k + 1, Len(q))

\* cache_message: a second insertion renews the entry; a cache that grows over
\* its limit keeps its newest entries.
Inserted(q, i) ==
  LET r == Append(Without(q, i), i)
  IN  IF Len(r) > CacheMax THEN Newest(r, CacheKeep) ELSE r

\* The ids that n no longer knows when its cache becomes q.
Forgotten(n, q) == {n} \X {i \in Ids : Seen(n, i) /\ ~Contains(q, i)}

----------------------------------------------------------------------------
(* publish, handle_message and forward_message.                            *)


FanOuts(n) ==
  IF Cardinality(PeersOf[n]) <= FanOut THEN {PeersOf[n]}
  ELSE {P \in SUBSET PeersOf[n] : Cardinality(P) = FanOut}

Copies(n, P, i, hop) == {[from |-> n, to |-> p, id |-> i, hop |-> hop] : p \in P}

Publish(n, i, P) ==
  /\ n \in Publishers /\ origin[i] = NotPublished
  /\ P \in FanOuts(n)
  /\ origin' = [origin EXCEPT ![i] = n]
  /\ cache' = [cache EXCEPT ![n] = Inserted(@, i)]
  /\ excused' = excused \cup Forgotten(n, cache'[n])
  /\ net' = net \cup Copies(n, P, i, 1)
  /\ UNCHANGED <<running, handling, processed, old>>

Handling(n, i) == {c \in handling : c.to = n /\ c.id = i}

Valid(c) == c.id \notin old /\ c.hop < MaxTtl

\* A copy arrives: it is dropped, or found unseen and valid.
Receive(c) ==
  /\ c \in net /\ net' = net \ {c}
  /\ IF ~Seen(c.to, c.id) /\ Valid(c)
     THEN /\ handling' = handling \cup {c}
          /\ excused' = IF Handling(c.to, c.id) = {} THEN excused
                        ELSE excused \cup {<<c.to, c.id>>}
     ELSE UNCHANGED <<handling, excused>>
  /\ UNCHANGED <<running, cache, origin, processed, old>>

\* Fault: the copies that go on do not count the hop.
SameHop(c) == c.hop
NextHop(c) == c.hop + 1

\* Fault: only publish inserts into the cache.
NotCached(c) == cache[c.to]
Cached(c) == Inserted(cache[c.to], c.id)

\* It is cached, counted, handled and sent on, also to where it came from.
Handle(c, P) ==
  /\ c \in handling /\ handling' = handling \ {c}
  /\ P \in FanOuts(c.to)
  /\ cache' = [cache EXCEPT ![c.to] = Cached(c)]
  /\ excused' = excused \cup Forgotten(c.to, cache'[c.to])
  /\ processed' = [processed EXCEPT ![c.to][c.id] = IF @ = 2 THEN 2 ELSE @ + 1]
  /\ net' = net \cup Copies(c.to, P, c.id, NextHop(c))
  /\ UNCHANGED <<running, origin, old>>

----------------------------------------------------------------------------
(* The life of a service, and what happens around it.                      *)

\* Entries older than message_cache_ttl: the first k of the list.
CleanUp(n, k) ==
  /\ k \in 1..Len(cache[n])
  /\ cache' = [cache EXCEPT ![n] = Newest(@, Len(@) - k)]
  /\ excused' = excused \cup Forgotten(n, cache'[n])
  /\ UNCHANGED <<running, net, handling, origin, processed, old>>

\* start and stop take &mut self: no copy is being handled.
Unborrowed(n) == \A c \in handling : c.to # n

Stop(n) ==
  /\ n \in Restarting /\ n \in running /\ Unborrowed(n)
  /\ running' = running \ {n}
  /\ cache' = [cache EXCEPT ![n] = <<>>]
  /\ excused' = excused \cup Forgotten(n, <<>>)
  /\ UNCHANGED <<net, handling, origin, processed, old>>

Start(n) ==
  /\ n \in Restarting /\ n \notin running /\ Unborrowed(n)
  /\ running' = running \cup {n}
  /\ UNCHANGED <<cache, net, handling, origin, processed, excused, old>>

\* An hour has passed since the message was published.
GrowOld(i) ==
  /\ origin[i] # NotPublished /\ i \notin old
  /\ old' = old \cup {i}
  /\ UNCHANGED <<running, cache, net, handling, origin, processed, excused>>

Arrive(n) == \E c \in net : c.to = n /\ Receive(c)
Work(n) == \E c \in handling, P \in SUBSET Nodes : c.to = n /\ Handle(c, P)

Next ==
  \/ \E n \in Nodes, i \in Ids, P \in SUBSET Nodes : Publish(n, i, P)
  \/ \E n \in Nodes : Arrive(n) \/ Work(n) \/ Stop(n) \/ Start(n)
  \/ \E n \in Nodes : \E k \in 1..Len(cache[n]) : CleanUp(n, k)
  \/ \E i \in Ids : GrowOld(i)

\* Every node's runtime carries on with a copy that it has begun to handle.
\* Nothing makes the transport bring one.
Fairness == \A n \in Nodes : WF_vars(Work(n))

Spec == Init /\ [][Next]_vars /\ Fairness

----------------------------------------------------------------------------
(* Properties.                                                             *)

TypeOK ==
  /\ running \subseteq Nodes
  /\ cache \in [Nodes -> Seq(Ids)]
  /\ net \subseteq Copy /\ handling \subseteq Copy
  /\ origin \in [Ids -> Nodes \cup {NotPublished}]
  /\ processed \in [Nodes -> [Ids -> 0..2]]
  /\ excused \subseteq Nodes \X Ids
  /\ old \subseteq Ids

\* A node processes a message once, unless two copies of it were between the
\* look-up and the insertion of handle_message together, or the id has been
\* dropped from its cache (over the limit, too old, or by a stop).
ProcessedOnce ==
  \A n \in Nodes, i \in Ids : processed[n][i] > 1 => <<n, i>> \in excused

\* The lists of peers lead from m to n in h steps.
Path(m, n, h) ==
  \E p \in [0..h -> Nodes] :
    p[0] = m /\ p[h] = n /\ \A k \in 1..h : p[k] \in PeersOf[p[k - 1]]

\* The hop count of a copy is the length of the way it has come, from the
\* publisher over nodes that list one another, whatever was dropped, forgotten
\* or handled again on that way.  So a message is processed only by nodes that
\* are nearer to its publisher than the ttl (forward_message increments the
\* count that handle_message compares).
SpreadsAlongPaths ==
  /\ \A c \in net \cup handling : Path(origin[c.id], c.to, c.hop)
  /\ \A n \in Nodes, i \in Ids :
       processed[n][i] > 0 => \E h \in 1..(MaxTtl - 1) : Path(origin[i], n, h)

\* Every flood ends, although clean-ups let a node handle a message again
\* whenever a copy of it comes back, in any order and after any time: the hop
\* count alone bounds it.
FloodsEnd == <>[](handling = {})

=============================================================================
