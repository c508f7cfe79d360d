----------------------------- MODULE Sharding -----------------------------
(***************************************************************************)
(* ShardingService of src/network/discovery/sharding.rs: the assignment of *)
(* shards to nodes, kept in two maps under two locks, and the transactions *)
(* between shards, which background loops take through their phases.       *)
(*                                                                         *)
(* add_node_to_shard, remove_node_from_shard and submit change two things  *)
(* under two locks taken one after the other: each is a call of two steps. *)
(* A loop holds both of its locks for a whole round: a round is one step.  *)
(* start spawns the loops anew and stop leaves them running.               *)
(*                                                                         *)
(* Payloads, names, loads and clocks are left out, and so is the reporting *)
(* loop, which only copies what it reads.  Statuses that nothing sets      *)
(* (Syncing, Rebalancing, Failed) and the timeout nothing reads have no    *)
(* state here.                                                             *)
(***************************************************************************)
EXTENDS Integers, FiniteSets

CONSTANTS
  TotalShards,
  Peers,           \* nodes the peer manager may know
  Local,           \* this node
  NoNode,
  Callers,
  Pairs,           \* bound: the <<node, shard>> that calls add and remove
  TxIds,           \* bound: the transactions that may be submitted
  MaxStarts        \* bound: how often the service is started

Shards == 0..(TotalShards - 1)
Nodes == Peers \cup {Local}

ASSUME ShardingAssumption ==
  /\ TotalShards \in Nat \ {0}
  /\ IsFiniteSet(Peers) /\ IsFiniteSet(Callers) /\ IsFiniteSet(TxIds)
  /\ Local \notin Peers /\ NoNode \notin Nodes
  /\ Pairs \subseteq Nodes \X Shards
  /\ MaxStarts \in Nat

VARIABLES
  running,
  loops,         \* processing loops that were spawned
  info,          \* shard_assignments: empty until the first start
  nodeShards,    \* node_shards: {} also stands for no entry
  call,          \* the calls in progress
  disputed,      \* pairs on which two calls overlapped or a start left an entry
  tx,            \* cross_shard_transactions, and what became of each id
  total,         \* stats.total_cross_shard_tx
  successful     \* stats.successful_cross_shard_tx

membership == <<info, nodeShards, disputed>>
crossShard == <<tx, total, successful>>
vars == <<running, loops, membership, call, crossShard>>

ShardInfo == [nodes : SUBSET Nodes, primary : Nodes \cup {NoNode}, active : BOOLEAN]

InMap == {"Submitted", "ProcessingSource", "ProcessingTarget"}
Pending == {x \in TxIds : tx[x] \in InMap}

IdleCall == [op |-> "none", node |-> NoNode, shard |-> 0]
Idle == \A c \in Callers : call[c] = IdleCall

Init ==
  /\ running = FALSE /\ loops = 0
  /\ info = [s \in {} |-> [nodes |-> {}, primary |-> NoNode, active |-> FALSE]]
  /\ nodeShards = [n \in Nodes |-> {}]
  /\ call = [c \in Callers |-> IdleCall]
  /\ disputed = {}
  /\ tx = [x \in TxIds |-> "unused"]
  /\ total = 0 /\ successful = 0

----------------------------------------------------------------------------
(* start and stop take &mut self: no call is in progress.                  *)

\* The peers in the order in which the peer manager's map yields them.
Orders(ps) ==
  {q \in [1..Cardinality(ps) -> ps] : \A i, j \in DOMAIN q : q[i] = q[j] => i = j}

ShardsPerNode(q) ==
  IF TotalShards \div Cardinality(DOMAIN q) = 0 THEN 1
  ELSE TotalShards \div Cardinality(DOMAIN q)

\* The shards of the i-th peer, and those left for the local node.
Share(q, i) == Shards \cap ((i - 1) * ShardsPerNode(q) .. i * ShardsPerNode(q) - 1)

\* Fault: the shards that the division leaves over are forgotten.
RestForgotten(q) == IF DOMAIN q = {} THEN Shards ELSE {}

Rest(q) == Shards \ UNION {Share(q, i) : i \in DOMAIN q}

Assigned(q) ==
  [n \in Nodes |->
     IF n = Local THEN IF Rest(q) # {} THEN Rest(q) ELSE nodeShards[n]
     ELSE IF \E i \in DOMAIN q : q[i] = n
          THEN Share(q, CHOOSE i \in DOMAIN q : q[i] = n) ELSE nodeShards[n]]

\* A shard is new, so the first node it is assigned to becomes its primary.
Owners(q, s) ==
  {q[i] : i \in {j \in DOMAIN q : s \in Share(q, j)}}
    \cup (IF s \in Rest(q) THEN {Local} ELSE {})

NewInfo(q, s) ==
  LET ns == Owners(q, s)
  IN  [nodes |-> ns, active |-> ns # {},
       primary |-> IF ns = {} THEN NoNode ELSE CHOOSE n \in ns : TRUE]

\* What a start leaves in node_shards of nodes that it does not assign to.
LeftOver(q) ==
  {p \in Nodes \X Shards : p[2] \in Assigned(q)[p[1]] /\ p[1] \notin Owners(q, p[2])}

Start(q) ==
  /\ Idle
  /\ ~running
  /\ loops < MaxStarts
  /\ info' = [s \in Shards |-> NewInfo(q, s)]
  /\ nodeShards' = Assigned(q)
  /\ disputed' = LeftOver(q)
  /\ running' = TRUE
  /\ loops' = loops + 1
  /\ UNCHANGED <<call, crossShard>>

Stop ==
  /\ Idle
  /\ running
  /\ running' = FALSE
  /\ UNCHANGED <<loops, membership, call, crossShard>>

----------------------------------------------------------------------------
(* add_node_to_shard and remove_node_from_shard.                           *)

Overlaps(n, s) == \E c \in Callers : call[c].node = n /\ call[c].shard = s

Dispute(n, s) == disputed' = IF Overlaps(n, s) THEN disputed \cup {<<n, s>>} ELSE disputed

AddToShard(c, n, s) ==
  /\ call[c] = IdleCall
  /\ info' = IF s \in DOMAIN info THEN [info EXCEPT ![s].nodes = @ \cup {n}] ELSE info
  /\ Dispute(n, s)
  /\ call' = [call EXCEPT ![c] = [op |-> "add", node |-> n, shard |-> s]]
  /\ UNCHANGED <<running, loops, nodeShards, crossShard>>

AddToNode(c) ==
  /\ call[c].op = "add"
  /\ nodeShards' = [nodeShards EXCEPT ![call[c].node] = @ \cup {call[c].shard}]
  /\ call' = [call EXCEPT ![c] = IdleCall]
  /\ UNCHANGED <<running, loops, info, disputed, crossShard>>

\* Fault: a shard that loses its primary goes offline.
WithoutPrimary(i, n) ==
  IF i.primary = n
  THEN {[nodes |-> i.nodes \ {n}, primary |-> NoNode, active |-> FALSE]}
  ELSE {[i EXCEPT !.nodes = @ \ {n}]}

\* Fault: the node to promote is looked for before the primary is removed.
PromotedTooEarly(i, n) ==
  IF i.primary = n
  THEN {[i EXCEPT !.nodes = @ \ {n}, !.primary = p] : p \in i.nodes \cup {n}}
  ELSE {[i EXCEPT !.nodes = @ \ {n}]}

\* Without its primary, a shard has any other of its nodes promoted.
Without(i, n) ==
  LET others == i.nodes \ {n}
  IN  IF i.primary # n THEN {[i EXCEPT !.nodes = others]}
      ELSE IF others = {} THEN {[nodes |-> {}, primary |-> NoNode, active |-> FALSE]}
      ELSE {[i EXCEPT !.nodes = others, !.primary = p] : p \in others}

RemoveFromShard(c, n, s) ==
  /\ call[c] = IdleCall
  /\ IF s \in DOMAIN info
     THEN \E i \in Without(info[s], n) : info' = [info EXCEPT ![s] = i]
     ELSE info' = info
  /\ Dispute(n, s)
  /\ call' = [call EXCEPT ![c] = [op |-> "remove", node |-> n, shard |-> s]]
  /\ UNCHANGED <<running, loops, nodeShards, crossShard>>

\* Fault: the node keeps its entry.
EntryKept(c) ==
  /\ call[c].op = "remove"
  /\ call' = [call EXCEPT ![c] = IdleCall]
  /\ UNCHANGED <<running, loops, membership, crossShard>>

RemoveFromNode(c) ==
  /\ call[c].op = "remove"
  /\ nodeShards' = [nodeShards EXCEPT ![call[c].node] = @ \ {call[c].shard}]
  /\ call' = [call EXCEPT ![c] = IdleCall]
  /\ UNCHANGED <<running, loops, info, disputed, crossShard>>

----------------------------------------------------------------------------
(* Transactions between shards.                                            *)

Submit(c, x) ==
  /\ call[c] = IdleCall
  /\ running
  /\ tx[x] = "unused"
  /\ tx' = [tx EXCEPT ![x] = "Submitted"]
  /\ call' = [call EXCEPT ![c] = [op |-> "submit", node |-> NoNode, shard |-> 0]]
  /\ UNCHANGED <<running, loops, membership, total, successful>>

\* Fault: the submission is not counted.
NotCounted(c) ==
  /\ call[c].op = "submit"
  /\ call' = [call EXCEPT ![c] = IdleCall]
  /\ UNCHANGED <<running, loops, membership, crossShard>>

CountSubmitted(c) ==
  /\ call[c].op = "submit"
  /\ total' = total + 1
  /\ call' = [call EXCEPT ![c] = IdleCall]
  /\ UNCHANGED <<running, loops, membership, tx, successful>>

\* A transaction that completes is removed in the round that completes it.
Advanced(s) ==
  CASE s = "Submitted"        -> "ProcessingSource"
    [] s = "ProcessingSource" -> "ProcessingTarget"
    [] s = "ProcessingTarget" -> "removed"
    [] OTHER                  -> s

Completing == {x \in TxIds : tx[x] = "ProcessingTarget"}

\* Faults: one removal counted per round; a transaction that is never removed.
RoundCountsOne ==
  /\ loops > 0
  /\ tx' = [x \in TxIds |-> Advanced(tx[x])]
  /\ successful' = IF Completing = {} THEN successful ELSE successful + 1
  /\ total' = Cardinality(Pending \ Completing)
  /\ UNCHANGED <<running, loops, membership, call>>
RoundKeepsCompleted ==
  /\ loops > 0
  /\ tx' = [x \in TxIds |-> IF x \in Completing THEN tx[x] ELSE Advanced(tx[x])]
  /\ total' = Cardinality(Pending)
  /\ UNCHANGED <<running, loops, membership, call, successful>>

\* One round of any of the loops: they differ in nothing but their timers.
Round ==
  /\ loops > 0
  /\ tx' = [x \in TxIds |-> Advanced(tx[x])]
  /\ successful' = successful + Cardinality(Completing)
  /\ total' = Cardinality(Pending \ Completing)
  /\ UNCHANGED <<running, loops, membership, call>>

----------------------------------------------------------------------------
Next ==
  \/ \E ps \in SUBSET Peers : \E q \in Orders(ps) : Start(q)
  \/ Stop
  \/ \E c \in Callers :
       \/ \E p \in Pairs : AddToShard(c, p[1], p[2]) \/ RemoveFromShard(c, p[1], p[2])
       \/ AddToNode(c) \/ RemoveFromNode(c)
       \/ \E x \in TxIds : Submit(c, x)
       \/ CountSubmitted(c)
  \/ Round

Spec == Init /\ [][Next]_vars

\* The timer of a loop ticks for ever, and stop does not end the loop.
FairSpec == Spec /\ WF_vars(Round)

----------------------------------------------------------------------------
(* Properties.                                                             *)

\* The types of the variables.
TypeOK ==
  /\ running \in BOOLEAN /\ loops \in Nat
  /\ DOMAIN info \in {{}, Shards} /\ info \in [DOMAIN info -> ShardInfo]
  /\ nodeShards \in [Nodes -> SUBSET Shards]
  /\ call \in [Callers -> [op : {"none", "add", "remove", "submit"},
                           node : Nodes \cup {NoNode}, shard : Shards]]
  /\ disputed \subseteq Nodes \X Shards
  /\ tx \in [TxIds -> InMap \cup {"unused", "removed"}]
  /\ total \in Nat /\ successful \in Nat

\* A shard is active exactly when it has a primary, and its primary is one of
\* its nodes, however additions, removals and restarts interleave.
PrimaryServes ==
  \A s \in DOMAIN info :
    IF info[s].active THEN info[s].primary \in info[s].nodes ELSE info[s].primary = NoNode

\* An active shard goes offline only when the last of its nodes is removed.
NodesKeepShardActive ==
  [][\A s \in DOMAIN info :
       info[s].active /\ ~info'[s].active => info'[s].nodes = {}]_vars

\* After a start every shard is active and has one node, and node_shards of
\* that node says so, whatever number of peers divides the shards.
StartCovers ==
  [][running' /\ ~running =>
       \A s \in Shards :
         info'[s].active /\ \E n \in Nodes : info'[s].nodes = {n} /\ s \in nodeShards'[n]]_vars

\* The two maps agree on every pair that is not being changed, unless two
\* calls overlapped on it or a start left an entry of a node behind.
MapsAgree ==
  \A s \in DOMAIN info, n \in Nodes :
    \/ (n \in info[s].nodes) = (s \in nodeShards[n])
    \/ Overlaps(n, s)
    \/ <<n, s>> \in disputed

\* Every transaction is counted as successful exactly once, when it leaves the
\* map, though a service that was restarted has several loops.
SuccessIsCounted == successful = Cardinality({x \in TxIds : tx[x] = "removed"})

\* The count of transactions misses none but those whose submit call has yet
\* to add its own, whichever rounds came between its two steps.
TotalCoversPending ==
  Cardinality(Pending) <= total + Cardinality({c \in Callers : call[c].op = "submit"})

\* Every submitted transaction is processed and removed, also after a stop.
TransactionsEnd == \A x \in TxIds : tx[x] = "Submitted" ~> tx[x] = "removed"
=============================================================================
