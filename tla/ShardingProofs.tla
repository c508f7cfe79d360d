-------------------------- MODULE ShardingProofs --------------------------
(***************************************************************************)
(* Proofs about Sharding, for any number of shards, nodes, calls,          *)
(* transactions and restarts.                                              *)
(*                                                                         *)
(* Between its two steps a call has done its part in shard_assignments and *)
(* not yet in node_shards (Halfway), and two such calls on one pair made   *)
(* it disputed (Alone): so the second step of a call that overlapped with  *)
(* none brings the maps together again.                                    *)
(***************************************************************************)
EXTENDS Sharding, FiniteSetTheorems, TLAPS

\* What PrimaryServes says of one shard.
Serves(i) == IF i.active THEN i.primary \in i.nodes ELSE i.primary = NoNode

Changes(c, n, s) == call[c].op \in {"add", "remove"} /\ call[c].node = n /\ call[c].shard = s

CallOK == \A c \in Callers :
  IF call[c].op \in {"add", "remove"} THEN call[c].node \in Nodes ELSE call[c].node = NoNode

Halfway ==
  \A c \in Callers, s \in DOMAIN info, n \in Nodes :
    Changes(c, n, s) /\ <<n, s>> \notin disputed =>
      (n \in info[s].nodes) = (call[c].op = "add")

Alone ==
  \A c, d \in Callers, n \in Nodes, s \in Shards :
    Changes(c, n, s) /\ Changes(d, n, s) => c = d \/ <<n, s>> \in disputed

IInv == TypeOK /\ PrimaryServes /\ CallOK /\ Halfway /\ Alone /\ MapsAgree

----------------------------------------------------------------------------
(* The assignment that a start makes.                                      *)

LEMMA OwnersAreNodes ==
  ASSUME NEW ps \in SUBSET Peers, NEW q \in Orders(ps), NEW s \in Shards
  PROVE  Owners(q, s) \subseteq Nodes
BY DEF Orders, Owners, Nodes

LEMMA NewInfoIsOK ==
  ASSUME NEW ps \in SUBSET Peers, NEW q \in Orders(ps), NEW s \in Shards
  PROVE  /\ NewInfo(q, s) \in ShardInfo /\ Serves(NewInfo(q, s))
         /\ NewInfo(q, s).nodes = Owners(q, s)
<1>1. Owners(q, s) \subseteq Nodes
  BY OwnersAreNodes
<1>2. CASE Owners(q, s) = {}
  BY <1>2 DEF NewInfo, ShardInfo, Serves
<1>3. CASE Owners(q, s) # {}
  <2>1. (CHOOSE n \in Owners(q, s) : TRUE) \in Owners(q, s)
    BY <1>3
  <2>2. QED
    BY <1>1, <1>3, <2>1 DEF NewInfo, ShardInfo, Serves
<1>4. QED
  BY <1>2, <1>3

LEMMA AssignedIsOK ==
  ASSUME nodeShards \in [Nodes -> SUBSET Shards],
         NEW ps \in SUBSET Peers, NEW q \in Orders(ps)
  PROVE  Assigned(q) \in [Nodes -> SUBSET Shards]
BY DEF Assigned, Share, Rest

\* A node that owns a shard has it among its own, too.
LEMMA OwnersAreAssigned ==
  ASSUME NEW ps \in SUBSET Peers, NEW q \in Orders(ps), NEW s \in Shards,
         NEW n \in Owners(q, s)
  PROVE  s \in Assigned(q)[n]
<1>1. n \in Nodes /\ Local \notin ps
  BY OwnersAreNodes, ShardingAssumption
<1>2. CASE n = Local
  <2>1. s \in Rest(q)
    BY <1>1, <1>2 DEF Owners, Orders
  <2>2. QED
    BY <1>1, <1>2, <2>1 DEF Assigned
<1>3. CASE n # Local
  <2>1. PICK i \in DOMAIN q : s \in Share(q, i) /\ q[i] = n
    BY <1>3 DEF Owners
  <2>2. (CHOOSE j \in DOMAIN q : q[j] = n) = i
    BY <2>1 DEF Orders
  <2>3. QED
    BY <1>1, <1>3, <2>1, <2>2 DEF Assigned
<1>4. QED
  BY <1>2, <1>3

----------------------------------------------------------------------------
(* The steps of a call.                                                    *)

LEMMA WithoutIsOK ==
  ASSUME NEW i \in ShardInfo, NEW n \in Nodes, NEW j \in Without(i, n)
  PROVE  /\ j \in ShardInfo /\ j.nodes = i.nodes \ {n}
         /\ Serves(i) => Serves(j)
         /\ i.active /\ ~j.active => j.nodes = {}
<1>1. CASE i.primary # n
  BY <1>1 DEF Without, ShardInfo, Serves
<1>2. CASE i.primary = n /\ i.nodes \ {n} = {}
  <2>1. j = [nodes |-> {}, primary |-> NoNode, active |-> FALSE]
    BY <1>2 DEF Without
  <2>2. QED
    BY <1>2, <2>1 DEF ShardInfo, Serves
<1>3. CASE i.primary = n /\ i.nodes \ {n} # {}
  <2>1. PICK p \in i.nodes \ {n} : j = [i EXCEPT !.nodes = i.nodes \ {n}, !.primary = p]
    BY <1>3 DEF Without
  <2>2. n # NoNode
    BY ShardingAssumption
  <2>3. QED
    BY <1>3, <2>1, <2>2 DEF ShardInfo, Serves
<1>4. QED
  BY <1>1, <1>2, <1>3

----------------------------------------------------------------------------
(* Every step preserves the types and keeps the primaries serving.         *)

LEMMA PendingFinite ==
  /\ Cardinality(Pending \ Completing) \in Nat
  /\ Cardinality(Completing) \in Nat
<1>1. Pending \ Completing \in SUBSET TxIds /\ Completing \in SUBSET TxIds
  BY DEF Pending, Completing
<1>2. QED
  BY <1>1, ShardingAssumption, FS_Subset, FS_CardinalityType

\* What a step does to the assignments that PrimaryServes and the types see.
LEMMA InfoStep ==
  ASSUME TypeOK, PrimaryServes, CallOK, Next
  PROVE  /\ DOMAIN info' \in {{}, Shards} /\ info' \in [DOMAIN info' -> ShardInfo]
         /\ PrimaryServes'
<1>0. DOMAIN info \in {{}, Shards} /\ info \in [DOMAIN info -> ShardInfo]
  BY DEF TypeOK
<1>1. ASSUME NEW ps \in SUBSET Peers, NEW q \in Orders(ps), Start(q)
      PROVE  info' \in [Shards -> ShardInfo] /\ PrimaryServes'
  BY <1>1, NewInfoIsOK DEF Start, PrimaryServes, Serves
<1>2. ASSUME NEW c \in Callers, NEW n \in Nodes, NEW s \in Shards, AddToShard(c, n, s)
      PROVE  info' \in [DOMAIN info -> ShardInfo] /\ PrimaryServes'
  <2>1. CASE s \notin DOMAIN info
    BY <1>0, <1>2, <2>1 DEF AddToShard, PrimaryServes
  <2>2. CASE s \in DOMAIN info
    <3>1. info' = [info EXCEPT ![s] = [info[s] EXCEPT !.nodes = info[s].nodes \cup {n}]]
      BY <1>2, <2>2 DEF AddToShard
    <3>2. [info[s] EXCEPT !.nodes = info[s].nodes \cup {n}] \in ShardInfo
      BY <1>0, <2>2 DEF ShardInfo
    <3>3. QED
      BY <1>0, <2>2, <3>1, <3>2 DEF PrimaryServes, ShardInfo
  <2>3. QED
    BY <2>1, <2>2
<1>3. ASSUME NEW c \in Callers, NEW n \in Nodes, NEW s \in Shards, RemoveFromShard(c, n, s)
      PROVE  info' \in [DOMAIN info -> ShardInfo] /\ PrimaryServes'
  <2>1. CASE s \notin DOMAIN info
    BY <1>0, <1>3, <2>1 DEF RemoveFromShard, PrimaryServes
  <2>2. CASE s \in DOMAIN info
    <3>1. PICK i \in Without(info[s], n) : info' = [info EXCEPT ![s] = i]
      BY <1>3, <2>2 DEF RemoveFromShard
    <3>2. i \in ShardInfo /\ Serves(i)
      BY <1>0, <2>2, <3>1, WithoutIsOK DEF PrimaryServes, Serves
    <3>3. QED
      BY <1>0, <2>2, <3>1, <3>2 DEF PrimaryServes, Serves
  <2>3. QED
    BY <2>1, <2>2
<1>4. ASSUME UNCHANGED info
      PROVE  info' \in [DOMAIN info -> ShardInfo] /\ PrimaryServes'
  BY <1>0, <1>4 DEF PrimaryServes
<1>5. QED
  BY <1>0, <1>1, <1>2, <1>3, <1>4, ShardingAssumption
     DEF Next, Stop, AddToNode, RemoveFromNode, Submit, CountSubmitted, Round, membership

LEMMA TypeStep ==
  ASSUME TypeOK, PrimaryServes, CallOK, Next
  PROVE  TypeOK' /\ CallOK'
<1>0. /\ nodeShards \in [Nodes -> SUBSET Shards] /\ disputed \subseteq Nodes \X Shards
      /\ loops \in Nat /\ running \in BOOLEAN /\ total \in Nat /\ successful \in Nat
      /\ call \in [Callers -> [op : {"none", "add", "remove", "submit"},
                               node : Nodes \cup {NoNode}, shard : Shards]]
      /\ tx \in [TxIds -> InMap \cup {"unused", "removed"}]
      /\ Pairs \subseteq Nodes \X Shards /\ NoNode \notin Nodes
      /\ IdleCall \in [op : {"none"}, node : {NoNode}, shard : Shards]
  BY ShardingAssumption DEF TypeOK, IdleCall, Shards
<1>1. DOMAIN info' \in {{}, Shards} /\ info' \in [DOMAIN info' -> ShardInfo]
  BY InfoStep
<1>2. ASSUME NEW ps \in SUBSET Peers, NEW q \in Orders(ps), Start(q)
      PROVE  TypeOK' /\ CallOK'
  <2>1. nodeShards' \in [Nodes -> SUBSET Shards]
    BY <1>0, <1>2, AssignedIsOK DEF Start
  <2>2. disputed' \subseteq Nodes \X Shards
    BY <1>2 DEF Start, LeftOver
  <2>3. QED
    BY <1>0, <1>1, <1>2, <2>1, <2>2 DEF Start, crossShard, TypeOK, CallOK
<1>3. CASE Stop
  BY <1>0, <1>1, <1>3 DEF Stop, membership, crossShard, TypeOK, CallOK
<1>4. ASSUME NEW c \in Callers, NEW n \in Nodes, NEW s \in Shards,
             AddToShard(c, n, s) \/ RemoveFromShard(c, n, s)
      PROVE  TypeOK' /\ CallOK'
  <2>1. disputed' \subseteq Nodes \X Shards
    BY <1>0, <1>4 DEF AddToShard, RemoveFromShard, Dispute
  <2>2. PICK o \in {"add", "remove"} :
          call' = [call EXCEPT ![c] = [op |-> o, node |-> n, shard |-> s]]
    BY <1>4 DEF AddToShard, RemoveFromShard
  <2>3. QED
    BY <1>0, <1>1, <1>4, <2>1, <2>2
       DEF AddToShard, RemoveFromShard, crossShard, TypeOK, CallOK
<1>5. ASSUME NEW c \in Callers, AddToNode(c) \/ RemoveFromNode(c)
      PROVE  TypeOK' /\ CallOK'
  <2>1. CASE AddToNode(c)
    BY <1>0, <1>1, <2>1 DEF AddToNode, crossShard, TypeOK, CallOK
  <2>2. CASE RemoveFromNode(c)
    BY <1>0, <1>1, <2>2 DEF RemoveFromNode, crossShard, TypeOK, CallOK
  <2>3. QED
    BY <1>5, <2>1, <2>2
<1>6. ASSUME NEW c \in Callers, NEW x \in TxIds, Submit(c, x)
      PROVE  TypeOK' /\ CallOK'
  <2>1. call' = [call EXCEPT ![c] = [op |-> "submit", node |-> NoNode, shard |-> 0]]
        /\ 0 \in Shards
    BY <1>6, ShardingAssumption DEF Submit, Shards
  <2>2. tx' \in [TxIds -> InMap \cup {"unused", "removed"}]
    BY <1>0, <1>6 DEF Submit, InMap
  <2>3. QED
    BY <1>0, <1>1, <1>6, <2>1, <2>2 DEF Submit, membership, TypeOK, CallOK
<1>7. ASSUME NEW c \in Callers, CountSubmitted(c)
      PROVE  TypeOK' /\ CallOK'
  BY <1>0, <1>1, <1>7 DEF CountSubmitted, membership, TypeOK, CallOK
<1>8. CASE Round
  <2>1. tx' \in [TxIds -> InMap \cup {"unused", "removed"}]
    BY <1>0, <1>8 DEF Round, Advanced, InMap
  <2>2. total' \in Nat /\ successful' \in Nat
    BY <1>0, <1>8, PendingFinite DEF Round
  <2>3. QED
    BY <1>0, <1>1, <1>8, <2>1, <2>2 DEF Round, membership, TypeOK, CallOK
<1>9. QED
  BY <1>0, <1>2, <1>3, <1>4, <1>5, <1>6, <1>7, <1>8 DEF Next

----------------------------------------------------------------------------
(* The two maps.                                                           *)

LEMMA StartMaps ==
  ASSUME IInv, NEW ps \in SUBSET Peers, NEW q \in Orders(ps), Start(q)
  PROVE  Halfway' /\ Alone' /\ MapsAgree'
<1>1. \A c \in Callers : call[c] = IdleCall /\ call' = call
  BY DEF Start, Idle
<1>2. \A c \in Callers : ~(call'[c].op \in {"add", "remove"})
  BY <1>1 DEF IdleCall
<1>3. Halfway' /\ Alone'
  BY <1>2 DEF Halfway, Alone, Changes
<1>4. ASSUME NEW s \in DOMAIN info', NEW n \in Nodes, <<n, s>> \notin disputed'
      PROVE  (n \in info'[s].nodes) = (s \in nodeShards'[n])
  <2>1. s \in Shards /\ info'[s].nodes = Owners(q, s) /\ nodeShards' = Assigned(q)
    BY <1>4, NewInfoIsOK DEF Start
  <2>2. n \in Owners(q, s) => s \in Assigned(q)[n]
    BY <2>1, OwnersAreAssigned
  <2>3. s \in Assigned(q)[n] => n \in Owners(q, s)
    BY <1>4, <2>1 DEF Start, LeftOver
  <2>4. QED
    BY <2>1, <2>2, <2>3
<1>5. QED
  BY <1>3, <1>4 DEF MapsAgree

\* The first step of a call: it is alone on its pair, or the pair is disputed.
LEMMA FirstStepMaps ==
  ASSUME IInv, NEW c \in Callers, NEW n \in Nodes, NEW s \in Shards,
         AddToShard(c, n, s) \/ RemoveFromShard(c, n, s)
  PROVE  Halfway' /\ Alone' /\ MapsAgree'
<1> DEFINE op == IF AddToShard(c, n, s) THEN "add" ELSE "remove"
<1>0. /\ DOMAIN info \in {{}, Shards} /\ info \in [DOMAIN info -> ShardInfo]
      /\ call \in [Callers -> [op : {"none", "add", "remove", "submit"},
                               node : Nodes \cup {NoNode}, shard : Shards]]
      /\ CallOK /\ Halfway /\ Alone /\ MapsAgree /\ NoNode \notin Nodes
  BY ShardingAssumption DEF IInv, TypeOK
<1>1. /\ call[c] = IdleCall /\ nodeShards' = nodeShards
      /\ call' = [call EXCEPT ![c] = [op |-> op, node |-> n, shard |-> s]]
      /\ disputed' = IF Overlaps(n, s) THEN disputed \cup {<<n, s>>} ELSE disputed
  BY DEF AddToShard, RemoveFromShard, Dispute
<1>2. /\ DOMAIN info' = DOMAIN info
      /\ \A t \in DOMAIN info, m \in Nodes :
           IF m = n /\ t = s THEN (m \in info'[t].nodes) = (op = "add")
           ELSE (m \in info'[t].nodes) = (m \in info[t].nodes)
  <2>1. CASE AddToShard(c, n, s)
    BY <1>0, <2>1 DEF AddToShard, ShardInfo
  <2>2. CASE ~AddToShard(c, n, s)
    <3>1. CASE s \notin DOMAIN info
      BY <2>2, <3>1 DEF RemoveFromShard
    <3>2. CASE s \in DOMAIN info
      <4>1. PICK i \in Without(info[s], n) : info' = [info EXCEPT ![s] = i]
        BY <2>2, <3>2 DEF RemoveFromShard
      <4>2. i.nodes = info[s].nodes \ {n}
        BY <1>0, <3>2, <4>1, WithoutIsOK
      <4>3. QED
        BY <1>0, <2>2, <3>2, <4>1, <4>2
    <3>3. QED
      BY <3>1, <3>2
  <2>3. QED
    BY <2>1, <2>2
<1>3. \A d \in Callers, m \in Nodes, t \in Shards : d # c =>
        (Changes(d, m, t)' <=> Changes(d, m, t))
  BY <1>0, <1>1 DEF Changes
<1>4. \A m \in Nodes, t \in Shards : Changes(c, m, t)' <=> m = n /\ t = s
  BY <1>0, <1>1 DEF Changes
<1>5. \A d \in Callers : Changes(d, n, s) => <<n, s>> \in disputed'
  BY <1>1 DEF Changes, Overlaps
<1>6. Alone'
  <2>1. SUFFICES ASSUME NEW d \in Callers, NEW e \in Callers, d # e,
                        NEW m \in Nodes, NEW t \in Shards,
                        Changes(d, m, t)', Changes(e, m, t)'
                 PROVE  <<m, t>> \in disputed'
    BY DEF Alone
  <2>2. CASE d = c \/ e = c
    BY <1>3, <1>4, <1>5, <2>1, <2>2
  <2>3. CASE d # c /\ e # c
    <3>1. Changes(d, m, t) /\ Changes(e, m, t)
      BY <1>3, <2>1, <2>3
    <3>2. <<m, t>> \in disputed
      BY <1>0, <2>1, <3>1 DEF Alone
    <3>3. QED
      BY <1>1, <3>2
  <2>4. QED
    BY <2>2, <2>3
<1>7. Halfway'
  <2>1. SUFFICES ASSUME NEW d \in Callers, NEW t \in DOMAIN info', NEW m \in Nodes,
                        Changes(d, m, t)', <<m, t>> \notin disputed'
                 PROVE  (m \in info'[t].nodes) = (call'[d].op = "add")
    BY DEF Halfway
  <2>2. CASE d = c
    BY <1>0, <1>1, <1>2, <1>4, <2>1, <2>2
  <2>3. CASE d # c
    <3>1. Changes(d, m, t) /\ ~(m = n /\ t = s) /\ <<m, t>> \notin disputed
      BY <1>0, <1>1, <1>2, <1>3, <1>5, <2>1, <2>3
    <3>2. QED
      BY <1>0, <1>1, <1>2, <2>1, <2>3, <3>1 DEF Halfway
  <2>4. QED
    BY <2>2, <2>3
<1>8. MapsAgree'
  <2>1. SUFFICES ASSUME NEW t \in DOMAIN info', NEW m \in Nodes,
                        ~Overlaps(m, t)', <<m, t>> \notin disputed'
                 PROVE  (m \in info'[t].nodes) = (t \in nodeShards'[m])
    BY DEF MapsAgree
  <2>2. ~(m = n /\ t = s)
    BY <1>0, <1>1, <2>1 DEF Overlaps
  <2>3. ~Overlaps(m, t)
    BY <1>0, <1>1, <2>1 DEF Overlaps, IdleCall
  <2>4. QED
    BY <1>0, <1>1, <1>2, <2>1, <2>2, <2>3 DEF MapsAgree
<1>9. QED
  BY <1>6, <1>7, <1>8

\* The second step: a call that overlapped with none leaves the maps in
\* agreement on its pair, and no step on a pair disturbs another pair.
LEMMA SecondStepMaps ==
  ASSUME IInv, NEW c \in Callers, AddToNode(c) \/ RemoveFromNode(c)
  PROVE  Halfway' /\ Alone' /\ MapsAgree'
<1> DEFINE n == call[c].node
           s == call[c].shard
<1>0. /\ DOMAIN info \in {{}, Shards} /\ nodeShards \in [Nodes -> SUBSET Shards]
      /\ call \in [Callers -> [op : {"none", "add", "remove", "submit"},
                               node : Nodes \cup {NoNode}, shard : Shards]]
      /\ CallOK /\ Halfway /\ Alone /\ MapsAgree /\ NoNode \notin Nodes
  BY ShardingAssumption DEF IInv, TypeOK
<1>1. /\ info' = info /\ disputed' = disputed
      /\ call' = [call EXCEPT ![c] = IdleCall]
      /\ call[c].op \in {"add", "remove"} /\ n \in Nodes /\ s \in Shards
  BY <1>0 DEF AddToNode, RemoveFromNode, CallOK
<1>2. \A m \in Nodes, t \in Shards :
        IF m = n /\ t = s THEN (t \in nodeShards'[m]) = (call[c].op = "add")
        ELSE (t \in nodeShards'[m]) = (t \in nodeShards[m])
  <2>1. CASE AddToNode(c)
    BY <1>0, <1>1, <2>1 DEF AddToNode
  <2>2. CASE RemoveFromNode(c)
    BY <1>0, <1>1, <2>2 DEF RemoveFromNode
  <2>3. QED
    BY <2>1, <2>2
<1>3. \A d \in Callers, m \in Nodes, t \in Shards :
        Changes(d, m, t)' => d # c /\ Changes(d, m, t)
  BY <1>0, <1>1 DEF Changes, IdleCall
<1>4. \A d \in Callers : d # c => call'[d] = call[d]
  BY <1>0, <1>1
<1>5. Halfway' /\ Alone'
  BY <1>0, <1>1, <1>3, <1>4 DEF Halfway, Alone
<1>6. MapsAgree'
  <2>1. SUFFICES ASSUME NEW t \in DOMAIN info', NEW m \in Nodes,
                        ~Overlaps(m, t)', <<m, t>> \notin disputed'
                 PROVE  (m \in info'[t].nodes) = (t \in nodeShards'[m])
    BY DEF MapsAgree
  <2>2. t \in DOMAIN info /\ t \in Shards /\ <<m, t>> \notin disputed
    BY <1>0, <1>1, <2>1
  <2>3. CASE m = n /\ t = s
    <3>1. (m \in info[t].nodes) = (call[c].op = "add")
      BY <1>0, <1>1, <2>2, <2>3 DEF Halfway, Changes
    <3>2. QED
      BY <1>1, <1>2, <2>2, <2>3, <3>1
  <2>4. CASE ~(m = n /\ t = s)
    <3>1. ~Overlaps(m, t)
      BY <1>1, <1>4, <2>1, <2>4 DEF Overlaps
    <3>2. QED
      BY <1>0, <1>1, <1>2, <2>2, <2>4, <3>1 DEF MapsAgree
  <2>5. QED
    BY <2>3, <2>4
<1>7. QED
  BY <1>5, <1>6

\* The steps that touch neither map, and end or begin only a submission.
LEMMA OtherStepMaps ==
  ASSUME IInv, UNCHANGED membership,
         \/ UNCHANGED call
         \/ \E c \in Callers, o \in {"none", "submit"}, p \in {"none", "submit"} :
              call[c].op = o /\ call' = [call EXCEPT ![c] = [op |-> p, node |-> NoNode, shard |-> 0]]
  PROVE  Halfway' /\ Alone' /\ MapsAgree'
<1>0. /\ DOMAIN info \in {{}, Shards} /\ CallOK /\ Halfway /\ Alone /\ MapsAgree
      /\ NoNode \notin Nodes /\ Callers = DOMAIN call
  BY ShardingAssumption DEF IInv, TypeOK
<1>1. info' = info /\ nodeShards' = nodeShards /\ disputed' = disputed
  BY DEF membership
<1>2. \A d \in Callers, m \in Nodes, t \in Shards :
        /\ Changes(d, m, t)' => Changes(d, m, t) /\ call'[d].op = call[d].op
        /\ call'[d].node = m <=> call[d].node = m
        /\ call[d].node = m => call'[d].shard = call[d].shard
  BY <1>0 DEF Changes, CallOK
<1>3. Halfway' /\ Alone'
  BY <1>0, <1>1, <1>2 DEF Halfway, Alone
<1>4. \A m \in Nodes, t \in Shards : Overlaps(m, t)' <=> Overlaps(m, t)
  BY <1>2 DEF Overlaps
<1>5. MapsAgree'
  BY <1>0, <1>1, <1>4 DEF MapsAgree
<1>6. QED
  BY <1>3, <1>5

----------------------------------------------------------------------------
(* Theorems about membership.                                              *)

LEMMA Invariance == Spec => []IInv
<1>1. Init => IInv
  <2>1. SUFFICES ASSUME Init PROVE IInv
    OBVIOUS
  <2>2. DOMAIN info = {} /\ info \in [{} -> ShardInfo]
    BY <2>1 DEF Init
  <2>3. 0 \in Shards /\ \A c \in Callers : call[c] = IdleCall
    BY <2>1, ShardingAssumption DEF Init, Shards
  <2>4. TypeOK
    BY <2>1, <2>2, <2>3 DEF Init, TypeOK, IdleCall, InMap
  <2>5. CallOK /\ Alone
    BY <2>3 DEF CallOK, Alone, Changes, IdleCall
  <2>6. PrimaryServes /\ Halfway /\ MapsAgree
    BY <2>2 DEF PrimaryServes, Halfway, MapsAgree
  <2>7. QED
    BY <2>4, <2>5, <2>6 DEF IInv
<1>2. IInv /\ [Next]_vars => IInv'
  <2>1. SUFFICES ASSUME IInv, [Next]_vars PROVE IInv'
    OBVIOUS
  <2>2. TypeOK /\ PrimaryServes /\ CallOK
    BY <2>1 DEF IInv
  <2>3. CASE Next
    <3>1. TypeOK' /\ CallOK' /\ PrimaryServes'
      BY <2>2, <2>3, TypeStep, InfoStep
    <3>2. Halfway' /\ Alone' /\ MapsAgree'
      <4>1. ASSUME NEW c \in Callers, NEW p \in Pairs,
                   AddToShard(c, p[1], p[2]) \/ RemoveFromShard(c, p[1], p[2])
            PROVE  Halfway' /\ Alone' /\ MapsAgree'
        <5>1. p[1] \in Nodes /\ p[2] \in Shards
          BY ShardingAssumption
        <5>2. QED
          BY <2>1, <4>1, <5>1, FirstStepMaps
      <4>2. CASE Stop \/ Round
        BY <2>1, <4>2, OtherStepMaps DEF Stop, Round
      <4>3. ASSUME NEW c \in Callers, \/ \E x \in TxIds : Submit(c, x)
                                      \/ CountSubmitted(c)
            PROVE  Halfway' /\ Alone' /\ MapsAgree'
        BY <2>1, <4>3, OtherStepMaps DEF Submit, CountSubmitted, IdleCall
      <4>4. QED
        BY <2>1, <2>3, <4>1, <4>2, <4>3, StartMaps, SecondStepMaps DEF Next
    <3>3. QED
      BY <3>1, <3>2 DEF IInv
  <2>4. CASE UNCHANGED vars
    BY <2>1, <2>4
       DEF vars, membership, crossShard, IInv, TypeOK, PrimaryServes, CallOK, Halfway,
           Alone, MapsAgree, Changes, Overlaps
  <2>5. QED
    BY <2>1, <2>3, <2>4
<1>3. QED
  BY <1>1, <1>2, PTL DEF Spec

\* Every reachable state of the service has its types.
THEOREM TypeCorrect == Spec => []TypeOK
<1>1. IInv => TypeOK
  BY DEF IInv
<1>2. QED
  BY <1>1, Invariance, PTL

\* A shard is active exactly when it has a primary, one of its nodes.
THEOREM PrimaryServesHolds == Spec => []PrimaryServes
<1>1. IInv => PrimaryServes
  BY DEF IInv
<1>2. QED
  BY <1>1, Invariance, PTL

\* The two maps disagree on a pair only while a call is between its two locks,
\* or after calls overlapped on it or a start left an entry of the node.
THEOREM MapsAgreeHolds == Spec => []MapsAgree
<1>1. IInv => MapsAgree
  BY DEF IInv
<1>2. QED
  BY <1>1, Invariance, PTL

\* An active shard goes offline only when the last of its nodes is removed.
THEOREM NodesKeepShardActiveHolds == Spec => NodesKeepShardActive
<1>1. IInv /\ [Next]_vars =>
        [\A s \in DOMAIN info :
           info[s].active /\ ~info'[s].active => info'[s].nodes = {}]_vars
  <2>1. SUFFICES ASSUME IInv, Next, NEW s \in DOMAIN info,
                        info[s].active, ~info'[s].active
                 PROVE  info'[s].nodes = {}
    OBVIOUS
  <2>2. DOMAIN info \in {{}, Shards} /\ info \in [DOMAIN info -> ShardInfo]
    BY <2>1 DEF IInv, TypeOK
  <2>3. ASSUME NEW ps \in SUBSET Peers, NEW q \in Orders(ps), Start(q)
        PROVE  info'[s].nodes = {}
    <3>1. info'[s] = NewInfo(q, s)
      BY <2>1, <2>2, <2>3 DEF Start
    <3>2. /\ NewInfo(q, s).nodes = Owners(q, s)
          /\ NewInfo(q, s).active = (Owners(q, s) # {})
      BY DEF NewInfo
    <3>3. QED
      BY <2>1, <3>1, <3>2
  <2>4. ASSUME NEW c \in Callers, NEW n \in Nodes, NEW t \in Shards, AddToShard(c, n, t)
        PROVE  info'[s].active = info[s].active
    BY <2>1, <2>2, <2>4 DEF AddToShard, ShardInfo
  <2>5. ASSUME NEW c \in Callers, NEW n \in Nodes, NEW t \in Shards, RemoveFromShard(c, n, t)
        PROVE  info'[s].nodes = {}
    <3>1. t \in DOMAIN info
      BY <2>1, <2>5 DEF RemoveFromShard
    <3>2. PICK i \in Without(info[t], n) : info' = [info EXCEPT ![t] = i]
      BY <2>5, <3>1 DEF RemoveFromShard
    <3>3. t = s
      BY <2>1, <2>2, <3>2
    <3>4. QED
      BY <2>1, <2>2, <2>5, <3>2, <3>3, WithoutIsOK
  <2>6. QED
    BY <2>1, <2>3, <2>4, <2>5, ShardingAssumption
       DEF Next, Stop, AddToNode, RemoveFromNode, Submit, CountSubmitted, Round, membership
<1>2. QED
  BY <1>1, Invariance, PTL DEF Spec, NodesKeepShardActive

\* No shard is in the shares of two peers.
LEMMA SharesDisjoint ==
  ASSUME NEW ps \in SUBSET Peers, NEW q \in Orders(ps), NEW s \in Shards,
         NEW i \in DOMAIN q, NEW j \in DOMAIN q, s \in Share(q, i), s \in Share(q, j)
  PROVE  i = j
<1>1. PICK k \in Nat : k = ShardsPerNode(q)
  <2>1. IsFiniteSet(ps)
    BY ShardingAssumption, FS_Subset
  <2>2. DOMAIN q = 1..Cardinality(ps) /\ Cardinality(ps) \in Nat
    BY <2>1, FS_CardinalityType DEF Orders
  <2>3. Cardinality(DOMAIN q) \in Nat \ {0}
    BY <2>2, FS_Interval
  <2>4. QED
    BY <2>3, ShardingAssumption DEF ShardsPerNode
<1>2. i \in Int /\ j \in Int /\ s \in Int
  <2>1. IsFiniteSet(ps)
    BY ShardingAssumption, FS_Subset
  <2>2. DOMAIN q = 1..Cardinality(ps) /\ Cardinality(ps) \in Nat
    BY <2>1, FS_CardinalityType DEF Orders
  <2>3. QED
    BY <2>2, ShardingAssumption DEF Shards
<1>3. /\ (i - 1) * k <= s /\ s <= i * k - 1
      /\ (j - 1) * k <= s /\ s <= j * k - 1
  BY <1>1, <1>2 DEF Share
<1>4. \A a, b \in Int : a <= b - 1 => a * k <= (b - 1) * k
  BY <1>1
<1>5. QED
  BY <1>1, <1>2, <1>3, <1>4

\* After a start every shard is active under one node that knows it.
THEOREM StartCoversHolds == Spec => StartCovers
<1>1. IInv /\ [Next]_vars =>
        [running' /\ ~running =>
           \A s \in Shards :
             info'[s].active /\ \E n \in Nodes : info'[s].nodes = {n} /\ s \in nodeShards'[n]]_vars
  <2>1. SUFFICES ASSUME IInv, Next, running', ~running, NEW s \in Shards
                 PROVE  info'[s].active
                        /\ \E n \in Nodes : info'[s].nodes = {n} /\ s \in nodeShards'[n]
    OBVIOUS
  <2>0. PICK ps \in SUBSET Peers : \E q \in Orders(ps) : Start(q)
    BY <2>1
       DEF Next, Stop, AddToShard, RemoveFromShard, AddToNode, RemoveFromNode, Submit,
           CountSubmitted, Round
  <2>2. PICK q \in Orders(ps) : Start(q)
    BY <2>0
  <2>3. /\ info'[s] = NewInfo(q, s) /\ nodeShards' = Assigned(q)
        /\ NewInfo(q, s).nodes = Owners(q, s) /\ NewInfo(q, s).active = (Owners(q, s) # {})
    BY <2>2 DEF Start, NewInfo
  <2>4. PICK n : Owners(q, s) = {n}
    <3>1. CASE s \in Rest(q)
      BY <3>1 DEF Owners, Rest
    <3>2. CASE s \notin Rest(q)
      <4>1. PICK i \in DOMAIN q : s \in Share(q, i)
        BY <3>2 DEF Rest
      <4>2. Owners(q, s) = {q[i]}
        BY <3>2, <4>1, SharesDisjoint DEF Owners
      <4>3. QED
        BY <4>2
    <3>3. QED
      BY <3>1, <3>2
  <2>5. n \in Nodes /\ s \in Assigned(q)[n]
    BY <2>4, OwnersAreNodes, OwnersAreAssigned
  <2>6. QED
    BY <2>3, <2>4, <2>5
<1>2. QED
  BY <1>1, Invariance, PTL DEF Spec, StartCovers

----------------------------------------------------------------------------
(* Theorems about transactions.                                            *)

Removed == {x \in TxIds : tx[x] = "removed"}
Submitting == {c \in Callers : call[c].op = "submit"}

LEMMA CountsFinite ==
  /\ IsFiniteSet(Pending) /\ IsFiniteSet(Completing) /\ IsFiniteSet(Removed)
  /\ IsFiniteSet(Submitting)
  /\ Cardinality(Pending) \in Nat /\ Cardinality(Submitting) \in Nat
<1>1. /\ Pending \in SUBSET TxIds /\ Completing \in SUBSET TxIds /\ Removed \in SUBSET TxIds
      /\ Submitting \in SUBSET Callers
  BY DEF Pending, Completing, Removed, Submitting
<1>2. QED
  BY <1>1, ShardingAssumption, FS_Subset, FS_CardinalityType

\* A round moves the transactions that complete from the pending to the removed.
LEMMA RoundMoves ==
  ASSUME TypeOK, Round
  PROVE  /\ Pending' = Pending \ Completing
         /\ Removed' = Removed \cup Completing /\ Removed \cap Completing = {}
         /\ Submitting' = Submitting
<1>1. tx \in [TxIds -> InMap \cup {"unused", "removed"}]
  BY DEF TypeOK
<1>2. tx' = [x \in TxIds |-> Advanced(tx[x])] /\ call' = call
  BY DEF Round
<1>3. \A x \in TxIds :
        /\ tx'[x] = "removed" <=> tx[x] \in {"removed", "ProcessingTarget"}
        /\ tx'[x] \in InMap <=> tx[x] \in {"Submitted", "ProcessingSource"}
  BY <1>1, <1>2 DEF Advanced, InMap
<1>4. QED
  BY <1>2, <1>3 DEF Pending, Removed, Completing, Submitting, InMap

\* What a step other than a round does to the transactions.
LEMMA CallMoves ==
  ASSUME TypeOK, Next, ~Round
  PROVE  /\ Removed' = Removed /\ successful' = successful
         /\ \/ Pending' = Pending /\ total' = total /\ Submitting' = Submitting
            \/ /\ \E x \in TxIds : Pending' = Pending \cup {x}
               /\ \E c \in Callers \ Submitting : Submitting' = Submitting \cup {c}
               /\ total' = total
            \/ /\ Pending' = Pending
               /\ \E c \in Submitting : Submitting' = Submitting \ {c}
               /\ total' = total + 1
<1>0. /\ tx \in [TxIds -> InMap \cup {"unused", "removed"}]
      /\ call \in [Callers -> [op : {"none", "add", "remove", "submit"},
                               node : Nodes \cup {NoNode}, shard : Shards]]
  BY DEF TypeOK
<1>1. ASSUME UNCHANGED crossShard,
             \/ UNCHANGED call
             \/ \E c \in Callers, r \in [op : {"none", "add", "remove"},
                                         node : Nodes \cup {NoNode}, shard : Shards] :
                  call[c].op # "submit" /\ call' = [call EXCEPT ![c] = r]
      PROVE  /\ Removed' = Removed /\ successful' = successful
             /\ Pending' = Pending /\ total' = total /\ Submitting' = Submitting
  BY <1>0, <1>1 DEF crossShard, Removed, Pending, Submitting
<1>2. ASSUME NEW c \in Callers, NEW x \in TxIds, Submit(c, x)
      PROVE  /\ Removed' = Removed /\ successful' = successful
             /\ Pending' = Pending \cup {x} /\ total' = total
             /\ c \notin Submitting /\ Submitting' = Submitting \cup {c}
  BY <1>0, <1>2 DEF Submit, IdleCall, Removed, Pending, Submitting, InMap
<1>3. ASSUME NEW c \in Callers, CountSubmitted(c)
      PROVE  /\ Removed' = Removed /\ successful' = successful
             /\ Pending' = Pending /\ total' = total + 1
             /\ c \in Submitting /\ Submitting' = Submitting \ {c}
  BY <1>0, <1>3 DEF CountSubmitted, IdleCall, Removed, Pending, Submitting
<1>4. ASSUME NEW ps \in SUBSET Peers, NEW q \in Orders(ps), Start(q)
      PROVE  UNCHANGED crossShard /\ UNCHANGED call
  BY <1>4 DEF Start
<1>5. ASSUME NEW c \in Callers, NEW p \in Pairs,
             AddToShard(c, p[1], p[2]) \/ RemoveFromShard(c, p[1], p[2])
      PROVE  /\ UNCHANGED crossShard /\ call[c].op # "submit"
             /\ \E r \in [op : {"none", "add", "remove"},
                          node : Nodes \cup {NoNode}, shard : Shards] :
                  call' = [call EXCEPT ![c] = r]
  <2>1. p[1] \in Nodes /\ p[2] \in Shards
    BY ShardingAssumption
  <2>2. UNCHANGED crossShard /\ call[c].op # "submit"
    BY <1>5 DEF AddToShard, RemoveFromShard, IdleCall
  <2>3. PICK o \in {"add", "remove"} :
          call' = [call EXCEPT ![c] = [op |-> o, node |-> p[1], shard |-> p[2]]]
    BY <1>5 DEF AddToShard, RemoveFromShard
  <2>4. [op |-> o, node |-> p[1], shard |-> p[2]]
          \in [op : {"none", "add", "remove"}, node : Nodes \cup {NoNode}, shard : Shards]
    BY <2>1
  <2>5. QED
    BY <2>2, <2>3, <2>4
<1>6. ASSUME NEW c \in Callers, AddToNode(c) \/ RemoveFromNode(c)
      PROVE  /\ UNCHANGED crossShard /\ call[c].op # "submit"
             /\ \E r \in [op : {"none", "add", "remove"},
                          node : Nodes \cup {NoNode}, shard : Shards] :
                  call' = [call EXCEPT ![c] = r]
  <2>1. IdleCall \in [op : {"none"}, node : {NoNode}, shard : Shards]
    BY ShardingAssumption DEF IdleCall, Shards
  <2>2. QED
    BY <1>6, <2>1 DEF AddToNode, RemoveFromNode
<1>7. QED
  BY <1>1, <1>2, <1>3, <1>4, <1>5, <1>6 DEF Next, Stop

LEMMA CountsHold == Spec => [](SuccessIsCounted /\ TotalCoversPending)
<1> DEFINE Counts == SuccessIsCounted /\ TotalCoversPending
<1>1. Init => Counts
  <2>1. SUFFICES ASSUME Init PROVE Counts
    OBVIOUS
  <2>2. Removed = {} /\ Pending = {} /\ Submitting = {}
    BY <2>1 DEF Init, Removed, Pending, Submitting, IdleCall, InMap
  <2>3. QED
    <3>1. successful = 0 /\ total = 0 /\ Cardinality({}) = 0
      BY <2>1, FS_EmptySet DEF Init
    <3>2. Cardinality(Removed) = 0 /\ Cardinality(Pending) = 0 /\ Cardinality(Submitting) = 0
      BY <2>2, <3>1, Zenon
    <3>3. QED
      BY <3>1, <3>2 DEF SuccessIsCounted, TotalCoversPending, Removed, Submitting
<1>2. TypeOK /\ Counts /\ [Next]_vars => Counts'
  <2>1. SUFFICES ASSUME TypeOK, Counts, [Next]_vars PROVE Counts'
    OBVIOUS
  <2>2. /\ successful = Cardinality(Removed) /\ successful \in Nat /\ total \in Nat
        /\ Cardinality(Pending) <= total + Cardinality(Submitting)
    BY <2>1 DEF SuccessIsCounted, TotalCoversPending, Removed, Submitting, TypeOK
  <2>3. SUFFICES /\ successful' = Cardinality(Removed')
                 /\ Cardinality(Pending') <= total' + Cardinality(Submitting')
    BY DEF SuccessIsCounted, TotalCoversPending, Removed, Submitting
  <2>4. CASE UNCHANGED vars
    BY <2>2, <2>4 DEF vars, crossShard, Removed, Submitting, Pending
  <2>5. CASE Round
    <3>1. Cardinality(Removed \cup Completing) = successful + Cardinality(Completing)
      <4>1. Cardinality(Removed \cup Completing)
              = Cardinality(Removed) + Cardinality(Completing) - Cardinality(Removed \cap Completing)
        BY CountsFinite, FS_Union
      <4>2. Cardinality(Removed \cap Completing) = 0
        BY <2>1, <2>5, RoundMoves, FS_EmptySet, Zenon
      <4>3. QED
        BY <2>2, <4>1, <4>2, PendingFinite
    <3>2. Cardinality(Removed') = Cardinality(Removed \cup Completing)
      BY <2>1, <2>5, RoundMoves, Zenon
    <3>3. Cardinality(Pending') = Cardinality(Pending \ Completing)
      BY <2>1, <2>5, RoundMoves, Zenon
    <3>4. Cardinality(Submitting') = Cardinality(Submitting)
      BY <2>1, <2>5, RoundMoves, Zenon
    <3>5. successful' = successful + Cardinality(Completing)
          /\ total' = Cardinality(Pending \ Completing)
      BY <2>5 DEF Round
    <3>6. Cardinality(Pending \ Completing) \in Nat /\ Cardinality(Submitting) \in Nat
      BY CountsFinite, PendingFinite
    <3>7. QED
      BY <3>1, <3>2, <3>3, <3>4, <3>5, <3>6
  <2>6. CASE Next /\ ~Round
    <3>1. successful' = Cardinality(Removed')
      BY <2>1, <2>2, <2>6, CallMoves
    <3>2. CASE Pending' = Pending /\ total' = total /\ Submitting' = Submitting
      BY <2>2, <3>1, <3>2
    <3>3. ASSUME NEW x \in TxIds, NEW c \in Callers \ Submitting, total' = total,
                 Pending' = Pending \cup {x}, Submitting' = Submitting \cup {c}
          PROVE  Cardinality(Pending') <= total' + Cardinality(Submitting')
      <4>1. Cardinality(Pending') = Cardinality(Pending \cup {x})
            /\ Cardinality(Submitting') = Cardinality(Submitting \cup {c})
        BY <3>3, Zenon
      <4>2. Cardinality(Pending \cup {x}) <= Cardinality(Pending) + 1
        <5>1. \/ Cardinality(Pending \cup {x}) = Cardinality(Pending)
              \/ Cardinality(Pending \cup {x}) = Cardinality(Pending) + 1
          BY CountsFinite, FS_AddElement, Zenon
        <5>2. QED
          BY <5>1, CountsFinite
      <4>3. Cardinality(Submitting \cup {c}) = Cardinality(Submitting) + 1
        BY CountsFinite, FS_AddElement
      <4>4. Cardinality(Pending) \in Nat /\ Cardinality(Submitting) \in Nat
            /\ Cardinality(Pending \cup {x}) \in Nat
        <5>1. IsFiniteSet(Pending \cup {x})
          BY CountsFinite, FS_AddElement
        <5>2. QED
          BY <5>1, CountsFinite, FS_CardinalityType
      <4>5. QED
        BY <2>2, <3>3, <4>1, <4>2, <4>3, <4>4
    <3>4. ASSUME NEW c \in Submitting, total' = total + 1,
                 Pending' = Pending, Submitting' = Submitting \ {c}
          PROVE  Cardinality(Pending') <= total' + Cardinality(Submitting')
      <4>1. Cardinality(Pending') = Cardinality(Pending)
            /\ Cardinality(Submitting') = Cardinality(Submitting \ {c})
        BY <3>4, Zenon
      <4>2. Cardinality(Submitting \ {c}) = Cardinality(Submitting) - 1
        BY CountsFinite, FS_RemoveElement
      <4>3. QED
        BY <2>2, <3>4, <4>1, <4>2, CountsFinite
    <3>5. QED
      BY <2>1, <2>6, <3>1, <3>2, <3>3, <3>4, CallMoves
  <2>7. QED
    BY <2>1, <2>4, <2>5, <2>6
<1>3. QED
  BY <1>1, <1>2, TypeCorrect, PTL DEF Spec

\* Every transaction that left the map was counted as successful once, however
\* many loops process them.
THEOREM SuccessIsCountedHolds == Spec => []SuccessIsCounted
BY CountsHold, PTL

\* The total misses no pending transaction but those whose submission has yet
\* to add its own.
THEOREM TotalCoversPendingHolds == Spec => []TotalCoversPending
BY CountsHold, PTL
=============================================================================
