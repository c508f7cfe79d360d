---------------------------- MODULE GossipProofs ----------------------------
(***************************************************************************)
(* Proofs about Gossip, for any network, number of messages, fan-out, hop  *)
(* and cache limits.                                                       *)
(*                                                                         *)
(* Outside the excused pairs, a node that has processed a message still    *)
(* has its id in the cache (Remembered), and a copy it has found unseen is *)
(* the only one there and the first (FirstCopy).                           *)
(***************************************************************************)
EXTENDS Gossip, TLAPS

Excused(n, i) == <<n, i>> \in excused

Remembered ==
  \A n \in Nodes, i \in Ids : processed[n][i] > 0 /\ ~Excused(n, i) => Seen(n, i)

FirstCopy ==
  \A c \in handling : ~Excused(c.to, c.id) =>
    processed[c.to][c.id] = 0 /\ \A d \in handling : d.to = c.to /\ d.id = c.id => d = c

\* Only copies below the limit are found valid.
Forwarded == \A c \in handling : c.hop < MaxTtl

IInv == TypeOK /\ Remembered /\ FirstCopy /\ ProcessedOnce /\ Forwarded

----------------------------------------------------------------------------
(* The cache.                                                              *)

LEMMA NewestOf ==
  ASSUME NEW q \in Seq(Ids), NEW k \in Nat, k <= Len(q)
  PROVE  /\ Newest(q, k) \in Seq(Ids) /\ Len(Newest(q, k)) = k
         /\ k # 0 => Newest(q, k)[k] = q[Len(q)]
<1>1. Len(q) \in Nat /\ Len(q) - k + 1 \in 1..(Len(q) + 1)
  OBVIOUS
<1>2. Newest(q, k) \in Seq(Ids) /\ Len(Newest(q, k)) = k
  BY <1>1 DEF Newest
<1>3. ASSUME k # 0 PROVE Newest(q, k)[k] = q[Len(q)]
  <2>1. Newest(q, k)[k] = q[(Len(q) - k + 1) + k - 1]
    BY <1>1, <1>3 DEF Newest
  <2>2. QED
    BY <1>1, <2>1
<1>4. QED
  BY <1>2, <1>3

LEMMA WithoutOf ==
  ASSUME NEW q \in Seq(Ids), NEW i \in Ids
  PROVE  Without(q, i) \in Seq(Ids)
<1>1. CASE Contains(q, i)
  <2>1. PICK k \in DOMAIN q : k = CHOOSE j \in DOMAIN q : q[j] = i
    BY <1>1 DEF Contains
  <2>2. k \in 1..Len(q)
    OBVIOUS
  <2>3. SubSeq(q, 1, k - 1) \in Seq(Ids) /\ SubSeq(q, k + 1, Len(q)) \in Seq(Ids)
    BY <2>2
  <2>4. RemoveAt(q, k) \in Seq(Ids)
    BY <2>3 DEF RemoveAt
  <2>5. QED
    BY <1>1, <2>1, <2>4 DEF Without
<1>2. QED
  BY <1>1 DEF Without

\* An insertion leaves the id in the cache, whatever the limit drops.
LEMMA InsertedOf ==
  ASSUME NEW q \in Seq(Ids), NEW i \in Ids
  PROVE  Inserted(q, i) \in Seq(Ids) /\ Contains(Inserted(q, i), i)
<1> DEFINE r == Append(Without(q, i), i)
<1>1. r \in Seq(Ids) /\ Len(r) \in Nat \ {0} /\ r[Len(r)] = i
  BY WithoutOf
<1>2. CacheMax \in Nat /\ CacheKeep \in Nat \ {0} /\ CacheKeep <= CacheMax
  BY GossipAssumption
<1>0. Inserted(q, i) = IF Len(r) > CacheMax THEN Newest(r, CacheKeep) ELSE r
  BY DEF Inserted
<1> HIDE DEF r
<1>3. CASE Len(r) > CacheMax
  <2>1. CacheKeep <= Len(r)
    BY <1>1, <1>2, <1>3
  <2>2. /\ Newest(r, CacheKeep) \in Seq(Ids) /\ Len(Newest(r, CacheKeep)) = CacheKeep
        /\ Newest(r, CacheKeep)[CacheKeep] = i
    BY <1>1, <1>2, <2>1, NewestOf
  <2>3. QED
    BY <1>0, <1>2, <1>3, <2>2 DEF Contains
<1>4. CASE ~(Len(r) > CacheMax)
  BY <1>0, <1>1, <1>4 DEF Contains
<1>5. QED
  BY <1>3, <1>4
----------------------------------------------------------------------------
(* The steps.                                                              *)

\* A node's cache becomes q, and what it forgets is excused.
CacheBecomes(n, q) ==
  cache' = [cache EXCEPT ![n] = q] /\ excused' = excused \cup Forgotten(n, q)

LEMMA CacheStep ==
  ASSUME TypeOK, NEW n \in Nodes, NEW q \in Seq(Ids), CacheBecomes(n, q)
  PROVE  /\ cache' \in [Nodes -> Seq(Ids)] /\ excused' \subseteq Nodes \X Ids
         /\ excused \subseteq excused'
         /\ \A o \in Nodes, i \in Ids : Seen(o, i) /\ ~Excused(o, i)' => Seen(o, i)'
<1>1. cache \in [Nodes -> Seq(Ids)] /\ excused \subseteq Nodes \X Ids
  BY DEF TypeOK
<1>2. cache' \in [Nodes -> Seq(Ids)] /\ excused' \subseteq Nodes \X Ids /\ excused \subseteq excused'
  BY <1>1 DEF CacheBecomes, Forgotten
<1>3. ASSUME NEW o \in Nodes, NEW i \in Ids, Seen(o, i), ~Excused(o, i)'
      PROVE  Seen(o, i)'
  <2>1. CASE o = n
    <3>1. cache'[n] = q
      BY <1>1 DEF CacheBecomes
    <3>2. <<n, i>> \notin Forgotten(n, q)
      BY <1>3, <2>1 DEF Excused, CacheBecomes
    <3>3. Contains(q, i)
      BY <1>3, <2>1, <3>2 DEF Forgotten
    <3>4. QED
      BY <2>1, <3>1, <3>3 DEF Seen
  <2>2. CASE o # n
    BY <1>1, <1>3, <2>2 DEF CacheBecomes, Seen
  <2>3. QED
    BY <2>1, <2>2
<1>4. QED
  BY <1>2, <1>3

\* Nothing is processed, and no copy is found or handled.
LEMMA CacheOnlyStep ==
  ASSUME IInv, NEW n \in Nodes, NEW q \in Seq(Ids), CacheBecomes(n, q),
         UNCHANGED <<handling, processed>>
  PROVE  Remembered' /\ FirstCopy' /\ ProcessedOnce'
<1>1. /\ excused \subseteq excused'
      /\ \A o \in Nodes, i \in Ids : Seen(o, i) /\ ~Excused(o, i)' => Seen(o, i)'
  BY CacheStep DEF IInv
<1>2. \A o \in Nodes, i \in Ids : Excused(o, i) => Excused(o, i)'
  BY <1>1 DEF Excused
<1>3. Remembered'
  BY <1>1, <1>2 DEF IInv, Remembered
<1>4. FirstCopy'
  BY <1>1 DEF IInv, FirstCopy, Excused
<1>5. ProcessedOnce'
  BY <1>1 DEF IInv, ProcessedOnce
<1>6. QED
  BY <1>3, <1>4, <1>5

LEMMA FansOut ==
  ASSUME NEW n \in Nodes, NEW P \in FanOuts(n), NEW i \in Ids, NEW hop \in 1..MaxTtl
  PROVE  Copies(n, P, i, hop) \subseteq Copy
<1>1. PeersOf[n] \subseteq Nodes
  BY GossipAssumption
<1>2. P \subseteq Nodes
  BY <1>1 DEF FanOuts
<1>3. QED
  BY <1>2 DEF Copies, Copy

LEMMA PublishStep ==
  ASSUME IInv, NEW n \in Nodes, NEW i \in Ids, NEW P, Publish(n, i, P)
  PROVE  IInv'
<1>1. /\ TypeOK /\ UNCHANGED <<running, handling, processed, old>>
      /\ P \in FanOuts(n) /\ MaxTtl \in Nat \ {0}
  BY GossipAssumption DEF IInv, Publish
<1>2. PICK q \in Seq(Ids) : q = Inserted(cache[n], i)
  BY <1>1, InsertedOf DEF TypeOK
<1>3. CacheBecomes(n, q)
  <2>1. cache' = [cache EXCEPT ![n] = q] /\ cache'[n] = q
    BY <1>1, <1>2 DEF Publish, TypeOK
  <2>2. QED
    BY <2>1 DEF Publish, CacheBecomes
<1>4. net' \subseteq Copy
  <2>1. Copies(n, P, i, 1) \subseteq Copy
    BY <1>1, FansOut
  <2>2. QED
    BY <1>1, <2>1 DEF Publish, TypeOK
<1>5. TypeOK'
  <2>1. cache' \in [Nodes -> Seq(Ids)] /\ excused' \subseteq Nodes \X Ids
    BY <1>1, <1>3, CacheStep
  <2>2. origin' \in [Ids -> Nodes \cup {NotPublished}]
    BY <1>1 DEF Publish, TypeOK
  <2>3. QED
    BY <1>1, <1>4, <2>1, <2>2 DEF TypeOK
<1>6. Forwarded'
  BY <1>1 DEF IInv, Forwarded
<1>7. QED
  BY <1>1, <1>3, <1>5, <1>6, CacheOnlyStep DEF IInv

LEMMA ReceiveStep ==
  ASSUME IInv, NEW c \in net, Receive(c)
  PROVE  IInv'
<1>1. /\ TypeOK /\ UNCHANGED <<running, cache, origin, processed, old>>
      /\ net' \subseteq net /\ c \in Copy /\ c.to \in Nodes /\ c.id \in Ids
  BY DEF IInv, TypeOK, Receive, Copy
<1>0. Forwarded'
  BY DEF IInv, Forwarded, Receive, Valid
<1>2. CASE ~(~Seen(c.to, c.id) /\ Valid(c))
  <2>1. UNCHANGED <<handling, excused>>
    BY <1>2 DEF Receive
  <2>2. TypeOK' /\ Remembered' /\ FirstCopy' /\ ProcessedOnce'
    BY <1>1, <2>1 DEF IInv, TypeOK, Remembered, Excused, Seen, FirstCopy, ProcessedOnce
  <2>3. QED
    BY <1>0, <2>2 DEF IInv
<1>3. CASE ~Seen(c.to, c.id) /\ Valid(c)
  <2>1. /\ handling' = handling \cup {c} /\ excused \subseteq excused'
        /\ excused' \subseteq Nodes \X Ids
        /\ Handling(c.to, c.id) = {} \/ <<c.to, c.id>> \in excused'
    BY <1>1, <1>3 DEF Receive, TypeOK
  <2>2. TypeOK'
    BY <1>1, <2>1 DEF TypeOK
  <2>3. Remembered' /\ ProcessedOnce'
    BY <1>1, <2>1 DEF IInv, Remembered, Excused, Seen, ProcessedOnce
  <2>4. FirstCopy'
    <3> SUFFICES ASSUME NEW d \in handling', ~Excused(d.to, d.id)'
                 PROVE  /\ processed[d.to][d.id] = 0
                        /\ \A e \in handling' : e.to = d.to /\ e.id = d.id => e = d
      BY <1>1 DEF FirstCopy
    <3>1. <<d.to, d.id>> \notin excused /\ <<d.to, d.id>> \notin excused'
      BY <2>1 DEF Excused
    <3>2. CASE d.to = c.to /\ d.id = c.id
      <4>1. \A e \in handling : ~(e.to = c.to /\ e.id = c.id)
        BY <2>1, <3>1, <3>2 DEF Handling
      <4>2. processed[c.to][c.id] = 0
        <5>1. ~(processed[c.to][c.id] > 0)
          BY <1>1, <1>3, <3>1, <3>2 DEF IInv, Remembered, Excused
        <5>2. processed[c.to][c.id] \in 0..2
          BY <1>1 DEF TypeOK
        <5>3. QED
          BY <5>1, <5>2
      <4>3. QED
        BY <2>1, <3>2, <4>1, <4>2
    <3>3. CASE ~(d.to = c.to /\ d.id = c.id)
      BY <2>1, <3>1, <3>3 DEF IInv, FirstCopy, Excused
    <3>4. QED
      BY <3>2, <3>3
  <2>5. QED
    BY <1>0, <2>2, <2>3, <2>4 DEF IInv
<1>4. QED
  BY <1>2, <1>3
LEMMA HandleStep ==
  ASSUME IInv, NEW c \in handling, NEW P, Handle(c, P)
  PROVE  IInv'
<1> DEFINE n == c.to
           i == c.id
<1>1. /\ TypeOK /\ UNCHANGED <<running, origin, old>>
      /\ c \in Copy /\ n \in Nodes /\ i \in Ids /\ handling' = handling \ {c}
      /\ P \in FanOuts(n)
  BY DEF IInv, TypeOK, Handle, Copy
<1>2. PICK q \in Seq(Ids) : q = Inserted(cache[n], i) /\ Contains(q, i)
  BY <1>1, InsertedOf DEF TypeOK
<1>3. CacheBecomes(n, q) /\ cache'[n] = q
  <2>1. cache' = [cache EXCEPT ![n] = q] /\ cache'[n] = q
    BY <1>1, <1>2 DEF Handle, Cached, TypeOK
  <2>2. QED
    BY <2>1 DEF Handle, CacheBecomes
<1>4. /\ cache' \in [Nodes -> Seq(Ids)] /\ excused' \subseteq Nodes \X Ids
      /\ excused \subseteq excused'
      /\ \A o \in Nodes, j \in Ids : Seen(o, j) /\ ~Excused(o, j)' => Seen(o, j)'
  BY <1>1, <1>3, CacheStep
<1>5. /\ processed' \in [Nodes -> [Ids -> 0..2]]
      /\ processed'[n][i] = IF processed[n][i] = 2 THEN 2 ELSE processed[n][i] + 1
      /\ \A o \in Nodes, j \in Ids : ~(o = n /\ j = i) => processed'[o][j] = processed[o][j]
  <2>1. processed \in [Nodes -> [Ids -> 0..2]] /\ processed[n] \in [Ids -> 0..2]
        /\ processed[n][i] \in 0..2
    BY <1>1 DEF TypeOK
  <2>2. PICK k \in 0..2 : k = IF processed[n][i] = 2 THEN 2 ELSE processed[n][i] + 1
    BY <2>1
  <2>3. PICK f \in [Ids -> 0..2] : f = [processed[n] EXCEPT ![i] = k]
    BY <2>1, <2>2
  <2>4. processed' = [processed EXCEPT ![n] = f]
    BY <2>2, <2>3 DEF Handle
  <2>5. QED
    BY <1>1, <2>1, <2>2, <2>3, <2>4
<1>6. TypeOK'
  <2>1. Copies(n, P, i, NextHop(c)) \subseteq Copy \/ ~(c.hop < MaxTtl)
    <3>1. ASSUME c.hop < MaxTtl PROVE NextHop(c) \in 1..MaxTtl
      BY <1>1, <3>1, GossipAssumption DEF Copy, NextHop
    <3>2. QED
      BY <1>1, <3>1, FansOut
  <2>2. c.hop < MaxTtl
    BY DEF IInv, Forwarded
  <2>3. net' \subseteq Copy
    BY <1>1, <2>1, <2>2 DEF Handle, TypeOK
  <2>4. QED
    BY <1>1, <1>4, <1>5, <2>3 DEF TypeOK
<1>7. Forwarded'
  BY <1>1 DEF IInv, Forwarded
<1>8. Remembered'
  <2> SUFFICES ASSUME NEW o \in Nodes, NEW j \in Ids, processed'[o][j] > 0, ~Excused(o, j)'
               PROVE  Seen(o, j)'
    BY DEF Remembered
  <2>1. CASE o = n /\ j = i
    BY <1>2, <1>3, <2>1 DEF Seen
  <2>2. CASE ~(o = n /\ j = i)
    <3>1. processed[o][j] > 0 /\ ~Excused(o, j)
      BY <1>4, <1>5, <2>2 DEF Excused
    <3>2. Seen(o, j)
      BY <3>1 DEF IInv, Remembered
    <3>3. QED
      BY <1>4, <3>2
  <2>3. QED
    BY <2>1, <2>2
<1>9. FirstCopy'
  <2> SUFFICES ASSUME NEW d \in handling', ~Excused(d.to, d.id)'
               PROVE  /\ processed'[d.to][d.id] = 0
                      /\ \A e \in handling' : e.to = d.to /\ e.id = d.id => e = d
    BY DEF FirstCopy
  <2>1. d \in handling /\ d # c /\ d.to \in Nodes /\ d.id \in Ids /\ <<d.to, d.id>> \notin excused
    BY <1>1, <1>4 DEF TypeOK, Copy, Excused
  <2>2. /\ processed[d.to][d.id] = 0
        /\ \A e \in handling : e.to = d.to /\ e.id = d.id => e = d
    BY <2>1 DEF IInv, FirstCopy, Excused
  <2>3. ~(d.to = n /\ d.id = i)
    BY <2>1, <2>2
  <2>4. QED
    BY <1>1, <1>5, <2>1, <2>2, <2>3
<1>10. ProcessedOnce'
  <2> SUFFICES ASSUME NEW o \in Nodes, NEW j \in Ids, processed'[o][j] > 1
               PROVE  <<o, j>> \in excused'
    BY DEF ProcessedOnce
  <2>1. CASE o = n /\ j = i
    <3>1. processed[n][i] # 0
      BY <1>5, <2>1
    <3>2. Excused(n, i)
      BY <3>1 DEF IInv, FirstCopy
    <3>3. QED
      BY <1>4, <2>1, <3>2 DEF Excused
  <2>2. CASE ~(o = n /\ j = i)
    BY <1>4, <1>5, <2>2 DEF IInv, ProcessedOnce
  <2>3. QED
    BY <2>1, <2>2
<1>11. QED
  BY <1>6, <1>7, <1>8, <1>9, <1>10 DEF IInv

\* A clean-up, or a stop, which keeps none.
LEMMA DropStep ==
  ASSUME IInv, NEW n \in Nodes,
         (\E k \in 1..Len(cache[n]) : CleanUp(n, k)) \/ Stop(n)
  PROVE  IInv'
<1>1. /\ TypeOK /\ UNCHANGED <<net, handling, origin, processed, old>>
      /\ cache[n] \in Seq(Ids) /\ running' \subseteq running
  BY DEF IInv, TypeOK, CleanUp, Stop
<1>2. \E q \in Seq(Ids) : CacheBecomes(n, q)
  <2>1. CASE Stop(n)
    <3>1. <<>> \in Seq(Ids)
      OBVIOUS
    <3>2. QED
      BY <2>1, <3>1 DEF Stop, CacheBecomes
  <2>2. ASSUME NEW k \in 1..Len(cache[n]), CleanUp(n, k)
        PROVE  \E q \in Seq(Ids) : CacheBecomes(n, q)
    <3>1. PICK q : q = Newest(cache[n], Len(cache[n]) - k)
      OBVIOUS
    <3>2. Len(cache[n]) - k \in Nat /\ Len(cache[n]) - k <= Len(cache[n])
      BY <1>1
    <3>3. q \in Seq(Ids)
      BY <1>1, <3>1, <3>2, NewestOf
    <3>4. cache' = [cache EXCEPT ![n] = q] /\ cache'[n] = q
      BY <1>1, <2>2, <3>1 DEF CleanUp, TypeOK
    <3>5. QED
      BY <2>2, <3>3, <3>4 DEF CleanUp, CacheBecomes
  <2>3. QED
    BY <2>1, <2>2
<1>3. PICK q \in Seq(Ids) : CacheBecomes(n, q)
  BY <1>2
<1>4. TypeOK'
  BY <1>1, <1>3, CacheStep DEF TypeOK
<1>5. Remembered' /\ FirstCopy' /\ ProcessedOnce'
  BY <1>1, <1>3, CacheOnlyStep
<1>6. Forwarded'
  BY <1>1 DEF IInv, Forwarded
<1>7. QED
  BY <1>4, <1>5, <1>6 DEF IInv

LEMMA OtherStep ==
  ASSUME IInv, UNCHANGED <<cache, net, handling, origin, processed, excused>>,
         running' \subseteq Nodes, old' \subseteq Ids
  PROVE  IInv'
BY DEF IInv, TypeOK, Remembered, FirstCopy, ProcessedOnce, Forwarded, Excused, Seen

----------------------------------------------------------------------------
(* The invariant and what follows from it.                                 *)

LEMMA InitIInv == Init => IInv
<1> SUFFICES ASSUME Init PROVE IInv
  OBVIOUS
<1>1. TypeOK
  <2>1. <<>> \in Seq(Ids)
    OBVIOUS
  <2>2. QED
    BY <2>1 DEF Init, TypeOK
<1>2. Remembered /\ FirstCopy /\ ProcessedOnce /\ Forwarded
  BY DEF Init, Remembered, FirstCopy, ProcessedOnce, Forwarded
<1>3. QED
  BY <1>1, <1>2 DEF IInv

LEMMA NextIInv == IInv /\ [Next]_vars => IInv'
<1> SUFFICES ASSUME IInv, [Next]_vars PROVE IInv'
  OBVIOUS
<1>1. /\ running \subseteq Nodes /\ old \subseteq Ids
  BY DEF IInv, TypeOK
<1>2. ASSUME NEW n \in Nodes, Start(n) PROVE IInv'
  BY <1>1, <1>2, OtherStep DEF Start
<1>3. ASSUME NEW i \in Ids, GrowOld(i) PROVE IInv'
  BY <1>1, <1>3, OtherStep DEF GrowOld
<1>4. CASE UNCHANGED vars
  BY <1>1, <1>4, OtherStep DEF vars
<1>5. QED
  BY <1>2, <1>3, <1>4, PublishStep, ReceiveStep, HandleStep, DropStep DEF Next, Arrive, Work

\* The invariant holds in every reachable state.
THEOREM Invariance == Spec => []IInv
BY InitIInv, NextIInv, PTL DEF Spec

\* The variables keep their types: no copy counts more hops than the limit.
THEOREM TypeCorrect == Spec => []TypeOK
<1>1. IInv => TypeOK
  BY DEF IInv
<1>2. QED
  BY <1>1, Invariance, PTL

\* handle_message processes an id once, but for the two ways its cache allows.
THEOREM ProcessedOnceHolds == Spec => []ProcessedOnce
<1>1. IInv => ProcessedOnce
  BY DEF IInv
<1>2. QED
  BY <1>1, Invariance, PTL

----------------------------------------------------------------------------
(* Ways over the peers' lists: a handled copy is sent one peer further.    *)

LEMMA PathStarts ==
  ASSUME NEW m, NEW n, NEW h \in Nat, Path(m, n, h)
  PROVE  m \in Nodes
BY DEF Path

LEMMA PathOfOne ==
  ASSUME NEW m \in Nodes, NEW n \in PeersOf[m]
  PROVE  Path(m, n, 1)
<1>1. n \in Nodes
  BY GossipAssumption
<1>2. PICK p \in [0..1 -> Nodes] : p = [k \in 0..1 |-> IF k = 0 THEN m ELSE n]
  BY <1>1
<1>3. p[0] = m /\ p[1] = n /\ \A k \in 1..1 : p[k] \in PeersOf[p[k - 1]]
  BY <1>2
<1>4. QED
  BY <1>3 DEF Path

LEMMA PathExtends ==
  ASSUME NEW o, NEW m, NEW h \in Nat, Path(o, m, h), NEW n \in PeersOf[m]
  PROVE  Path(o, n, h + 1)
<1>1. PICK p \in [0..h -> Nodes] :
        p[0] = o /\ p[h] = m /\ \A k \in 1..h : p[k] \in PeersOf[p[k - 1]]
  BY DEF Path
<1>2. n \in Nodes
  <2>1. m \in Nodes
    BY <1>1
  <2>2. QED
    BY <2>1, GossipAssumption
<1>3. PICK r : r = [k \in 0..(h + 1) |-> IF k <= h THEN p[k] ELSE n]
  OBVIOUS
<1>4. r \in [0..(h + 1) -> Nodes]
  BY <1>1, <1>2, <1>3
<1>5. r[0] = o /\ r[h + 1] = n
  BY <1>1, <1>3
<1>6. ASSUME NEW k \in 1..(h + 1) PROVE r[k] \in PeersOf[r[k - 1]]
  <2>1. CASE k \in 1..h
    <3>1. r[k] = p[k] /\ r[k - 1] = p[k - 1]
      BY <1>3, <2>1
    <3>2. QED
      BY <1>1, <2>1, <3>1
  <2>2. CASE k = h + 1
    <3>1. r[k] = n /\ r[k - 1] = m
      BY <1>1, <1>3, <2>2
    <3>2. QED
      BY <3>1
  <2>3. QED
    BY <2>1, <2>2
<1>7. QED
  BY <1>4, <1>5, <1>6 DEF Path

\* The copies that a node sends go to its peers.
LEMMA CopiesGoToPeers ==
  ASSUME NEW n \in Nodes, NEW P \in FanOuts(n), NEW i, NEW hop, NEW d \in Copies(n, P, i, hop)
  PROVE  d.to \in PeersOf[n] /\ d.id = i /\ d.hop = hop
BY DEF Copies, FanOuts

LEMMA PublishSpreads ==
  ASSUME IInv, SpreadsAlongPaths, NEW n \in Nodes, NEW i \in Ids, NEW P, Publish(n, i, P)
  PROVE  SpreadsAlongPaths'
<1>1. /\ net \subseteq Copy /\ handling \subseteq Copy /\ origin \in [Ids -> Nodes \cup {NotPublished}]
      /\ origin[i] = NotPublished /\ origin' = [origin EXCEPT ![i] = n]
      /\ P \in FanOuts(n) /\ net' = net \cup Copies(n, P, i, 1)
      /\ UNCHANGED <<handling, processed>>
  BY DEF IInv, TypeOK, Publish
<1>2. ~(\E m, h : h \in Nat /\ Path(origin[i], m, h))
  BY <1>1, PathStarts, NobodyAssumption
<1>3. ASSUME NEW c \in net' \cup handling' PROVE Path(origin'[c.id], c.to, c.hop)
  <2>1. CASE c \in net \cup handling
    <3>1. c.id \in Ids /\ c.hop \in Nat /\ Path(origin[c.id], c.to, c.hop)
      BY <1>1, <2>1 DEF Copy, SpreadsAlongPaths
    <3>2. QED
      BY <1>1, <1>2, <3>1
  <2>2. CASE c \in Copies(n, P, i, 1)
    BY <1>1, <2>2, CopiesGoToPeers, PathOfOne
  <2>3. QED
    BY <1>1, <1>3, <2>1, <2>2
<1>4. ASSUME NEW m \in Nodes, NEW j \in Ids, processed[m][j] > 0
      PROVE  \E h \in 1..(MaxTtl - 1) : Path(origin'[j], m, h)
  <2>1. PICK h \in 1..(MaxTtl - 1) : Path(origin[j], m, h)
    BY <1>4 DEF SpreadsAlongPaths
  <2>2. h \in Nat
    BY GossipAssumption
  <2>3. j # i
    BY <1>2, <2>1, <2>2
  <2>4. QED
    BY <1>1, <2>1, <2>3
<1>5. QED
  BY <1>1, <1>3, <1>4 DEF SpreadsAlongPaths

LEMMA HandleSpreads ==
  ASSUME IInv, SpreadsAlongPaths, NEW c \in handling, NEW P, Handle(c, P)
  PROVE  SpreadsAlongPaths'
<1>1. /\ c \in Copy /\ c.to \in Nodes /\ c.id \in Ids /\ c.hop \in 1..MaxTtl
      /\ c.hop < MaxTtl /\ MaxTtl \in Nat
      /\ origin' = origin /\ handling' \subseteq handling
      /\ P \in FanOuts(c.to) /\ net' = net \cup Copies(c.to, P, c.id, c.hop + 1)
      /\ processed \in [Nodes -> [Ids -> 0..2]]
      /\ processed' = [processed EXCEPT ![c.to][c.id] = IF @ = 2 THEN 2 ELSE @ + 1]
  BY GossipAssumption DEF IInv, TypeOK, Forwarded, Handle, NextHop, Copy
<1>2. Path(origin[c.id], c.to, c.hop)
  BY DEF SpreadsAlongPaths
<1>3. ASSUME NEW d \in net' \cup handling' PROVE Path(origin[d.id], d.to, d.hop)
  <2>1. CASE d \in net \cup handling
    BY <2>1 DEF SpreadsAlongPaths
  <2>2. CASE d \in Copies(c.to, P, c.id, c.hop + 1)
    <3>1. d.to \in PeersOf[c.to] /\ d.id = c.id /\ d.hop = c.hop + 1
      BY <1>1, <2>2, CopiesGoToPeers
    <3>2. QED
      BY <1>1, <1>2, <3>1, PathExtends
  <2>3. QED
    BY <1>1, <1>3, <2>1, <2>2
<1>4. ASSUME NEW m \in Nodes, NEW j \in Ids, processed'[m][j] > 0
      PROVE  \E h \in 1..(MaxTtl - 1) : Path(origin[j], m, h)
  <2>1. CASE m = c.to /\ j = c.id
    <3>1. c.hop \in 1..(MaxTtl - 1)
      BY <1>1
    <3>2. QED
      BY <1>2, <2>1, <3>1
  <2>2. CASE ~(m = c.to /\ j = c.id)
    <3>1. processed'[m][j] = processed[m][j]
      BY <1>1, <2>2
    <3>2. QED
      BY <1>4, <3>1 DEF SpreadsAlongPaths
  <2>3. QED
    BY <2>1, <2>2
<1>5. QED
  BY <1>1, <1>3, <1>4 DEF SpreadsAlongPaths

\* A copy is moved or dropped, or nothing of the kind happens.
LEMMA OthersSpreadNothing ==
  ASSUME SpreadsAlongPaths, UNCHANGED <<origin, processed>>,
         net' \cup handling' \subseteq net \cup handling
  PROVE  SpreadsAlongPaths'
<1>1. \A c \in net' \cup handling' : Path(origin[c.id], c.to, c.hop)
  BY DEF SpreadsAlongPaths
<1>2. QED
  BY <1>1 DEF SpreadsAlongPaths

LEMMA NextSpreads == IInv /\ SpreadsAlongPaths /\ [Next]_vars => SpreadsAlongPaths'
<1> SUFFICES ASSUME IInv, SpreadsAlongPaths, [Next]_vars PROVE SpreadsAlongPaths'
  OBVIOUS
<1>1. ASSUME NEW c \in net, Receive(c) PROVE SpreadsAlongPaths'
  BY <1>1, OthersSpreadNothing DEF Receive
<1>2. ASSUME NEW n \in Nodes, (\E k \in 1..Len(cache[n]) : CleanUp(n, k)) \/ Stop(n) \/ Start(n)
      PROVE  SpreadsAlongPaths'
  BY <1>2, OthersSpreadNothing DEF CleanUp, Stop, Start
<1>3. ASSUME NEW i \in Ids, GrowOld(i) PROVE SpreadsAlongPaths'
  BY <1>3, OthersSpreadNothing DEF GrowOld
<1>4. CASE UNCHANGED vars
  BY <1>4, OthersSpreadNothing DEF vars
<1>5. QED
  BY <1>1, <1>2, <1>3, <1>4, PublishSpreads, HandleSpreads DEF Next, Arrive, Work

\* The hop count is the length of a way over the peers' lists, and a message is
\* processed only nearer to its publisher than the ttl.
THEOREM SpreadsAlongPathsHolds == Spec => []SpreadsAlongPaths
<1>1. Init => SpreadsAlongPaths
  BY DEF Init, SpreadsAlongPaths
<1>2. QED
  BY <1>1, NextSpreads, Invariance, PTL DEF Spec
=============================================================================
