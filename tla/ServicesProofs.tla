--------------------------- MODULE ServicesProofs ---------------------------
(***************************************************************************)
(* Proofs about the services that share no state, for any sizes and bounds *)
(* that ServicesAssumption allows: what a look-up in the DHT returns, when *)
(* QUIC drops a connection, and which discovery tasks a stop reaches.      *)
(* (GossipProofs is about gossip.)                                         *)
(*                                                                         *)
(* The DHT: every peer of the table is in the bucket of its distance, once *)
(* (BucketOK).  A look-up meets a bucket twice only when the places below  *)
(* the target's run into bucket 0, and a finite choice among candidates    *)
(* always has a closest, so a ranking of any length exists.                *)
(*                                                                         *)
(* QUIC: between checks every connection in the map has just been          *)
(* refreshed or admitted; while a check is held up, no connection has been *)
(* idle for more than one period above those of the check (OnTime).        *)
(*                                                                         *)
(* Discovery: the sender of a task that has registered is in the service   *)
(* or its signal is ready, whichever task replaced it or stop used it      *)
(* (WithinReach).                                                          *)
(***************************************************************************)
EXTENDS Services, FiniteSetTheorems, WellFoundedInduction, TLAPS

----------------------------------------------------------------------------
(* Least elements and images.                                              *)

LEMMA FiniteMin ==
  ASSUME NEW U, NEW T, T \subseteq FiniteSubsetsOf(U), T # {}
  PROVE  \E V \in T : \A W \in T : W \subseteq V => W = V
<1>1. IsWellFoundedOn(StrictSubsetOrdering(U), FiniteSubsetsOf(U))
  BY FS_StrictSubsetOrderingWellFounded
<1>2. PICK V \in T : \A W \in T : ~(<<W, V>> \in StrictSubsetOrdering(U))
  BY <1>1, WFMin
<1>3. QED
  BY <1>2 DEF StrictSubsetOrdering, FiniteSubsetsOf

\* Every set of natural numbers has a least element: the interval up to it is
\* contained in no other.
LEMMA LeastNat ==
  ASSUME NEW N, N \subseteq Nat, N # {}
  PROVE  \E n \in N : \A m \in N : n <= m
<1> DEFINE T == {1..n : n \in N}
<1>1. T \subseteq FiniteSubsetsOf(Nat)
  <2> SUFFICES ASSUME NEW n \in N PROVE 1..n \in SUBSET Nat /\ IsFiniteSet(1..n)
    BY DEF FiniteSubsetsOf
  <2>1. n \in Nat /\ 1 \in Int /\ n \in Int
    OBVIOUS
  <2>2. QED
    BY <2>1, FS_Interval
<1>2. T # {}
  OBVIOUS
<1> HIDE DEF T
<1>3. PICK V \in T : \A W \in T : W \subseteq V => W = V
  BY <1>1, <1>2, FiniteMin
<1>4. PICK n \in N : V = 1..n
  BY <1>3 DEF T
<1>5. ASSUME NEW m \in N, m < n PROVE FALSE
  <2>1. m \in Nat /\ n \in Nat
    OBVIOUS
  <2>2. 1..m \in T
    BY DEF T
  <2>3. 1..m \subseteq V
    BY <1>4, <1>5, <2>1
  <2>4. 1..m = 1..n
    BY <1>3, <1>4, <2>2, <2>3
  <2>5. n \in 1..n /\ n \notin 1..m
    BY <1>5, <2>1
  <2>6. QED
    BY <2>4, <2>5
<1>6. \A m \in N : m \in Nat /\ n \in Nat
  OBVIOUS
<1>7. QED
  BY <1>5, <1>6

LEMMA ImageFinite ==
  ASSUME NEW X, IsFiniteSet(X), NEW f, DOMAIN f = X, NEW T, T = {f[x] : x \in X},
         f = [x \in X |-> f[x]]
  PROVE  IsFiniteSet(T) /\ Cardinality(T) <= Cardinality(X)
<1>1. f \in Surjection(X, T)
  BY DEF Surjection
<1>2. QED
  BY <1>1, FS_Surjection

----------------------------------------------------------------------------
(* The DHT: distances and buckets.                                         *)

\* The instance counts as this module does.
LEMMA SameCardinality == ASSUME NEW X PROVE D!Cardinality(X) = Cardinality(X)
BY DEF D!Cardinality, Cardinality

LEMMA Constants ==
  /\ WordBits \in Nat /\ WordBits >= 1 /\ BucketSize \in Nat /\ BucketSize >= 1
  /\ KeySpace \in Nat /\ KeySpace >= WordBits + 7
  /\ MaxQuality \in Nat /\ Timeout \in Nat /\ MaxLookup \in Nat /\ IdleLimit \in Nat
BY ServicesAssumption DEF D!DhtAssumption

LEMMA Distances ==
  ASSUME NEW i \in DhtIds, NEW j \in DhtIds
  PROVE  D!Distance(i, j) \in Nat /\ D!Distance(i, i) = 0
BY ServicesAssumption DEF D!DhtAssumption, D!Distance

\* A distance has a bucket, far enough from the last one.
LEMMA IndexRange ==
  ASSUME NEW i
  PROVE  /\ D!BucketIndex(i) \in Nat /\ D!BucketIndex(i) < WordBits
         /\ D!BucketIndex(i) + 7 < KeySpace
<1> DEFINE Bits == {b \in 1..(WordBits - 1) : 2^b <= D!Distance(Local, i)}
<1>1. 1 \in Int /\ WordBits - 1 \in Int /\ WordBits \in Nat
  BY Constants
<1>2. /\ IsFiniteSet(1..(WordBits - 1))
      /\ Cardinality(1..(WordBits - 1)) = IF 1 > WordBits - 1 THEN 0 ELSE WordBits - 1 - 1 + 1
  BY <1>1, FS_Interval
<1>3. Bits \in SUBSET (1..(WordBits - 1))
  OBVIOUS
<1> HIDE DEF Bits
<1>4. IsFiniteSet(Bits) /\ Cardinality(Bits) <= Cardinality(1..(WordBits - 1))
  BY <1>2, <1>3, FS_Subset
<1>5. Cardinality(Bits) \in Nat
  BY <1>4, FS_CardinalityType
<1>6. D!BucketIndex(i) = Cardinality(Bits)
  BY SameCardinality DEF D!BucketIndex, Bits
<1>7. /\ Cardinality(1..(WordBits - 1)) \in Nat
      /\ Cardinality(1..(WordBits - 1)) < WordBits
  <2>1. CASE WordBits = 1
    BY <1>2, <2>1
  <2>2. CASE WordBits # 1
    BY <1>1, <1>2, <2>2, Constants
  <2>3. QED
    BY <2>1, <2>2
<1>8. QED
  BY <1>1, <1>4, <1>5, <1>6, <1>7, Constants

\* What holds of a bucket: it is not over its size, and a peer is in the
\* bucket of its distance, once.
BucketOK(b, q) ==
  /\ q \subseteq D!Entry /\ IsFiniteSet(q) /\ Cardinality(q) <= BucketSize
  /\ \A e \in q : D!BucketIndex(e.id) = b
  /\ \A e, f \in q : e.id = f.id => e = f

LEMMA PartOK ==
  ASSUME NEW b, NEW q, BucketOK(b, q), NEW p \in SUBSET q
  PROVE  BucketOK(b, p)
<1>1. IsFiniteSet(q) /\ Cardinality(q) \in Nat /\ Cardinality(q) <= BucketSize
  BY FS_CardinalityType DEF BucketOK
<1>2. IsFiniteSet(p) /\ Cardinality(p) <= Cardinality(q)
  BY <1>1, FS_Subset
<1>3. Cardinality(p) \in Nat
  BY <1>2, FS_CardinalityType
<1>4. Cardinality(p) <= BucketSize
  BY <1>1, <1>2, <1>3, Constants
<1>5. QED
  BY <1>2, <1>4 DEF BucketOK

LEMMA EmptyOK == \A b : BucketOK(b, {})
BY FS_EmptySet, Constants DEF BucketOK

\* One more peer, in a bucket that has room for it and does not know it.
LEMMA OneMoreOK ==
  ASSUME NEW b, NEW q, BucketOK(b, q), NEW e \in D!Entry, D!BucketIndex(e.id) = b,
         \A f \in q : f.id # e.id, Cardinality(q) < BucketSize
  PROVE  BucketOK(b, q \cup {e})
<1>1. IsFiniteSet(q) /\ Cardinality(q) \in Nat
  BY FS_CardinalityType DEF BucketOK
<1>2. /\ IsFiniteSet(q \cup {e})
      /\ Cardinality(q \cup {e}) = IF e \in q THEN Cardinality(q) ELSE Cardinality(q) + 1
  BY <1>1, FS_AddElement
<1>3. Cardinality(q \cup {e}) <= BucketSize
  BY <1>1, <1>2, Constants
<1>4. QED
  BY <1>2, <1>3 DEF BucketOK

\* What one entry less leaves room for.
LEMMA OneLess ==
  ASSUME NEW b, NEW q, BucketOK(b, q), NEW f \in q
  PROVE  BucketOK(b, q \ {f}) /\ Cardinality(q \ {f}) < BucketSize
<1>1. IsFiniteSet(q) /\ Cardinality(q) \in Nat /\ Cardinality(q) <= BucketSize
  BY FS_CardinalityType DEF BucketOK
<1>2. Cardinality(q \ {f}) = Cardinality(q) - 1
  BY <1>1, FS_RemoveElement
<1>3. QED
  BY <1>1, <1>2, PartOK, Constants

LEMMA AddedOK ==
  ASSUME NEW e \in D!Entry, NEW q, BucketOK(D!BucketIndex(e.id), q),
         NEW p \in D!Added(q, e)
  PROVE  BucketOK(D!BucketIndex(e.id), p)
<1> DEFINE b == D!BucketIndex(e.id)
           known == {f \in q : f.id = e.id}
           oldest == {f \in q : \A g \in q : g.age <= f.age}
<1> HIDE DEF b
<1>1. BucketOK(b, q) /\ D!BucketIndex(e.id) = b
  BY DEF b
<1>2. \/ known # {} /\ p = (q \ known) \cup {e}
      \/ known = {} /\ Cardinality(q) < BucketSize /\ p = q \cup {e}
      \/ known = {} /\ \E f \in oldest : p = (q \ {f}) \cup {e}
  <2>1. D!Added(q, e) = IF known # {} THEN {(q \ known) \cup {e}}
                        ELSE IF Cardinality(q) < BucketSize THEN {q \cup {e}}
                        ELSE {(q \ {f}) \cup {e} : f \in oldest}
    BY SameCardinality DEF D!Added
  <2> HIDE DEF known, oldest
  <2>2. QED
    BY <2>1
<1>3. CASE known # {} /\ p = (q \ known) \cup {e}
  <2>1. PICK f \in q : f.id = e.id
    BY <1>3
  <2>2. known = {f}
    BY <1>1, <2>1 DEF BucketOK
  <2>3. BucketOK(b, q \ {f}) /\ Cardinality(q \ {f}) < BucketSize
    BY <1>1, OneLess
  <2>4. \A g \in q \ {f} : g.id # e.id
    BY <2>2
  <2>5. BucketOK(b, (q \ {f}) \cup {e})
    BY <1>1, <2>3, <2>4, OneMoreOK
  <2>6. QED
    BY <1>3, <2>2, <2>5 DEF b
<1>4. CASE known = {} /\ Cardinality(q) < BucketSize /\ p = q \cup {e}
  <2>1. \A g \in q : g.id # e.id
    BY <1>4
  <2>2. QED
    BY <1>1, <1>4, <2>1, OneMoreOK DEF b
<1>5. CASE known = {} /\ \E f \in oldest : p = (q \ {f}) \cup {e}
  <2>1. PICK f \in q : p = (q \ {f}) \cup {e}
    BY <1>5
  <2>2. BucketOK(b, q \ {f}) /\ Cardinality(q \ {f}) < BucketSize
    BY <1>1, OneLess
  <2>3. \A g \in q \ {f} : g.id # e.id
    BY <1>5
  <2>4. QED
    BY <1>1, <2>1, <2>2, <2>3, OneMoreOK DEF b
<1>6. QED
  BY <1>2, <1>3, <1>4, <1>5

LEMMA OlderEntry ==
  ASSUME NEW e \in D!Entry
  PROVE  D!Older(e) \in D!Entry /\ D!Older(e).id = e.id
<1>1. e.age \in 0..Timeout /\ Timeout \in Nat
  BY Constants DEF D!Entry
<1>2. PICK a \in 0..Timeout : a = IF e.age < Timeout THEN e.age + 1 ELSE e.age
  BY <1>1
<1>3. D!Older(e) = [e EXCEPT !.age = a]
  BY <1>2 DEF D!Older
<1>4. QED
  BY <1>2, <1>3 DEF D!Entry

LEMMA OlderOK ==
  ASSUME NEW b, NEW q, BucketOK(b, q)
  PROVE  BucketOK(b, {D!Older(e) : e \in q})
<1> DEFINE f == [e \in q |-> D!Older(e)]
           T == {D!Older(e) : e \in q}
<1>1. IsFiniteSet(q) /\ Cardinality(q) \in Nat /\ Cardinality(q) <= BucketSize
  BY FS_CardinalityType DEF BucketOK
<1>2. IsFiniteSet(T) /\ Cardinality(T) <= Cardinality(q)
  <2>1. DOMAIN f = q /\ T = {f[e] : e \in q} /\ f = [e \in q |-> f[e]]
    OBVIOUS
  <2>2. QED
    BY ONLY <1>1, <2>1, ImageFinite
<1>3. Cardinality(T) \in Nat
  BY <1>2, FS_CardinalityType
<1>4. Cardinality(T) <= BucketSize
  BY <1>1, <1>2, <1>3, Constants
<1>5. \A e \in q : e \in D!Entry /\ D!BucketIndex(e.id) = b
  BY DEF BucketOK
<1>6. \A e \in q : D!Older(e) \in D!Entry /\ D!BucketIndex(D!Older(e).id) = b
  BY <1>5, OlderEntry
<1>7. \A e, g \in q : D!Older(e).id = D!Older(g).id => D!Older(e) = D!Older(g)
  BY <1>5, OlderEntry DEF BucketOK
<1>8. QED
  BY <1>2, <1>4, <1>6, <1>7 DEF BucketOK

----------------------------------------------------------------------------
(* The DHT: the table.                                                     *)

DhtInv ==
  /\ buckets = D!NoTable \/ buckets \in [0..(KeySpace - 1) -> SUBSET D!Entry]
  /\ \A b \in DOMAIN buckets : BucketOK(b, buckets[b])

\* Each bucket of the new table is one that is in order.
LEMMA NewTable ==
  ASSUME DhtInv, NEW f,
         buckets' = [b \in DOMAIN buckets |-> f[b]],
         \A b \in DOMAIN buckets : BucketOK(b, f[b])
  PROVE  DhtInv'
<1>1. \A b \in DOMAIN buckets : f[b] \in SUBSET D!Entry
  BY DEF BucketOK
<1>2. DOMAIN buckets = {} \/ DOMAIN buckets = 0..(KeySpace - 1)
  BY DEF DhtInv, D!NoTable
<1>3. /\ DOMAIN buckets = {} => buckets' = D!NoTable
      /\ DOMAIN buckets = 0..(KeySpace - 1) => buckets' \in [0..(KeySpace - 1) -> SUBSET D!Entry]
  BY <1>1 DEF D!NoTable
<1>4. DOMAIN buckets' = DOMAIN buckets /\ \A b \in DOMAIN buckets : buckets'[b] = f[b]
  OBVIOUS
<1>5. \A b \in DOMAIN buckets' : BucketOK(b, buckets'[b])
  BY <1>4
<1>6. QED
  BY <1>2, <1>3, <1>5 DEF DhtInv, BucketOK

LEMMA InitDhtInv ==
  ASSUME D!Init
  PROVE  DhtInv
BY DEF D!Init, DhtInv, D!NoTable

LEMMA NextDhtInv ==
  ASSUME DhtInv, D!Next
  PROVE  DhtInv'
<1>1. \A b \in DOMAIN buckets : BucketOK(b, buckets[b])
  BY DEF DhtInv
<1>2. CASE D!Start
  <2>1. buckets' = [b \in 0..(KeySpace - 1) |-> {}]
    BY <1>2 DEF D!Start
  <2>2. \A b \in DOMAIN buckets' : BucketOK(b, buckets'[b])
    BY <2>1, EmptyOK
  <2>3. buckets' \in [0..(KeySpace - 1) -> SUBSET D!Entry]
    BY <2>1
  <2>4. QED
    BY <2>2, <2>3 DEF DhtInv, BucketOK
<1>3. CASE D!Stop
  BY <1>3 DEF D!Stop, DhtInv, D!NoTable, BucketOK
<1>4. ASSUME NEW e \in D!Entry, D!AddPeer(e) PROVE DhtInv'
  <2> DEFINE i == D!BucketIndex(e.id)
  <2>1. CASE i \in DOMAIN buckets
    <3>1. PICK q \in D!Added(buckets[i], e) : buckets' = [buckets EXCEPT ![i] = q]
      BY <1>4, <2>1 DEF D!AddPeer
    <3>2. BucketOK(i, q)
      BY <1>1, <2>1, AddedOK
    <3> DEFINE f == [b \in DOMAIN buckets |-> IF b = i THEN q ELSE buckets[b]]
    <3>3. buckets' = [b \in DOMAIN buckets |-> f[b]]
      BY <3>1
    <3>4. \A b \in DOMAIN buckets : BucketOK(b, f[b])
      BY <1>1, <3>2
    <3> HIDE DEF f
    <3>5. QED
      BY <3>3, <3>4, NewTable
  <2>2. CASE i \notin DOMAIN buckets
    <3>1. buckets' = buckets
      BY <1>4, <2>2 DEF D!AddPeer
    <3>2. QED
      BY <3>1 DEF DhtInv, BucketOK
  <2>3. QED
    BY <2>1, <2>2
<1>5. ASSUME NEW i \in DhtIds, D!RemovePeer(i) PROVE DhtInv'
  <2> DEFINE f == [b \in DOMAIN buckets |-> {e \in buckets[b] : e.id # i}]
  <2>1. buckets' = [b \in DOMAIN buckets |-> f[b]]
    BY <1>5 DEF D!RemovePeer
  <2>2. \A b \in DOMAIN buckets : f[b] \in SUBSET buckets[b]
    OBVIOUS
  <2> HIDE DEF f
  <2>3. \A b \in DOMAIN buckets : BucketOK(b, f[b])
    BY <1>1, <2>2, PartOK
  <2>4. QED
    BY <2>1, <2>3, NewTable
<1>6. CASE D!Maintain
  <2> DEFINE f == [b \in DOMAIN buckets |-> {e \in buckets[b] : e.age < Timeout}]
  <2>1. buckets' = [b \in DOMAIN buckets |-> f[b]]
    BY <1>6 DEF D!Maintain
  <2>2. \A b \in DOMAIN buckets : f[b] \in SUBSET buckets[b]
    OBVIOUS
  <2> HIDE DEF f
  <2>3. \A b \in DOMAIN buckets : BucketOK(b, f[b])
    BY <1>1, <2>2, PartOK
  <2>4. QED
    BY <2>1, <2>3, NewTable
<1>7. CASE D!Minute
  <2> DEFINE f == [b \in DOMAIN buckets |-> {D!Older(e) : e \in buckets[b]}]
  <2>1. buckets' = [b \in DOMAIN buckets |-> f[b]]
    BY <1>7 DEF D!Minute
  <2>2. \A b \in DOMAIN buckets : BucketOK(b, f[b])
    BY <1>1, OlderOK
  <2> HIDE DEF f
  <2>3. QED
    BY <2>1, <2>2, NewTable
<1>8. QED
  BY <1>2, <1>3, <1>4, <1>5, <1>6, <1>7 DEF D!Next

----------------------------------------------------------------------------
(* The DHT: look-ups.                                                      *)

\* The bucket at a place, counted with saturation below.
Place(b, s) == IF s >= 0 THEN b + s ELSE IF -s > b THEN 0 ELSE b + s

LEMMA AtPlace ==
  ASSUME DhtInv, NEW b \in Nat, b + 7 < KeySpace, NEW s \in (-7)..7
  PROVE  /\ D!At(b, s) # {} => /\ D!At(b, s) = D!Bucket(Place(b, s))
                               /\ s < 0 => b # 0
         /\ s = 0 => D!At(b, s) = D!Bucket(b)
<1>1. CASE s = 0
  BY <1>1 DEF D!At, D!Own, Place
<1>2. CASE s > 0
  <2>1. b + s \in 0..(KeySpace - 1)
    BY <1>2, Constants
  <2>2. (b + s) % KeySpace = b + s
    <3>1. PICK k \in Nat : k = b + s
      BY <2>1
    <3>2. k < KeySpace /\ KeySpace \in Nat
      BY <2>1, <3>1, Constants
    <3>3. k % KeySpace = k
      BY ONLY <3>2
    <3>4. QED
      BY <3>1, <3>3
  <2>3. QED
    BY <1>2, <2>2 DEF D!At, Place
<1>3. CASE s < 0
  <2>1. D!Below(b, -s) = Place(b, s)
    BY <1>3 DEF D!Below, Place
  <2>2. b = 0 => Place(b, s) = 0
    BY <1>3 DEF Place
  <2>3. D!At(b, s) = IF Place(b, s) # b THEN D!Bucket(Place(b, s)) ELSE {}
    BY <1>3, <2>1 DEF D!At
  <2>4. QED
    BY <1>3, <2>2, <2>3
<1>4. QED
  BY <1>1, <1>2, <1>3

LEMMA AtOK ==
  ASSUME DhtInv, NEW b \in Nat, b + 7 < KeySpace, NEW s \in (-7)..7
  PROVE  BucketOK(Place(b, s), D!At(b, s))
<1>1. \A p : BucketOK(p, D!Bucket(p))
  BY EmptyOK DEF DhtInv, D!Bucket
<1>2. D!At(b, s) = {} \/ D!At(b, s) = D!Bucket(Place(b, s))
  BY AtPlace
<1>3. QED
  BY <1>1, <1>2, EmptyOK

LEMMA WithinOK ==
  ASSUME DhtInv, NEW b \in Nat, b + 7 < KeySpace, NEW o \in 0..7
  PROVE  /\ IsFiniteSet(D!Within(b, o)) /\ Cardinality(D!Within(b, o)) \in Nat
         /\ \A c \in D!Within(b, o) : /\ c = <<c[1], c[2]>> /\ c[1] \in (-o)..o
                                      /\ c[2] \in D!At(b, c[1])
         /\ D!Within(b, o) = UNION {{s} \X D!At(b, s) : s \in (-o)..o}
<1> DEFINE At == [s \in (-o)..o |-> {s} \X D!At(b, s)]
           T == {At[s] : s \in (-o)..o}
<1>1. \A s \in (-o)..o : s \in (-7)..7
  OBVIOUS
<1>2. IsFiniteSet((-o)..o)
  <2>1. -o \in Int /\ o \in Int
    OBVIOUS
  <2>2. QED
    BY ONLY <2>1, FS_Interval
<1>3. IsFiniteSet(T)
  <2>1. DOMAIN At = (-o)..o /\ At = [s \in (-o)..o |-> At[s]]
    OBVIOUS
  <2> HIDE DEF At
  <2>2. QED
    BY <1>2, <2>1, ImageFinite
<1>4. \A s \in (-o)..o : IsFiniteSet(At[s])
  <2> SUFFICES ASSUME NEW s \in (-o)..o PROVE IsFiniteSet({s} \X D!At(b, s))
    OBVIOUS
  <2>1. IsFiniteSet(D!At(b, s))
    BY <1>1, AtOK DEF BucketOK
  <2>2. IsFiniteSet({s})
    BY FS_Singleton
  <2>3. QED
    BY <2>1, <2>2, FS_Product
<1>5. D!Within(b, o) = UNION T
  BY DEF D!Within
<1>6. IsFiniteSet(UNION T)
  <2>1. \A X \in T : IsFiniteSet(X)
    BY <1>4
  <2> HIDE DEF T
  <2>2. QED
    BY <1>3, <2>1, FS_UNION
<1>7. \A c \in UNION T : \E s \in (-o)..o : c \in {s} \X D!At(b, s)
  OBVIOUS
<1>8. \A c \in UNION T : c = <<c[1], c[2]>> /\ c[1] \in (-o)..o /\ c[2] \in D!At(b, c[1])
  BY <1>7
<1>9. Cardinality(D!Within(b, o)) \in Nat
  BY <1>5, <1>6, FS_CardinalityType
<1>10. D!Within(b, o) = UNION {{s} \X D!At(b, s) : s \in (-o)..o}
  BY DEF D!Within
<1> HIDE DEF T
<1>11. QED
  BY <1>5, <1>6, <1>8, <1>9, <1>10

\* The candidates: finitely many, each at a place with its bucket in order, and
\* with them the whole bucket of the target.
LEMMA CandidatesOK ==
  ASSUME DhtInv, NEW t \in DhtIds, NEW n
  PROVE  /\ IsFiniteSet(D!Candidates(t, n)) /\ Cardinality(D!Candidates(t, n)) \in Nat
         /\ \A c \in D!Candidates(t, n) :
              /\ c = <<c[1], c[2]>> /\ c[1] \in (-7)..7
              /\ c[2] \in D!At(D!BucketIndex(t), c[1])
         /\ \A e \in D!Bucket(D!BucketIndex(t)) : <<0, e>> \in D!Candidates(t, n)
<1> DEFINE b == D!BucketIndex(t)
           Offsets == {k \in 1..7 : D!Cardinality(D!Within(b, k - 1)) < n}
           o == Cardinality(Offsets)
<1>1. b \in Nat /\ b + 7 < KeySpace
  BY IndexRange
<1>2. o \in 0..7
  <2>1. Offsets \in SUBSET (1..7)
    OBVIOUS
  <2>2. IsFiniteSet(1..7) /\ Cardinality(1..7) = 7
    <3>1. 1 \in Int /\ 7 \in Int /\ ~(1 > 7) /\ 7 - 1 + 1 = 7
      OBVIOUS
    <3>2. IsFiniteSet(1..7) /\ Cardinality(1..7) = IF 1 > 7 THEN 0 ELSE 7 - 1 + 1
      BY ONLY <3>1, FS_Interval
    <3>3. QED
      BY ONLY <3>1, <3>2
  <2> HIDE DEF Offsets
  <2>3. IsFiniteSet(Offsets) /\ Cardinality(Offsets) <= 7
    BY <2>1, <2>2, FS_Subset
  <2>4. Cardinality(Offsets) \in Nat
    BY <2>3, FS_CardinalityType
  <2>5. QED
    BY <2>3, <2>4
<1>3. D!Candidates(t, n) = D!Within(b, o)
  BY SameCardinality DEF D!Candidates
<1> HIDE DEF b, o
<1>4. /\ IsFiniteSet(D!Within(b, o)) /\ Cardinality(D!Within(b, o)) \in Nat
      /\ \A c \in D!Within(b, o) : /\ c = <<c[1], c[2]>> /\ c[1] \in (-o)..o
                                   /\ c[2] \in D!At(b, c[1])
      /\ D!Within(b, o) = UNION {{s} \X D!At(b, s) : s \in (-o)..o}
  BY <1>1, <1>2, WithinOK
<1>5. \A s \in (-o)..o : s \in (-7)..7
  BY <1>2
<1>6. 0 \in (-o)..o
  BY <1>2
<1>7. \A e \in D!Bucket(b) : <<0, e>> \in D!Within(b, o)
  <2>1. 0 \in (-7)..7
    OBVIOUS
  <2>2. D!At(b, 0) = D!Bucket(b)
    BY <1>1, <2>1, AtPlace
  <2>3. {0} \X D!At(b, 0) \subseteq D!Within(b, o)
    BY <1>4, <1>6
  <2>4. QED
    BY <2>2, <2>3
<1>8. QED
  BY <1>3, <1>4, <1>5, <1>7 DEF b

\* Among finitely or infinitely many peers some is the closest: of least
\* distance and, among those, of best quality.
LEMMA Closest ==
  ASSUME NEW t \in DhtIds, NEW left, left # {}, \A c \in left : c[2] \in D!Entry
  PROVE  \E g \in left : \A f \in left : ~D!Closer(t, f[2], g[2])
<1> DEFINE d(c) == D!Distance(t, c[2].id)
           N == {d(c) : c \in left}
<1>1. \A c \in left : c[2].id \in DhtIds /\ c[2].quality \in 0..MaxQuality
  BY DEF D!Entry
<1>2. \A c \in left : d(c) \in Nat
  BY <1>1, Distances
<1>3. PICK n \in N : \A m \in N : n <= m
  <2>1. N \subseteq Nat /\ N # {}
    BY <1>2
  <2> HIDE DEF N
  <2>2. QED
    BY <2>1, LeastNat
<1> DEFINE near == {c \in left : d(c) = n}
           M == {MaxQuality - c[2].quality : c \in near}
<1>4. PICK q \in M : \A m \in M : q <= m
  <2>1. M \subseteq Nat /\ M # {}
    BY <1>1, Constants
  <2> HIDE DEF M
  <2>2. QED
    BY <2>1, LeastNat
<1>5. PICK g \in near : q = MaxQuality - g[2].quality
  BY <1>4
<1>6. ASSUME NEW f \in left PROVE ~D!Closer(t, f[2], g[2])
  <2>1. d(f) \in Nat /\ d(g) \in Nat /\ d(g) = n /\ n <= d(f)
    BY <1>2, <1>3
  <2>2. d(f) = n => g[2].quality >= f[2].quality
    <3>1. SUFFICES ASSUME f \in near PROVE g[2].quality >= f[2].quality
      OBVIOUS
    <3>2. q <= MaxQuality - f[2].quality
      BY <1>4, <3>1
    <3>3. g[2].quality \in Nat /\ f[2].quality \in Nat /\ MaxQuality \in Nat
      BY <1>1, Constants
    <3>4. QED
      BY <1>5, <3>2, <3>3
  <2>3. g[2].quality \in Nat /\ f[2].quality \in Nat
    BY <1>1
  <2>4. QED
    BY <2>1, <2>2, <2>3 DEF D!Closer
<1>7. QED
  BY <1>5, <1>6

\* A ranking that does not use every candidate can be continued.
LEMMA RankOneMore ==
  ASSUME NEW t \in DhtIds, NEW c, IsFiniteSet(c), \A f \in c : f[2] \in D!Entry,
         NEW m \in Nat, m < Cardinality(c), NEW r \in D!Ranked(t, c, m)
  PROVE  D!Ranked(t, c, m + 1) # {}
<1> DEFINE taken == {r[j] : j \in 1..m}
           left == c \ taken
<1>1. r \in [1..m -> c]
  BY DEF D!Ranked
<1>2. IsFiniteSet(taken) /\ Cardinality(taken) <= m
  <2>1. IsFiniteSet(1..m) /\ Cardinality(1..m) = m
    <3>1. 1 \in Int /\ m \in Int /\ (IF 1 > m THEN 0 ELSE m - 1 + 1) = m
      OBVIOUS
    <3>2. QED
      BY ONLY <3>1, FS_Interval
  <2>2. DOMAIN r = 1..m /\ r = [j \in 1..m |-> r[j]]
    BY <1>1
  <2> HIDE DEF taken
  <2>3. taken = {r[j] : j \in 1..m}
    BY DEF taken
  <2>4. QED
    BY <2>1, <2>2, <2>3, ImageFinite
<1>3. left # {}
  <2>1. SUFFICES ASSUME c \subseteq taken PROVE FALSE
    OBVIOUS
  <2> HIDE DEF taken
  <2>2. Cardinality(c) <= Cardinality(taken)
    BY <1>2, <2>1, FS_Subset
  <2>3. Cardinality(c) \in Nat /\ Cardinality(taken) \in Nat
    BY <1>2, FS_CardinalityType
  <2>4. QED
    BY <1>2, <2>2, <2>3
<1>4. PICK g \in left : \A f \in left : ~D!Closer(t, f[2], g[2])
  BY <1>3, Closest
<1> DEFINE s == [k \in 1..(m + 1) |-> IF k = m + 1 THEN g ELSE r[k]]
<1>5. s \in [1..(m + 1) -> c]
  BY <1>1
<1>6. ASSUME NEW k \in 1..(m + 1)
      PROVE  /\ s[k] \in c \ {s[j] : j \in 1..(k - 1)}
             /\ \A f \in c \ {s[j] : j \in 1..(k - 1)} : ~D!Closer(t, f[2], s[k][2])
  <2>1. {s[j] : j \in 1..(k - 1)} = {r[j] : j \in 1..(k - 1)}
    <3>1. \A j \in 1..(k - 1) : s[j] = r[j]
      OBVIOUS
    <3> HIDE DEF s
    <3>2. QED
      BY <3>1
  <2>2. CASE k = m + 1
    <3>1. {r[j] : j \in 1..(k - 1)} = taken /\ s[k] = g
      BY <2>2
    <3>2. QED
      BY <1>4, <2>1, <3>1
  <2>3. CASE k # m + 1
    <3>1. k \in 1..m /\ s[k] = r[k]
      BY <2>3
    <3>2. /\ r[k] \in c \ {r[j] : j \in 1..(k - 1)}
          /\ \A f \in c \ {r[j] : j \in 1..(k - 1)} : ~D!Closer(t, f[2], r[k][2])
      BY <3>1 DEF D!Ranked
    <3>3. QED
      BY <2>1, <3>1, <3>2
  <2>4. QED
    BY <2>2, <2>3
<1> HIDE DEF s
<1>7. s \in D!Ranked(t, c, m + 1)
  BY <1>5, <1>6 DEF D!Ranked
<1>8. QED
  BY <1>7

\* By induction: a least length without a ranking would be neither zero nor
\* one more than another.
LEMMA RankingExists ==
  ASSUME NEW t \in DhtIds, NEW c, IsFiniteSet(c), \A f \in c : f[2] \in D!Entry,
         NEW m \in Nat, m <= Cardinality(c)
  PROVE  D!Ranked(t, c, m) # {}
<1> DEFINE N == {k \in Nat : k <= Cardinality(c) /\ D!Ranked(t, c, k) = {}}
<1>1. SUFFICES ASSUME N # {} PROVE FALSE
  OBVIOUS
<1>2. PICK k \in N : \A j \in N : k <= j
  <2>1. N \subseteq Nat
    OBVIOUS
  <2> HIDE DEF N
  <2>2. QED
    BY <1>1, <2>1, LeastNat
<1>3. k \in Nat /\ k <= Cardinality(c) /\ D!Ranked(t, c, k) = {} /\ Cardinality(c) \in Nat
  BY FS_CardinalityType
<1>4. k # 0
  <2>1. SUFFICES ASSUME k = 0 PROVE FALSE
    OBVIOUS
  <2>2. 1..0 = {} /\ [j \in 1..0 |-> 0] \in [1..0 -> c]
    OBVIOUS
  <2>3. [j \in 1..0 |-> 0] \in D!Ranked(t, c, 0)
    BY <2>2 DEF D!Ranked
  <2>4. QED
    BY <1>3, <2>1, <2>3
<1>5. k - 1 \in Nat /\ k - 1 < Cardinality(c) /\ ~(k <= k - 1) /\ (k - 1) + 1 = k
  BY <1>3, <1>4
<1>6. D!Ranked(t, c, k - 1) # {}
  <2>1. k - 1 <= Cardinality(c)
    BY <1>3, <1>5
  <2>2. k - 1 \notin N
    BY <1>2, <1>5
  <2>3. QED
    BY <1>5, <2>1, <2>2
<1>7. PICK r : r \in D!Ranked(t, c, k - 1)
  BY <1>6
<1>8. D!Ranked(t, c, (k - 1) + 1) # {}
  BY <1>5, <1>7, RankOneMore
<1>9. QED
  BY <1>3, <1>5, <1>8

\* The least of two numbers, as a look-up takes it.
LEMMA LookupLength ==
  ASSUME DhtInv, NEW t \in DhtIds, NEW n \in 1..MaxLookup
  PROVE  \E m \in Nat : /\ m <= Cardinality(D!Candidates(t, n))
                        /\ D!Lookup(t, n) = D!Ranked(t, D!Candidates(t, n), m)
                        /\ D!Candidates(t, n) # {} => m >= 1
<1> DEFINE c == D!Candidates(t, n)
<1>1. IsFiniteSet(c) /\ Cardinality(c) \in Nat
  BY CandidatesOK
<1>2. n \in Nat /\ n >= 1
  BY Constants
<1>3. c # {} => Cardinality(c) # 0
  BY <1>1, FS_EmptySet
<1>4. D!Lookup(t, n) = D!Ranked(t, c, IF Cardinality(c) < n THEN Cardinality(c) ELSE n)
  BY SameCardinality DEF D!Lookup
<1> HIDE DEF c
<1>5. CASE Cardinality(c) < n
  <2>1. D!Lookup(t, n) = D!Ranked(t, c, Cardinality(c))
    BY <1>4, <1>5
  <2>2. c # {} => Cardinality(c) >= 1
    BY <1>1, <1>3
  <2>3. QED
    BY <1>1, <2>1, <2>2 DEF c
<1>6. CASE ~(Cardinality(c) < n)
  <2>1. D!Lookup(t, n) = D!Ranked(t, c, n)
    BY <1>4, <1>6
  <2>2. n <= Cardinality(c)
    BY <1>1, <1>2, <1>6
  <2>3. QED
    BY <1>2, <2>1, <2>2 DEF c
<1>7. QED
  BY <1>5, <1>6

\* A peer of the table is in the bucket of its distance.
LEMMA InItsBucket ==
  ASSUME DhtInv, NEW t, D!InTable(t)
  PROVE  \E e \in D!Bucket(D!BucketIndex(t)) : e.id = t /\ e \in D!Entry
<1>1. PICK b \in DOMAIN buckets : \E e \in buckets[b] : e.id = t
  BY DEF D!InTable
<1>2. PICK e \in buckets[b] : e.id = t
  BY <1>1
<1>3. D!BucketIndex(t) = b /\ e \in D!Entry
  BY <1>2 DEF DhtInv, BucketOK
<1>4. D!Bucket(b) = buckets[b]
  BY DEF D!Bucket
<1>5. QED
  BY <1>2, <1>3, <1>4

\* The first of a ranking that has the target's bucket to choose from.
LEMMA FirstIsTarget ==
  ASSUME DhtInv, NEW t \in DhtIds, NEW n, NEW m \in Nat, m >= 1,
         NEW r \in D!Ranked(t, D!Candidates(t, n), m), D!InTable(t)
  PROVE  1 \in DOMAIN r /\ D!Distance(t, r[1][2].id) = 0
<1> DEFINE c == D!Candidates(t, n)
<1>1. PICK e \in D!Bucket(D!BucketIndex(t)) : e.id = t /\ e \in D!Entry
  BY InItsBucket
<1>2. <<0, e>> \in c
  BY CandidatesOK
<1>3. 1 \in 1..m
  OBVIOUS
<1>4. r \in [1..m -> c] /\ \A f \in c \ {r[j] : j \in 1..(1 - 1)} : ~D!Closer(t, f[2], r[1][2])
  BY <1>3 DEF D!Ranked
<1>5. {r[j] : j \in 1..(1 - 1)} = {}
  OBVIOUS
<1>6. ~D!Closer(t, e, r[1][2])
  <2>1. <<0, e>>[2] = e
    OBVIOUS
  <2>2. <<0, e>> \in c \ {r[j] : j \in 1..(1 - 1)}
    BY <1>2, <1>5
  <2> HIDE DEF c
  <2>3. QED
    BY <1>4, <2>1, <2>2
<1>7. r[1][2] \in D!Entry
  <2>1. r[1] \in c
    BY <1>3, <1>4
  <2>2. r[1][1] \in (-7)..7 /\ r[1][2] \in D!At(D!BucketIndex(t), r[1][1])
    BY <2>1, CandidatesOK
  <2>3. QED
    BY <2>2, AtOK, IndexRange DEF BucketOK
<1>8. D!Distance(t, r[1][2].id) \in Nat /\ D!Distance(t, t) = 0
  BY <1>7, Distances DEF D!Entry
<1>9. ~(0 < D!Distance(t, r[1][2].id))
  BY <1>1, <1>6, <1>8 DEF D!Closer
<1>10. QED
  BY <1>3, <1>4, <1>8, <1>9

\* Two places with one bucket: both run into bucket 0.
LEMMA SamePlace ==
  ASSUME NEW b \in Nat, NEW s \in (-7)..7, NEW p \in (-7)..7, s # p,
         Place(b, s) = Place(b, p), s < 0 \/ p < 0 => b # 0
  PROVE  Place(b, s) = 0 /\ b \in 1..6
BY DEF Place

\* A candidate that is there twice is in bucket 0.
LEMMA RepeatedCandidate ==
  ASSUME DhtInv, NEW t \in DhtIds, NEW n,
         NEW c \in D!Candidates(t, n), NEW f \in D!Candidates(t, n),
         c # f, c[2].id = f[2].id
  PROVE  D!BucketIndex(c[2].id) = 0 /\ D!BucketIndex(t) \in 1..6
<1> DEFINE b == D!BucketIndex(t)
<1>1. b \in Nat /\ b + 7 < KeySpace
  BY IndexRange
<1>2. /\ c = <<c[1], c[2]>> /\ c[1] \in (-7)..7 /\ c[2] \in D!At(b, c[1])
      /\ f = <<f[1], f[2]>> /\ f[1] \in (-7)..7 /\ f[2] \in D!At(b, f[1])
  BY CandidatesOK
<1> HIDE DEF b
<1>3. BucketOK(Place(b, c[1]), D!At(b, c[1])) /\ BucketOK(Place(b, f[1]), D!At(b, f[1]))
  BY <1>1, <1>2, AtOK
<1>4. D!BucketIndex(c[2].id) = Place(b, c[1]) /\ D!BucketIndex(f[2].id) = Place(b, f[1])
  BY <1>2, <1>3 DEF BucketOK
<1>5. Place(b, c[1]) = Place(b, f[1])
  BY <1>4
<1>6. c[1] # f[1]
  <2>1. SUFFICES ASSUME c[1] = f[1] PROVE FALSE
    OBVIOUS
  <2>2. c[2] = f[2]
    BY <1>2, <1>3, <2>1 DEF BucketOK
  <2>3. QED
    BY <1>2, <2>1, <2>2
<1>7. c[1] < 0 \/ f[1] < 0 => b # 0
  BY <1>1, <1>2, AtPlace
<1>8. Place(b, c[1]) = 0 /\ b \in 1..6
  BY <1>1, <1>2, <1>5, <1>6, <1>7, SamePlace
<1>9. QED
  BY <1>4, <1>8 DEF b

\* A ranking takes no candidate twice.
LEMMA RankedOnce ==
  ASSUME NEW t, NEW c, NEW m \in Nat, NEW r \in D!Ranked(t, c, m),
         NEW j \in 1..m, NEW k \in 1..m, j # k
  PROVE  r[j] \in c /\ r[k] \in c /\ r[j] # r[k]
<1>1. /\ r \in [1..m -> c]
      /\ \A i \in 1..m : r[i] \in c \ {r[h] : h \in 1..(i - 1)}
  BY DEF D!Ranked
<1>2. CASE j < k
  <2>1. j \in 1..(k - 1)
    BY <1>2
  <2>2. QED
    BY <1>1, <2>1
<1>3. CASE k < j
  <2>1. k \in 1..(j - 1)
    BY <1>3
  <2>2. QED
    BY <1>1, <2>1
<1>4. QED
  BY <1>2, <1>3

LEMMA LookupsFromInv ==
  ASSUME DhtInv
  PROVE  LookupResults
<1> SUFFICES ASSUME NEW t \in DhtIds, NEW n \in 1..MaxLookup
             PROVE  /\ D!Lookup(t, n) # {}
                    /\ \A r \in D!Lookup(t, n) :
                         /\ D!InTable(t) => 1 \in DOMAIN r /\ D!Distance(t, r[1][2].id) = 0
                         /\ \A j, k \in DOMAIN r :
                              j # k /\ r[j][2].id = r[k][2].id =>
                                D!BucketIndex(r[j][2].id) = 0 /\ D!BucketIndex(t) \in 1..6
  BY DEF LookupResults, D!LookupResults
<1> DEFINE c == D!Candidates(t, n)
<1>1. PICK m \in Nat : /\ m <= Cardinality(c) /\ D!Lookup(t, n) = D!Ranked(t, c, m)
                       /\ c # {} => m >= 1
  BY LookupLength
<1>2. IsFiniteSet(c) /\ \A f \in c : f[1] \in (-7)..7 /\ f[2] \in D!At(D!BucketIndex(t), f[1])
  BY CandidatesOK
<1>3. \A f \in c : f[2] \in D!Entry
  BY <1>2, AtOK, IndexRange DEF BucketOK
<1>4. D!Lookup(t, n) # {}
  BY <1>1, <1>2, <1>3, RankingExists
<1>5. ASSUME NEW r \in D!Lookup(t, n), D!InTable(t)
      PROVE  1 \in DOMAIN r /\ D!Distance(t, r[1][2].id) = 0
  <2>1. c # {}
    BY <1>5, InItsBucket, CandidatesOK
  <2>2. QED
    BY <1>1, <1>5, <2>1, FirstIsTarget
<1>6. ASSUME NEW r \in D!Lookup(t, n), NEW j \in DOMAIN r, NEW k \in DOMAIN r, j # k,
             r[j][2].id = r[k][2].id
      PROVE  D!BucketIndex(r[j][2].id) = 0 /\ D!BucketIndex(t) \in 1..6
  <2>1. DOMAIN r = 1..m
    BY <1>1 DEF D!Ranked
  <2>2. r[j] \in c /\ r[k] \in c /\ r[j] # r[k]
    BY <1>1, <1>6, <2>1, RankedOnce
  <2>3. QED
    BY <1>6, <2>2, RepeatedCandidate
<1>7. QED
  BY <1>4, <1>5, <1>6

----------------------------------------------------------------------------
(* QUIC: the map is on time.                                               *)

OnTime == \A c \in pool : IF due THEN idle[c] <= held + 1 ELSE idle[c] = 0

QuicInv ==
  /\ pool \subseteq Q!Conns /\ due \in BOOLEAN
  /\ idle \in [Q!Conns -> 0..(IdleLimit + 1)] /\ held \in 0..(IdleLimit + 1)
  /\ OnTime

LEMMA InitQuicInv ==
  ASSUME Q!Init
  PROVE  QuicInv
<1>1. pool = {} /\ due = FALSE /\ idle = [c \in Q!Conns |-> 0] /\ held = 0
  BY DEF Q!Init
<1>2. 0 \in 0..(IdleLimit + 1)
  BY Constants
<1>3. QED
  BY <1>1, <1>2 DEF QuicInv, OnTime

LEMMA UpOne ==
  ASSUME NEW n \in 0..(IdleLimit + 1)
  PROVE  /\ Q!Up(n) \in 0..(IdleLimit + 1) /\ Q!Up(n) <= n + 1
         /\ \A m \in 0..(IdleLimit + 1) : m <= n + 1 => Q!Up(m) <= Q!Up(n) + 1
BY Constants DEF Q!Up

LEMMA TickStep ==
  ASSUME QuicInv, Q!Tick
  PROVE  QuicInv'
<1> USE DEF QuicInv
<1>1. /\ pool' = pool /\ due' = TRUE
      /\ idle' = [c \in Q!Conns |-> IF c \in pool THEN Q!Up(idle[c]) ELSE 0]
      /\ held' = IF due THEN Q!Up(held) ELSE 0
  BY DEF Q!Tick
<1>2. \A c \in Q!Conns : idle[c] \in 0..(IdleLimit + 1) /\ Q!Up(idle[c]) \in 0..(IdleLimit + 1)
  BY UpOne
<1>3. held' \in 0..(IdleLimit + 1) /\ 0 \in 0..(IdleLimit + 1)
  BY <1>1, UpOne, Constants
<1>4. \A c \in pool : Q!Up(idle[c]) <= held' + 1
  <2>1. ASSUME due, NEW c \in pool PROVE Q!Up(idle[c]) <= held' + 1
    <3>1. idle[c] <= held + 1
      BY <2>1 DEF OnTime
    <3>2. QED
      BY <1>1, <1>2, <2>1, <3>1, UpOne
  <2>2. ASSUME ~due, NEW c \in pool PROVE Q!Up(idle[c]) <= held' + 1
    <3>1. idle[c] = 0
      BY <2>2 DEF OnTime
    <3>2. QED
      BY <1>1, <2>2, <3>1 DEF Q!Up
  <2>3. QED
    BY <2>1, <2>2
<1>5. idle' \in [Q!Conns -> 0..(IdleLimit + 1)]
  BY <1>1, <1>2, <1>3
<1>6. \A c \in pool : idle'[c] = Q!Up(idle[c])
  BY <1>1
<1>7. QED
  BY <1>1, <1>3, <1>4, <1>5, <1>6 DEF OnTime

LEMMA NextQuicInv ==
  ASSUME QuicInv, Q!Next
  PROVE  QuicInv'
<1> USE DEF QuicInv, OnTime
<1>1. CASE \/ Q!Start
           \/ \E c \in Q!Conns : Q!Accept(c) \/ \E how \in {"closed", "lost"} : Q!LinkEnds(c, how)
           \/ \E c \in Incoming : Q!StreamError(c)
           \/ \E s \in Senders : Q!Sent(s) \/ \E c \in Q!Conns : Q!Send(s, c)
  <2>1. UNCHANGED <<pool, due, idle, held>>
    BY <1>1 DEF Q!Start, Q!Accept, Q!LinkEnds, Q!StreamError, Q!Sent, Q!Send
  <2>2. QED
    BY <2>1
<1>2. CASE Q!Stop
  BY <1>2 DEF Q!Stop
<1>3. ASSUME NEW c \in Q!Conns, Q!Admit(c) \/ Q!Connect(c) PROVE QuicInv'
  <2>1. pool' = pool \cup {c} /\ idle' = [idle EXCEPT ![c] = 0] /\ UNCHANGED <<due, held>>
    BY <1>3 DEF Q!Admit, Q!Connect
  <2>2. 0 \in 0..(IdleLimit + 1)
    BY Constants
  <2>3. QED
    BY <2>1, <2>2
<1>4. CASE Q!Tick
  BY <1>4, TickStep
<1>5. ASSUME NEW expired \in SUBSET pool, Q!Check(expired) PROVE QuicInv'
  <2>1. /\ pool' \subseteq pool /\ due' = FALSE /\ held' = 0
        /\ idle' = [c \in Q!Conns |-> IF c \in pool' THEN 0 ELSE 0]
    BY <1>5 DEF Q!Check, Q!Refreshed
  <2>2. 0 \in 0..(IdleLimit + 1)
    BY Constants
  <2>3. QED
    BY <2>1, <2>2
<1>6. QED
  BY <1>1, <1>2, <1>3, <1>4, <1>5 DEF Q!Next

----------------------------------------------------------------------------
(* Discovery: no registered task is out of reach.                          *)

WithinReach ==
  \A i \in S!Starts : task[i] \in {"registered", "loop", "sending"} =>
    i = shutdown_tx \/ i \in signalled

\* A stop has signalled all active tasks but those that it found unregistered.
SignalledByStop ==
  ~nodeRunning => \A i \in S!Starts \ late : S!Active(i) => i \in signalled

\* The task in its loop has the port.
OneListens ==
  \A i \in S!Starts : task[i] \in {"loop", "sending"} <=> listener = i

DiscoveryInv ==
  /\ starts \in Nat /\ task \in [S!Starts -> S!Steps]
  /\ \A i \in S!Starts : i > starts => task[i] = "none"
  /\ WithinReach /\ SignalledByStop /\ OneListens

LEMMA NoStartIsZero == 0 \notin S!Starts /\ S!Starts \subseteq Int
BY DEF S!Starts

LEMMA InitDiscoveryInv == S!Init => DiscoveryInv
BY NoStartIsZero
   DEF S!Init, DiscoveryInv, WithinReach, SignalledByStop, OneListens, S!Active, S!Steps

LEMMA NextDiscoveryInv ==
  ASSUME DiscoveryInv, S!Next
  PROVE  DiscoveryInv'
<1> USE DEF DiscoveryInv, WithinReach, SignalledByStop, OneListens, S!Active, S!Steps
<1>1. CASE S!NodeStart
  <2>1. /\ starts' = starts + 1 /\ nodeRunning'
        /\ task' = [task EXCEPT ![starts + 1] = "spawned"]
        /\ UNCHANGED <<shutdown_tx, signalled, listener, late>>
    BY <1>1 DEF S!NodeStart
  <2>2. starts + 1 \in S!Starts => task[starts + 1] = "none"
    OBVIOUS
  <2>3. \A i \in S!Starts : task'[i] = IF i = starts + 1 THEN "spawned" ELSE task[i]
    BY <2>1
  <2>4. task' \in [S!Starts -> S!Steps]
    BY <2>1
  <2>5. \A i \in S!Starts : i > starts' => task'[i] = "none"
    BY <2>1, <2>3, NoStartIsZero
  <2>6. WithinReach' /\ OneListens'
    BY <2>1, <2>2, <2>3
  <2>7. QED
    BY <2>1, <2>4, <2>5, <2>6
<1>2. CASE S!NodeStop
  <2>1. UNCHANGED <<starts, task, listener>>
    BY <1>2 DEF S!NodeStop
  <2>2. \A i \in S!Starts :
          task[i] \in {"registered", "loop", "sending"} => i \in signalled'
    BY <1>2, NoStartIsZero DEF S!NodeStop
  <2>3. \A i \in S!Starts \ late' : S!Active(i) => i \in signalled'
    BY <1>2, <2>2 DEF S!NodeStop
  <2>4. QED
    BY <2>1, <2>2, <2>3
<1>3. CASE S!Drain
  BY <1>3 DEF S!Drain
<1>4. ASSUME NEW i \in S!Starts, S!Check(i) PROVE DiscoveryInv'
  BY <1>4 DEF S!Check
<1>5. ASSUME NEW i \in S!Starts, S!Register(i) PROVE DiscoveryInv'
  BY <1>5, NoStartIsZero DEF S!Register, S!Dropped
<1>6. ASSUME NEW i \in S!Starts, S!Listen(i) PROVE DiscoveryInv'
  BY <1>6, NoStartIsZero DEF S!Listen
<1>7. ASSUME NEW i \in S!Starts, S!Closed(i) PROVE DiscoveryInv'
  BY <1>7 DEF S!Closed
<1>8. ASSUME NEW i \in S!Starts, S!Sent(i) PROVE DiscoveryInv'
  BY <1>8 DEF S!Sent
<1>9. ASSUME NEW i \in S!Starts, S!Leave(i) PROVE DiscoveryInv'
  BY <1>9, NoStartIsZero DEF S!Leave
<1>10. QED
  BY <1>1, <1>2, <1>3, <1>4, <1>5, <1>6, <1>7, <1>8, <1>9 DEF S!Next

----------------------------------------------------------------------------
(* The services together: no step of one changes what the others keep.     *)

LEMMA ServicesInv ==
  ServicesSpec => [](DhtInv /\ QuicInv /\ DiscoveryInv)
<1>1. ServicesInit => DhtInv /\ QuicInv /\ DiscoveryInv
  BY InitDhtInv, InitQuicInv, InitDiscoveryInv DEF ServicesInit
<1>2. ASSUME DhtInv, QuicInv, DiscoveryInv,
             [ServicesNext]_<<part, vars, dhtVars, quicVars, discoveryVars>>
      PROVE  DhtInv' /\ QuicInv' /\ DiscoveryInv'
  <2>1. (UNCHANGED dhtVars) \/ D!Next
    BY <1>2 DEF ServicesNext, GossipStep, DhtStep, QuicStep, DiscoveryStep
  <2>2. (UNCHANGED quicVars) \/ Q!Next
    BY <1>2 DEF ServicesNext, GossipStep, DhtStep, QuicStep, DiscoveryStep
  <2>3. DhtInv'
    <3>1. CASE UNCHANGED dhtVars
      BY <1>2, <3>1 DEF dhtVars, DhtInv, BucketOK
    <3>2. QED
      BY <1>2, <2>1, <3>1, NextDhtInv
  <2>4. QuicInv'
    <3>1. CASE UNCHANGED quicVars
      BY <1>2, <3>1 DEF quicVars, QuicInv, OnTime
    <3>2. QED
      BY <1>2, <2>2, <3>1, NextQuicInv
  <2>5. (UNCHANGED discoveryVars) \/ S!Next
    BY <1>2 DEF ServicesNext, GossipStep, DhtStep, QuicStep, DiscoveryStep
  <2>6. DiscoveryInv'
    <3>1. CASE UNCHANGED discoveryVars
      BY <1>2, <3>1
         DEF discoveryVars, DiscoveryInv, WithinReach, SignalledByStop, OneListens, S!Active
    <3>2. QED
      BY <1>2, <2>5, <3>1, NextDiscoveryInv
  <2>7. QED
    BY <2>3, <2>4, <2>6
<1>3. QED
  BY <1>1, <1>2, PTL DEF ServicesSpec

\* The table of the DHT in every reachable state: no bucket is over its size,
\* and a peer is in the bucket of its distance, once.
THEOREM TableHolds ==
  ServicesSpec => [](\A b \in DOMAIN buckets : BucketOK(b, buckets[b]))
<1>1. DhtInv => \A b \in DOMAIN buckets : BucketOK(b, buckets[b])
  BY DEF DhtInv
<1>2. QED
  BY <1>1, ServicesInv, PTL

\* Every look-up in the DHT has a result, which begins with the peer asked for
\* if it is in the table, and repeats a peer only near the local node.
THEOREM LookupResultsHolds ==
  ServicesSpec => []LookupResults
<1>1. DhtInv => LookupResults
  BY LookupsFromInv
<1>2. QED
  BY <1>1, ServicesInv, PTL

\* QUIC drops a connection as idle only after its check was held up for all
\* but one of the periods of the time-out.
THEOREM IdleOnlyIfHeldUpHolds ==
  ServicesSpec => IdleOnlyIfHeldUp
<1>1. ASSUME QuicInv, Q!Next, quicRunning', ~(pool \subseteq pool')
      PROVE  held >= IdleLimit - 1
  <2>1. PICK expired \in SUBSET pool : Q!Check(expired)
    BY <1>1 DEF Q!Next, Q!Start, Q!Stop, Q!Accept, Q!Admit, Q!Connect, Q!LinkEnds,
                Q!StreamError, Q!Send, Q!Sent, Q!Tick
  <2>2. PICK c \in pool : idle[c] = IdleLimit \/ idle[c] > IdleLimit
    BY <1>1, <2>1 DEF Q!Check, Q!MayBeExpired, Q!MustBeExpired
  <2>3. idle[c] <= held + 1 /\ idle[c] \in Nat /\ held \in Nat
    BY <1>1, <2>1, <2>2, Constants DEF QuicInv, OnTime, Q!Check
  <2>4. QED
    BY <2>2, <2>3, Constants
<1>2. ASSUME QuicInv, [ServicesNext]_<<part, vars, dhtVars, quicVars, discoveryVars>>
      PROVE  [quicRunning' /\ ~(pool \subseteq pool') => held >= IdleLimit - 1]_Q!vars
  <2>1. UNCHANGED Q!vars \/ Q!Next
    BY <1>2 DEF ServicesNext, GossipStep, DhtStep, QuicStep, DiscoveryStep, quicVars, Q!vars
  <2>2. QED
    BY <1>1, <1>2, <2>1
<1>3. QED
  BY <1>2, ServicesInv, PTL DEF ServicesSpec, IdleOnlyIfHeldUp, Q!IdleOnlyIfHeldUp

\* No discovery task is lost to the service: one that has registered can still
\* be stopped or is being stopped, a stopped node has signalled all but those it
\* found unregistered, and the port belongs to the task in its loop.
THEOREM StopReachesTasksHolds ==
  ServicesSpec => [](WithinReach /\ SignalledByStop /\ OneListens)
<1>1. DiscoveryInv => WithinReach /\ SignalledByStop /\ OneListens
  BY DEF DiscoveryInv
<1>2. QED
  BY <1>1, ServicesInv, PTL
=============================================================================
