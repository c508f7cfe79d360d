-------------------------------- MODULE Dht --------------------------------
(***************************************************************************)
(* DHTService of src/network/discovery/dht.rs: a table of buckets of peers *)
(* by their distance from the local node, and look-ups in it.              *)
(*                                                                         *)
(* calculate_distance folds the two halves of an id together: the shift of *)
(* a byte beyond 64 bits wraps in a release build (a debug build panics    *)
(* there, before any lock).  Every operation holds the table's lock from   *)
(* its first access to its last.  The discovery loop and refresh_bucket    *)
(* change nothing that is read; the rates of look-ups are left out.        *)
(*                                                                         *)
(* A bucket is a set: the order of its entries decides only between peers  *)
(* that were last seen at one instant, or that a look-up ranks the same,   *)
(* and there the model takes any.  Ages are counted in coarse units, so    *)
(* that peers of one age may have been seen in any order.                  *)
(***************************************************************************)
EXTENDS Integers, FiniteSets

CONSTANTS
  Ids,
  Local,         \* the local node's id
  Fold,          \* the folded bytes of every id
  WordXor(_, _), \* the bitwise exclusive or of two words
  WordBits,      \* 64
  BucketSize,    \* 20
  KeySpace,      \* 160
  MaxQuality,    \* 100
  Timeout,       \* the age at which a peer is dropped (5 minutes)
  MaxLookup      \* bound: peers asked for

DhtAssumption ==
  /\ WordBits \in Nat \ {0} /\ BucketSize \in Nat \ {0}
  /\ KeySpace \in Nat /\ KeySpace >= WordBits + 7
  /\ MaxQuality \in Nat /\ Timeout \in Nat /\ MaxLookup \in Nat
  /\ \A i, j \in Ids : WordXor(Fold[i], Fold[j]) \in Nat
  /\ \A i \in Ids : WordXor(Fold[i], Fold[i]) = 0

VARIABLES
  running,
  buckets,       \* the table: no bucket until the first start
  total,         \* total_peers of the statistics
  loops          \* whether a maintenance loop has been spawned

vars == <<running, buckets, total, loops>>

\* A peer with the time since its last_seen.
Entry == [id : Ids, quality : 0..MaxQuality, age : 0..Timeout]

NoTable == [b \in {} |-> {}]

Distance(i, j) == WordXor(Fold[i], Fold[j])

\* The highest bit of the distance.
BucketIndex(i) == Cardinality({b \in 1..(WordBits - 1) : 2^b <= Distance(Local, i)})

Count(table) == Cardinality(UNION {{b} \X table[b] : b \in DOMAIN table})

Init ==
  /\ running = FALSE
  /\ buckets = NoTable
  /\ total = 0 /\ loops = FALSE

----------------------------------------------------------------------------
(* start and stop; the loops of an earlier start remain.                   *)

Start ==
  /\ ~running /\ running' = TRUE
  /\ buckets' = [b \in 0..(KeySpace - 1) |-> {}]
  /\ loops' = TRUE
  /\ UNCHANGED total

Stop ==
  /\ running /\ running' = FALSE
  /\ buckets' = NoTable
  /\ UNCHANGED <<total, loops>>

----------------------------------------------------------------------------
(* The peers.                                                              *)

\* A bucket after e was added, one way or another: a known peer is replaced,
\* and a full bucket loses its oldest.
Added(q, e) ==
  LET known == {f \in q : f.id = e.id}
      oldest == {f \in q : \A g \in q : g.age <= f.age}
  IN  IF known # {} THEN {(q \ known) \cup {e}}
      ELSE IF Cardinality(q) < BucketSize THEN {q \cup {e}}
      ELSE {(q \ {f}) \cup {e} : f \in oldest}

\* Without a table only the statistics are brought up to date.
AddPeer(e) ==
  /\ LET b == BucketIndex(e.id)
     IN  IF b \in DOMAIN buckets
         THEN \E q \in Added(buckets[b], e) : buckets' = [buckets EXCEPT ![b] = q]
         ELSE buckets' = buckets
  /\ total' = Count(buckets')
  /\ UNCHANGED <<running, loops>>

RemovePeer(i) ==
  /\ buckets' = [b \in DOMAIN buckets |-> {e \in buckets[b] : e.id # i}]
  /\ total' = Count(buckets')
  /\ UNCHANGED <<running, loops>>

Maintain ==
  /\ loops
  /\ buckets' = [b \in DOMAIN buckets |-> {e \in buckets[b] : e.age < Timeout}]
  /\ total' = Count(buckets')
  /\ UNCHANGED <<running, loops>>

Older(e) == [e EXCEPT !.age = IF @ < Timeout THEN @ + 1 ELSE @]

Minute ==
  /\ buckets # NoTable
  /\ buckets' = [b \in DOMAIN buckets |-> {Older(e) : e \in buckets[b]}]
  /\ UNCHANGED <<running, total, loops>>

----------------------------------------------------------------------------
(* lookup_peers: the bucket of the target, then those around it while too  *)
(* few peers are found, up to seven buckets away.  A candidate is a peer   *)
(* with the place of its bucket, so that one found twice counts twice.     *)

Bucket(b) == IF b \in DOMAIN buckets THEN buckets[b] ELSE {}

\* saturating_sub
Below(b, offset) == IF offset > b THEN 0 ELSE b - offset

\* Fault: the search begins next to the target's bucket.
NotItsOwn(b) == {}
Own(b) == Bucket(b)

\* The peers at a place: s buckets above b, or -s below it.
At(b, s) ==
  IF s = 0 THEN Own(b)
  ELSE IF s > 0 THEN Bucket((b + s) % KeySpace)
  ELSE IF Below(b, -s) # b THEN Bucket(Below(b, -s)) ELSE {}

Within(b, offset) == UNION {{s} \X At(b, s) : s \in (-offset)..offset}

\* The loop goes on to the offsets before which there are fewer than n peers.
Candidates(target, n) ==
  LET b == BucketIndex(target)
  IN  Within(b, Cardinality({o \in 1..7 : Cardinality(Within(b, o - 1)) < n}))

Closer(target, e, f) ==
  LET d == Distance(target, e.id)
      g == Distance(target, f.id)
  IN  d < g \/ (d = g /\ e.quality > f.quality)

\* What a look-up may return: as many of the candidates c as were asked for,
\* if there are so many, each the closest of those that are left.
Ranked(target, c, m) ==
  {r \in [1..m -> c] :
     \A k \in 1..m :
       LET left == c \ {r[j] : j \in 1..(k - 1)}
       IN  r[k] \in left /\ \A f \in left : ~Closer(target, f[2], r[k][2])}

Lookup(target, n) ==
  LET c == Candidates(target, n)
  IN  Ranked(target, c, IF Cardinality(c) < n THEN Cardinality(c) ELSE n)

Next ==
  \/ Start \/ Stop
  \/ \E e \in Entry : AddPeer(e)
  \/ \E i \in Ids : RemovePeer(i)
  \/ Maintain \/ Minute

Spec == Init /\ [][Next]_vars

----------------------------------------------------------------------------
(* Properties.                                                             *)

TypeOK ==
  /\ running \in BOOLEAN /\ loops \in BOOLEAN
  /\ total \in Nat
  /\ \/ buckets = NoTable
     \/ buckets \in [0..(KeySpace - 1) -> SUBSET Entry]

InTable(i) == \E b \in DOMAIN buckets : \E e \in buckets[b] : e.id = i

\* A look-up has a result, and one of a peer of the table, however many are
\* asked for, begins with the peer or one that the fold does not tell from it.
\* A result repeats a peer only near the local node: the buckets below are
\* counted with saturation, so that bucket 0 is taken again for every offset
\* beyond it.
LookupResults ==
  \A t \in Ids, n \in 1..MaxLookup :
    LET results == Lookup(t, n)
    IN  /\ results # {}
        /\ \A r \in results :
             /\ InTable(t) => 1 \in DOMAIN r /\ Distance(t, r[1][2].id) = 0
             /\ \A j, k \in DOMAIN r :
                  j # k /\ r[j][2].id = r[k][2].id =>
                    BucketIndex(r[j][2].id) = 0 /\ BucketIndex(t) \in 1..6
=============================================================================
