-------------------------- MODULE BroadcastProofs --------------------------
(***************************************************************************)
(* Proofs about Broadcast, for any peers, calls and rounds, and any        *)
(* capacities of a connection.                                             *)
(*                                                                         *)
(* A connection that works is in the pool under its peer's address         *)
(* (Pooled), so the call that holds the pool's mutex is alone on its       *)
(* connection.  What it sent is in the queues, at the handler or answered  *)
(* (Balanced); on every other connection nothing is left (Quiet).          *)
(***************************************************************************)
EXTENDS Broadcast, SequenceTheorems, TLAPS

Connection == [peer : Peers, requests : Seq(Message), answers : Seq(Message),
               handling : Message \cup {None}, broken : BOOLEAN]
Pcs == {"idle", "checking", "dialing", "locking", "sending", "reading", "done"}
CallRecord == [pc : Pcs, todo : Seq(Peers), batches : Nat, ids : Nat, sent : Nat,
               answered : Nat, foreign : BOOLEAN, ok : SUBSET Entries, failed : SUBSET Entries]

Ids == 1..Len(conns)
Tried(c) == call[c].ok \cup call[c].failed
Holding(c) == call[c].pc \in {"sending", "reading"}

\* The entries of a call that are left are before the ones it has tried.
Ordered(c) ==
  /\ call[c].pc \notin {"idle", "done"} => call[c].todo # <<>>
  /\ call[c].pc = "idle" => Tried(c) = {}
  /\ 1..Len(call[c].todo) \subseteq Entries
  /\ \A e \in Tried(c) : e > Len(call[c].todo)

\* A call that does not hold the pool has nothing under way.
Locked(c) ==
  /\ Holding(c) <=> lock = c
  /\ ~Holding(c) => call[c].sent = 0 /\ call[c].answered = 0
  /\ call[c].sent <= ToSend(c)

\* Where an entry succeeded its batches were processed once, and where the call
\* has not come to, not at all; between the two, what it read was processed, and
\* what was processed it sent, also when the connection is lost.
Processed(c) ==
  /\ ~call[c].foreign
  /\ \A e \in call[c].ok : processed[c][e] = call[c].batches
  /\ \A e \in Entries \ Tried(c) : ~(lock = c /\ e = Entry(c)) => processed[c][e] = 0
  /\ lock = c => /\ call[c].answered <= processed[c][Entry(c)]
                 /\ processed[c][Entry(c)] <= call[c].sent

CallsOK == \A c \in Calls : Ordered(c) /\ Locked(c) /\ Processed(c)

Pooled ==
  /\ \A p \in Peers : wsConns[p] # None => conns[wsConns[p]].peer = p
  /\ \A k \in Ids : ~conns[k].broken => wsConns[conns[k].peer] = k
  /\ lock # None => Conn(lock) # None

Quiet(k) == conns[k].requests = <<>> /\ conns[k].answers = <<>> /\ conns[k].handling = None
AllOf(q, m) == \A i \in 1..Len(q) : q[i] = m
AtHandler(n) == IF n.handling = None THEN 0 ELSE 1

\* A connection with what was sent over it for an entry, answered and processed.
OfCall(n, m, sent, answered, done) ==
  /\ AllOf(n.requests, m) /\ AllOf(n.answers, m)
  /\ n.handling \in {None, m}
  /\ sent = answered + Len(n.answers) + AtHandler(n) + Len(n.requests)
  /\ done = answered + Len(n.answers) + AtHandler(n)

Balanced(k, c) ==
  OfCall(conns[k], MessageOf(c), call[c].sent, call[c].answered, processed[c][Entry(c)])

InUse(k) == lock # None /\ Conn(lock) = k /\ ~conns[k].broken
ConnOK(k) == IF InUse(k) THEN Balanced(k, lock) ELSE Quiet(k)
ConnsOK == \A k \in Ids : ConnOK(k)

IInv == TypeOK /\ CallsOK /\ Pooled /\ ConnsOK

----------------------------------------------------------------------------
(* Sequences and frames.                                                   *)

LEMMA TailOf ==
  ASSUME NEW S, NEW q \in Seq(S), q # <<>>
  PROVE  /\ Len(q) \in Nat \ {0} /\ Head(q) = q[1] /\ q[1] \in S
         /\ Tail(q) \in Seq(S) /\ Len(Tail(q)) = Len(q) - 1
         /\ \A i \in 1..Len(Tail(q)) : Tail(q)[i] = q[i + 1] /\ i + 1 \in 1..Len(q)
<1>1. Len(q) \in Nat \ {0}
  BY EmptySeq
<1>2. QED
  BY <1>1

LEMMA ReplacedAt ==
  ASSUME NEW S, NEW q \in Seq(S), NEW k \in 1..Len(q), NEW e \in S,
         NEW to, to = [q EXCEPT ![k] = e]
  PROVE  /\ to \in Seq(S) /\ Len(to) = Len(q) /\ to[k] = e
         /\ \A i \in 1..Len(q) : i # k => to[i] = q[i]
BY ExceptSeq

LEMMA AppendTo ==
  ASSUME NEW S, NEW q \in Seq(S), NEW e \in S
  PROVE  /\ Append(q, e) \in Seq(S) /\ Len(Append(q, e)) = Len(q) + 1
         /\ Append(q, e)[Len(q) + 1] = e
         /\ \A i \in 1..Len(q) : Append(q, e)[i] = q[i]
BY AppendProperties

LEMMA EntriesAreNumbers == Entries \subseteq Nat \ {0}
BY DEF Entries

\* A call that a step does not concern.
LEMMA SameCall ==
  ASSUME CallsOK, NEW d \in Calls, call'[d] = call[d], processed'[d] = processed[d],
         lock' = d <=> lock = d
  PROVE  Ordered(d)' /\ Locked(d)' /\ Processed(d)'
BY DEF CallsOK, Ordered, Locked, Processed, Tried, Holding, ToSend, Entry

\* A connection that a step does not concern.
LEMMA SameConn ==
  ASSUME TypeOK, ConnsOK, NEW k \in Ids, k \in Ids', conns'[k] = conns[k],
         InUse(k)' <=> InUse(k),
         InUse(k) => lock' = lock /\ call'[lock] = call[lock] /\ processed'[lock] = processed[lock]
  PROVE  ConnOK(k)'
BY DEF ConnsOK, ConnOK, InUse, Balanced, Quiet, MessageOf, Entry

----------------------------------------------------------------------------
(* Calls that do not hold the pool.                                        *)

\* A call's record after NextAddress.
Turned(c, r, ok, failed) ==
  /\ r.pc \in {"checking", "done"} /\ (r.pc = "checking" => r.todo # <<>>)
  /\ 1..Len(r.todo) \subseteq Entries
  /\ \A e \in Tried(c) \cup {Entry(c)} : e > Len(r.todo)
  /\ r.sent = 0 /\ r.answered = 0
  /\ r.foreign = call[c].foreign /\ r.batches = call[c].batches
  /\ r.ok = call[c].ok \cup ok /\ r.failed = call[c].failed \cup failed

LEMMA NextAddressOf ==
  ASSUME IInv, NEW c \in Calls, call[c].pc \notin {"idle", "done"},
         NEW ok \in SUBSET {Entry(c)}, NEW failed \in SUBSET {Entry(c)},
         NextAddress(c, ok, failed)
  PROVE  \E r \in CallRecord : call' = [call EXCEPT ![c] = r] /\ Turned(c, r, ok, failed)
<1> DEFINE old == call[c]
           q == call[c].todo
<1>1. call \in [Calls -> CallRecord] /\ old \in CallRecord
  BY DEF IInv, TypeOK, CallRecord, Pcs
<1>2. /\ q \in Seq(Peers) /\ q # <<>> /\ 1..Len(q) \subseteq Entries
      /\ \A e \in Tried(c) : e > Len(q)
  BY <1>1 DEF IInv, CallsOK, Ordered, CallRecord
<1>3. Entry(c) = Len(q) /\ Len(q) \in Nat \ {0} /\ Entry(c) \in Entries
  BY <1>2, TailOf DEF Entry
<1>4. PICK r : r = [old EXCEPT !.pc = IF Len(q) = 1 THEN "done" ELSE "checking",
                               !.todo = Tail(@), !.sent = 0, !.answered = 0,
                               !.ok = @ \cup ok, !.failed = @ \cup failed]
  OBVIOUS
<1>5. call' = [call EXCEPT ![c] = r]
  BY <1>1, <1>4 DEF NextAddress
<1>6. /\ r.pc = (IF Len(q) = 1 THEN "done" ELSE "checking") /\ r.todo = Tail(q)
      /\ r.sent = 0 /\ r.answered = 0 /\ r.foreign = old.foreign /\ r.batches = old.batches
      /\ r.ok = old.ok \cup ok /\ r.failed = old.failed \cup failed
  BY <1>1, <1>4 DEF CallRecord
<1>7. r.pc \in {"checking", "done"}
  BY <1>6
<1>8. r \in CallRecord
  <2>1. /\ (IF Len(q) = 1 THEN "done" ELSE "checking") \in Pcs /\ Tail(q) \in Seq(Peers)
        /\ old.ok \cup ok \in SUBSET Entries /\ old.failed \cup failed \in SUBSET Entries
    BY <1>1, <1>2, <1>3, TailOf DEF CallRecord, Pcs
  <2>2. QED
    BY <1>1, <1>4, <2>1 DEF CallRecord
<1>9. r.pc = "checking" => r.todo # <<>>
  <2>1. Len(q) # 1 => Len(Tail(q)) # 0
    BY <1>2, TailOf
  <2>2. QED
    BY <1>6, <2>1, EmptySeq
<1>10. /\ 1..Len(r.todo) \subseteq Entries
       /\ \A e \in Tried(c) \cup {Entry(c)} : e > Len(r.todo)
  <2>1. Len(r.todo) = Len(q) - 1
    BY <1>2, <1>6, TailOf
  <2>2. Tried(c) \subseteq Nat
    BY <1>1, EntriesAreNumbers DEF Tried, CallRecord
  <2>3. QED
    BY <1>2, <1>3, <2>1, <2>2
<1>11. Turned(c, r, ok, failed)
  BY <1>6, <1>7, <1>9, <1>10 DEF Turned
<1>12. QED
  BY <1>5, <1>8, <1>11

\* A step of a call that does not hold the pool, before and after it.
LEMMA OwnStep ==
  ASSUME IInv, NEW c \in Calls, NEW r \in CallRecord, call' = [call EXCEPT ![c] = r],
         UNCHANGED <<lock, processed>>,
         ~Holding(c), r.pc \notin {"idle", "sending", "reading"},
         r.sent = 0, r.answered = 0, r.foreign = call[c].foreign,
         r.pc # "done" => r.todo # <<>>,
         1..Len(r.todo) \subseteq Entries, \A e \in r.ok \cup r.failed : e > Len(r.todo),
         r.ok = call[c].ok, call[c].failed \subseteq r.failed,
         r.batches = call[c].batches \/ r.ok = {}
  PROVE  call' \in [Calls -> CallRecord] /\ CallsOK'
<1>1. call \in [Calls -> CallRecord]
  BY DEF IInv, TypeOK, CallRecord, Pcs
<1>2. call'[c] = r /\ \A d \in Calls : d # c => call'[d] = call[d]
  BY <1>1
<1>3. Ordered(c) /\ Locked(c) /\ Processed(c) /\ lock # c
  BY DEF IInv, CallsOK, Locked
<1>4. Ordered(c)'
  BY <1>2 DEF Ordered, Tried
<1>5. Locked(c)'
  <2>1. r.ids \in Nat /\ r.batches \in Nat
    BY DEF CallRecord
  <2>2. QED
    BY <1>2, <1>3, <2>1 DEF Locked, Holding, ToSend
<1>6. Processed(c)'
  BY <1>2, <1>3 DEF Processed, Tried
<1>7. \A d \in Calls : d # c => Ordered(d)' /\ Locked(d)' /\ Processed(d)'
  BY <1>2, SameCall DEF IInv
<1>8. QED
  BY <1>1, <1>2, <1>4, <1>5, <1>6, <1>7 DEF CallsOK

\* The pool while nothing in it changes.
LEMMA PoolUnchanged ==
  ASSUME IInv, UNCHANGED <<wsConns, lock, conns, processed>>,
         lock # None => call'[lock] = call[lock]
  PROVE  Pooled' /\ ConnsOK'
<1>1. Conn(lock)' = Conn(lock) \/ lock = None
  BY DEF Conn, Address
<1>2. Pooled'
  BY <1>1 DEF IInv, Pooled, Ids
<1>3. \A k \in Ids : InUse(k)' <=> InUse(k)
  BY <1>1 DEF InUse
<1>4. ConnsOK'
  BY <1>3, SameConn DEF IInv, ConnsOK, Ids, InUse
<1>5. QED
  BY <1>2, <1>4

LEMMA IdleSteps ==
  ASSUME IInv, NEW c \in Calls, NEW r \in CallRecord, call' = [call EXCEPT ![c] = r],
         call' \in [Calls -> CallRecord], CallsOK', ~Holding(c),
         UNCHANGED <<peers, wsConns, lock, dialing, redial, conns, processed>>
  PROVE  IInv'
<1>1. lock # c
  BY DEF IInv, CallsOK, Locked
<1>2. lock # None => call'[lock] = call[lock]
  BY <1>1 DEF IInv, TypeOK
<1>3. Pooled' /\ ConnsOK'
  BY <1>2, PoolUnchanged
<1>4. TypeOK'
  BY DEF IInv, TypeOK, CallRecord, Pcs
<1>5. QED
  BY <1>3, <1>4 DEF IInv

LEMMA BeginStep ==
  ASSUME IInv, NEW c \in Calls, NEW a \in Rounds, Begin(c, a)
  PROVE  IInv'
<1>1. call[c] \in CallRecord
  BY DEF IInv, TypeOK, CallRecord, Pcs
<1>2. a \in [list : Seq(Peers), batches : Nat, ids : Nat] /\ a.list # <<>>
      /\ 1..Len(a.list) \subseteq Entries
  BY BroadcastAssumption DEF Entries
<1>3. PICK r : r = [call[c] EXCEPT !.pc = "checking", !.todo = a.list,
                                   !.batches = a.batches, !.ids = a.ids]
  OBVIOUS
<1>4. /\ r \in CallRecord /\ r.pc = "checking" /\ r.todo = a.list
      /\ r.sent = call[c].sent /\ r.answered = call[c].answered /\ r.foreign = call[c].foreign
      /\ r.ok = call[c].ok /\ r.failed = call[c].failed
  BY <1>1, <1>2, <1>3 DEF CallRecord, Pcs
<1>5. call' = [call EXCEPT ![c] = r] /\ call[c].pc = "idle"
      /\ UNCHANGED <<peers, wsConns, lock, dialing, redial, conns, processed>>
  BY <1>3 DEF Begin
<1>6. ~Holding(c) /\ call[c].sent = 0 /\ call[c].answered = 0 /\ Tried(c) = {}
  BY <1>5 DEF IInv, CallsOK, Locked, Ordered, Holding
<1>7. call[c].ok = {} /\ call[c].failed = {}
  BY <1>6 DEF Tried
<1>8. call' \in [Calls -> CallRecord] /\ CallsOK'
  BY <1>2, <1>4, <1>5, <1>6, <1>7, OwnStep
<1>9. QED
  BY <1>4, <1>5, <1>6, <1>8, IdleSteps

\* The call's program counter moves on, short of holding the pool.
LEMMA GoingTo ==
  ASSUME IInv, NEW c \in Calls, NEW pc \in {"dialing", "locking"}, GoTo(c, pc),
         call[c].pc \in {"checking", "dialing"}, UNCHANGED <<lock, processed>>
  PROVE  \E r \in CallRecord : /\ call' = [call EXCEPT ![c] = r] /\ ~Holding(c)
                               /\ call' \in [Calls -> CallRecord] /\ CallsOK'
<1>1. call[c] \in CallRecord
  BY DEF IInv, TypeOK, CallRecord, Pcs
<1>2. PICK r : r = [call[c] EXCEPT !.pc = pc]
  OBVIOUS
<1>3. /\ r \in CallRecord /\ r.pc = pc /\ r.todo = call[c].todo /\ r.batches = call[c].batches
      /\ r.sent = call[c].sent /\ r.answered = call[c].answered /\ r.foreign = call[c].foreign
      /\ r.ok = call[c].ok /\ r.failed = call[c].failed
  BY <1>1, <1>2 DEF CallRecord, Pcs
<1>4. call' = [call EXCEPT ![c] = r] /\ ~Holding(c)
  BY <1>2 DEF GoTo, Holding
<1>5. /\ call[c].sent = 0 /\ call[c].answered = 0 /\ call[c].todo # <<>>
      /\ 1..Len(call[c].todo) \subseteq Entries
      /\ \A e \in call[c].ok \cup call[c].failed : e > Len(call[c].todo)
  BY <1>4 DEF IInv, CallsOK, Locked, Ordered, Tried
<1>6. call' \in [Calls -> CallRecord] /\ CallsOK'
  BY <1>3, <1>4, <1>5, OwnStep
<1>7. QED
  BY <1>3, <1>4, <1>6

LEMMA CheckStep ==
  ASSUME IInv, NEW c \in Calls, Check(c)
  PROVE  IInv'
<1>1. PICK pc \in {"dialing", "locking"} : GoTo(c, pc)
  BY DEF Check
<1>2. call[c].pc \in {"checking", "dialing"}
      /\ UNCHANGED <<peers, wsConns, lock, dialing, redial, conns, processed>>
  BY DEF Check
<1>3. QED
  BY <1>1, <1>2, GoingTo, IdleSteps

\* The address failed before the pool was locked for it.
LEMMA GivenUp ==
  ASSUME IInv, NEW c \in Calls, call[c].pc \in {"dialing", "locking"},
         NextAddress(c, {}, {Entry(c)}),
         UNCHANGED <<peers, wsConns, lock, dialing, redial, conns, processed>>
  PROVE  IInv'
<1>1. PICK r \in CallRecord : call' = [call EXCEPT ![c] = r] /\ Turned(c, r, {}, {Entry(c)})
  BY NextAddressOf
<1>2. ~Holding(c)
  BY DEF Holding
<1>3. /\ r.pc \notin {"idle", "sending", "reading"} /\ (r.pc # "done" => r.todo # <<>>)
      /\ r.sent = 0 /\ r.answered = 0 /\ r.foreign = call[c].foreign /\ r.batches = call[c].batches
      /\ 1..Len(r.todo) \subseteq Entries
      /\ r.ok = call[c].ok /\ call[c].failed \subseteq r.failed
      /\ \A e \in r.ok \cup r.failed : e > Len(r.todo)
  BY <1>1 DEF Turned, Tried
<1>4. call' \in [Calls -> CallRecord] /\ CallsOK'
  BY <1>1, <1>2, <1>3, OwnStep
<1>5. QED
  BY <1>1, <1>2, <1>4, IdleSteps

----------------------------------------------------------------------------
(* Connections that are made, and the pool they enter.                     *)

\* The connections are well formed and within their capacities.
Fits(r) == r \in Connection /\ Len(r.requests) <= RequestCap /\ Len(r.answers) <= AnswerCap
Wired == conns \in Seq(Connection) /\ \A k \in Ids : Fits(conns[k])

LEMMA IsWired ==
  ASSUME TypeOK
  PROVE  Wired /\ Len(conns) \in Nat
<1>1. conns \in Seq(Connection)
  BY DEF TypeOK, Connection
<1>2. \A k \in Ids : conns[k] \in Connection
  BY <1>1, ElementOfSeq DEF Ids
<1>3. \A k \in Ids : Len(conns[k].requests) <= RequestCap /\ Len(conns[k].answers) <= AnswerCap
  BY DEF TypeOK, Ids
<1>4. QED
  BY <1>1, <1>2, <1>3 DEF Wired, Fits

LEMMA ReplacedConn ==
  ASSUME Wired, NEW k \in Ids, NEW r, Fits(r), NEW to, to = [conns EXCEPT ![k] = r]
  PROVE  /\ to \in Seq(Connection) /\ Len(to) = Len(conns) /\ to[k] = r
         /\ \A i \in Ids : i # k => to[i] = conns[i]
         /\ \A i \in Ids : Fits(to[i])
BY ExceptSeq DEF Wired, Fits, Ids

LEMMA NewConnFits ==
  ASSUME NEW p \in Peers
  PROVE  /\ Fits(NewConn(p)) /\ NewConn(p).peer = p /\ ~NewConn(p).broken
         /\ NewConn(p).requests = <<>> /\ NewConn(p).answers = <<>> /\ NewConn(p).handling = None
<1>1. RequestCap \in Nat /\ AnswerCap \in Nat
  BY BroadcastAssumption
<1>2. Len(<<>>) = 0 /\ <<>> \in Seq(Message)
  OBVIOUS
<1>3. QED
  BY <1>1, <1>2 DEF NewConn, Fits, Connection

\* A broken connection is quiet and keeps its peer.
LEMMA BrokenConn ==
  ASSUME Wired, NEW k \in Ids, NEW to, to = Broken(k)
  PROVE  /\ to \in Seq(Connection) /\ Len(to) = Len(conns)
         /\ to[k].broken /\ to[k].peer = conns[k].peer
         /\ to[k].requests = <<>> /\ to[k].answers = <<>> /\ to[k].handling = None
         /\ \A i \in Ids : i # k => to[i] = conns[i]
         /\ \A i \in Ids : Fits(to[i])
<1>1. conns[k].peer \in Peers
  BY DEF Wired, Fits, Connection
<1>2. PICK n : n = NewConn(conns[k].peer)
  OBVIOUS
<1>3. PICK r : r = [n EXCEPT !.broken = TRUE]
  OBVIOUS
<1>4. /\ Fits(n) /\ n.peer = conns[k].peer
      /\ n.requests = <<>> /\ n.answers = <<>> /\ n.handling = None
  BY <1>1, <1>2, NewConnFits
<1>5. /\ Fits(r) /\ r.peer = conns[k].peer /\ r.broken
      /\ r.requests = <<>> /\ r.answers = <<>> /\ r.handling = None
  BY <1>3, <1>4 DEF Fits, Connection
<1>6. to = [conns EXCEPT ![k] = r]
  BY <1>2, <1>3 DEF Broken
<1>7. /\ to \in Seq(Connection) /\ Len(to) = Len(conns) /\ to[k] = r
      /\ \A i \in Ids : i # k => to[i] = conns[i]
      /\ \A i \in Ids : Fits(to[i])
  BY <1>5, <1>6, ReplacedConn
<1>8. QED
  BY <1>5, <1>7

LEMMA InsertStep ==
  ASSUME IInv, NEW p \in Peers, lock = None, lock' = None, Inserted(p)
  PROVE  Wired' /\ wsConns' \in [Peers -> Ids' \cup {None}] /\ Pooled' /\ ConnsOK'
<1> DEFINE k0 == wsConns[p]
           n == Len(conns)
<1>1. Wired /\ wsConns \in [Peers -> Ids \cup {None}] /\ n \in Nat /\ Ids = 1..n
      /\ \A k \in Ids : k # None
  <2>1. Wired /\ n \in Nat
    BY IsWired DEF IInv
  <2>2. wsConns \in [Peers -> Ids \cup {None}] /\ Ids = 1..n
    BY DEF IInv, TypeOK, Ids
  <2>3. \A k \in Ids : k # None
    BY <2>1, <2>2, BroadcastAssumption
  <2>4. QED
    BY <2>1, <2>2, <2>3
<1>2. PICK mid : mid = Dropped(k0)
  OBVIOUS
<1>3. /\ mid \in Seq(Connection) /\ Len(mid) = n
      /\ \A k \in Ids : /\ Fits(mid[k]) /\ mid[k].peer = conns[k].peer
                        /\ k # k0 => mid[k] = conns[k]
                        /\ k = k0 => mid[k].broken
      /\ \A k \in Ids : mid[k].requests = <<>> /\ mid[k].answers = <<>> /\ mid[k].handling = None
  <2>1. \A k \in Ids : Quiet(k)
    BY DEF IInv, ConnsOK, ConnOK, InUse
  <2>2. CASE k0 = None
    BY <1>1, <1>2, <2>1, <2>2 DEF Dropped, Wired, Quiet
  <2>3. CASE k0 # None
    <3>1. k0 \in Ids /\ mid = Broken(k0)
      BY <1>1, <1>2, <2>3 DEF Dropped
    <3>2. /\ mid \in Seq(Connection) /\ Len(mid) = Len(conns)
          /\ mid[k0].broken /\ mid[k0].peer = conns[k0].peer
          /\ mid[k0].requests = <<>> /\ mid[k0].answers = <<>> /\ mid[k0].handling = None
          /\ \A i \in Ids : i # k0 => mid[i] = conns[i]
          /\ \A i \in Ids : Fits(mid[i])
      BY <1>1, <3>1, BrokenConn
    <3>3. QED
      BY <2>1, <3>1, <3>2 DEF Quiet
  <2>4. QED
    BY <2>2, <2>3
<1>4. Fits(NewConn(p)) /\ NewConn(p) \in Connection
  BY NewConnFits DEF Fits
<1>5. conns' = Append(mid, NewConn(p)) /\ wsConns' = [wsConns EXCEPT ![p] = n + 1]
  BY <1>2 DEF Inserted, NewId
<1>6. /\ conns' \in Seq(Connection) /\ Len(conns') = n + 1
      /\ conns'[n + 1] = NewConn(p)
      /\ \A k \in Ids : conns'[k] = mid[k]
  BY <1>1, <1>3, <1>4, <1>5, AppendTo
<1>7. Ids' = 1..(n + 1) /\ \A k \in Ids' : k = n + 1 \/ k \in Ids
  BY <1>1, <1>6 DEF Ids
<1>8. Wired'
  BY <1>3, <1>4, <1>6, <1>7 DEF Wired
<1>9. wsConns' \in [Peers -> Ids' \cup {None}]
  BY <1>1, <1>5, <1>7
<1>10. Pooled'
  <2>1. ASSUME NEW u \in Peers, wsConns'[u] # None PROVE conns'[wsConns'[u]].peer = u
    <3>1. CASE u = p
      BY <1>1, <1>5, <1>6, <3>1, NewConnFits
    <3>2. CASE u # p
      <4>1. wsConns'[u] = wsConns[u] /\ wsConns[u] \in Ids
        BY <1>1, <1>5, <2>1, <3>2
      <4>2. conns[wsConns[u]].peer = u
        BY <2>1, <4>1 DEF IInv, Pooled
      <4>3. QED
        BY <1>3, <1>6, <4>1, <4>2
    <3>3. QED
      BY <3>1, <3>2
  <2>2. ASSUME NEW k \in Ids', ~conns'[k].broken PROVE wsConns'[conns'[k].peer] = k
    <3>1. CASE k = n + 1
      BY <1>1, <1>5, <1>6, <3>1, NewConnFits
    <3>2. CASE k \in Ids
      <4>1. k # k0 /\ conns'[k] = conns[k]
        BY <1>3, <1>6, <2>2, <3>2
      <4>2. wsConns[conns[k].peer] = k /\ conns[k].peer \in Peers
        BY <1>1, <2>2, <3>2, <4>1 DEF IInv, Pooled, Wired, Fits, Connection
      <4>3. QED
        BY <1>1, <1>5, <4>1, <4>2
    <3>3. QED
      BY <1>7, <3>1, <3>2
  <2>3. QED
    BY <2>1, <2>2 DEF Pooled
<1>11. ConnsOK'
  <2>1. \A k \in Ids' : Quiet(k)'
    BY <1>3, <1>6, <1>7, NewConnFits DEF Quiet
  <2>2. QED
    BY <2>1 DEF ConnsOK, ConnOK, InUse
<1>12. QED
  BY <1>8, <1>9, <1>10, <1>11

\* TypeOK from its parts.
LEMMA TypeFromParts ==
  ASSUME TypeOK, Wired', wsConns' \in [Peers -> Ids' \cup {None}], lock' \in Calls \cup {None},
         call' \in [Calls -> CallRecord], processed' \in [Calls -> [Entries -> Nat]],
         peers' \subseteq Peers, dialing' \in [Peers -> Nat], redial' \in Peers \cup {None}
  PROVE  TypeOK'
BY DEF TypeOK, Wired, Fits, Connection, CallRecord, Pcs, Ids

LEMMA ConnectedStep ==
  ASSUME IInv, NEW c \in Calls, Connected(c)
  PROVE  IInv'
<1>1. /\ call[c].pc = "dialing" /\ lock = None /\ Inserted(Address(c)) /\ GoTo(c, "locking")
      /\ UNCHANGED <<peers, lock, dialing, redial, processed>>
  BY DEF Connected, Free
<1>2. Address(c) \in Peers
  <2>1. call[c].todo \in Seq(Peers) /\ call[c].todo # <<>>
    BY <1>1 DEF IInv, TypeOK, CallsOK, Ordered
  <2>2. QED
    BY <2>1, TailOf DEF Address
<1>3. call' \in [Calls -> CallRecord] /\ CallsOK'
  BY <1>1, GoingTo
<1>4. Wired' /\ wsConns' \in [Peers -> Ids' \cup {None}] /\ Pooled' /\ ConnsOK'
  BY <1>1, <1>2, InsertStep
<1>5. TypeOK'
  BY <1>1, <1>3, <1>4, TypeFromParts DEF IInv, TypeOK
<1>6. QED
  BY <1>3, <1>4, <1>5 DEF IInv

\* The dials of add_peer and of the redial loop.
LEMMA DialSteps ==
  ASSUME IInv, Redialed \/ \E p \in Peers : AddPeer(p) \/ Dialed(p) \/ RedialCheck(p)
  PROVE  IInv'
<1>1. /\ UNCHANGED <<lock, call, processed>>
      /\ peers' \subseteq Peers /\ dialing' \in [Peers -> Nat] /\ redial' \in Peers \cup {None}
  <2>1. \A p \in Peers : dialing[p] \in Nat
    BY DEF IInv, TypeOK
  <2>2. dialing' = dialing \/ \E p \in Peers :
          \/ dialing' = [dialing EXCEPT ![p] = @ + 1]
          \/ dialing[p] > 0 /\ dialing' = [dialing EXCEPT ![p] = @ - 1]
    BY DEF Redialed, AddPeer, Dialed, RedialCheck
  <2>3. dialing' \in [Peers -> Nat]
    BY <2>1, <2>2 DEF IInv, TypeOK
  <2>4. /\ UNCHANGED <<lock, call, processed>>
        /\ peers' \subseteq Peers /\ redial' \in Peers \cup {None}
    BY BroadcastAssumption DEF IInv, TypeOK, Redialed, AddPeer, Dialed, RedialCheck
  <2>5. QED
    BY <2>3, <2>4
<1>2. \/ UNCHANGED <<wsConns, conns>>
      \/ lock = None /\ \E p \in Peers : Inserted(p)
  <2>1. redial # None => redial \in Peers
    BY DEF IInv, TypeOK
  <2>2. QED
    BY <2>1 DEF Redialed, AddPeer, Dialed, RedialCheck, Free
<1>3. CallsOK'
  BY <1>1, SameCall DEF IInv, CallsOK
<1>4. Wired' /\ wsConns' \in [Peers -> Ids' \cup {None}] /\ Pooled' /\ ConnsOK'
  <2>1. CASE UNCHANGED <<wsConns, conns>>
    <3>1. Wired' /\ wsConns' \in [Peers -> Ids' \cup {None}]
      BY <2>1, IsWired DEF IInv, TypeOK, Wired, Ids
    <3>2. QED
      BY <1>1, <2>1, <3>1, PoolUnchanged
  <2>2. QED
    BY <1>1, <1>2, <2>1, InsertStep
<1>5. TypeOK'
  BY <1>1, <1>4, TypeFromParts DEF IInv, TypeOK, CallRecord, Pcs
<1>6. QED
  BY <1>3, <1>4, <1>5 DEF IInv

----------------------------------------------------------------------------
(* The call that holds the pool.                                           *)

\* It has an address, and an entry that it has not tried yet.
LEMMA CurrentEntry ==
  ASSUME IInv, NEW c \in Calls, call[c].pc \notin {"idle", "done"}
  PROVE  Address(c) \in Peers /\ Entry(c) \in Entries \ Tried(c) /\ MessageOf(c) \in Message
<1>1. call[c].todo \in Seq(Peers)
  BY DEF IInv, TypeOK
<1>2. /\ call[c].todo # <<>> /\ 1..Len(call[c].todo) \subseteq Entries
      /\ \A e \in Tried(c) : e > Len(call[c].todo)
  BY DEF IInv, CallsOK, Ordered
<1>3. Address(c) \in Peers
  BY <1>1, <1>2, TailOf DEF Address
<1>4. Entry(c) \in Entries /\ Entry(c) \notin Tried(c)
  BY <1>1, <1>2, TailOf DEF Entry
<1>5. QED
  BY <1>3, <1>4 DEF MessageOf, Message

LEMMA HolderStep ==
  ASSUME IInv, NEW c \in Calls, call[c].pc \notin {"idle", "done"}, lock \in {c, None}, lock' = c,
         NEW r \in CallRecord, call' = [call EXCEPT ![c] = r],
         \A d \in Calls \ {c} : processed'[d] = processed[d],
         \A e \in Entries \ {Entry(c)} : processed'[c][e] = processed[c][e],
         r.pc \in {"sending", "reading"}, r.todo = call[c].todo, ~r.foreign,
         r.ok = call[c].ok, r.failed = call[c].failed, r.batches = call[c].batches,
         r.ids = call[c].ids, r.sent <= ToSend(c),
         r.answered <= processed'[c][Entry(c)], processed'[c][Entry(c)] <= r.sent
  PROVE  call' \in [Calls -> CallRecord] /\ CallsOK' /\ call'[c] = r /\ Address(c)' = Address(c)
         /\ Entry(c)' = Entry(c) /\ MessageOf(c)' = MessageOf(c)
<1>1. call \in [Calls -> CallRecord]
  BY DEF IInv, TypeOK, CallRecord, Pcs
<1>2. call'[c] = r /\ \A d \in Calls : d # c => call'[d] = call[d]
  BY <1>1
<1>3. Ordered(c) /\ Processed(c)
  BY DEF IInv, CallsOK
<1>4. Address(c)' = Address(c) /\ Entry(c)' = Entry(c) /\ MessageOf(c)' = MessageOf(c)
  BY <1>2 DEF Address, Entry, MessageOf
<1>5. Ordered(c)'
  BY <1>2, <1>3 DEF Ordered, Tried
<1>6. Locked(c)'
  BY <1>2 DEF Locked, Holding, ToSend
<1>7. Processed(c)'
  <2>1. \A e \in Entries \ Tried(c) : e # Entry(c) => processed'[c][e] = 0
    BY <1>3 DEF Processed
  <2>2. Entry(c) \in Entries \ Tried(c)
    BY CurrentEntry
  <2>3. \A e \in call[c].ok : processed'[c][e] = call[c].batches
    BY <1>3, <2>2 DEF Processed, Tried, IInv, TypeOK
  <2>4. QED
    BY <1>2, <1>3, <1>4, <2>1, <2>3 DEF Processed, Tried
<1>8. ASSUME NEW d \in Calls, d # c PROVE Ordered(d)' /\ Locked(d)' /\ Processed(d)'
  <2>1. lock' # d /\ lock # d
    BY <1>8, BroadcastAssumption
  <2>2. QED
    BY <1>2, <1>8, <2>1, SameCall DEF IInv
<1>9. QED
  BY <1>1, <1>2, <1>4, <1>5, <1>6, <1>7, <1>8 DEF CallsOK

\* Its connection, as long as that works.
LEMMA UsedConn ==
  ASSUME IInv, NEW c \in Calls, lock = c, Usable(c), NEW k, k = Conn(c)
  PROVE  /\ k \in Ids /\ InUse(k) /\ Balanced(k, c) /\ Fits(conns[k])
         /\ conns[k].peer = Address(c) /\ ~conns[k].broken
         /\ Entry(c) \in Entries /\ processed[c][Entry(c)] \in Nat
         /\ MessageOf(c) \in Message /\ Holding(c)
<1>1. Holding(c) /\ lock # None
  BY BroadcastAssumption DEF IInv, CallsOK, Locked
<1>2. Address(c) \in Peers /\ Entry(c) \in Entries /\ MessageOf(c) \in Message
  BY <1>1, CurrentEntry DEF Holding
<1>3. k # None /\ k = wsConns[Address(c)] /\ ~conns[k].broken
  BY DEF Usable, Conn
<1>4. k \in Ids
  BY <1>2, <1>3 DEF IInv, TypeOK, Ids
<1>5. InUse(k)
  BY <1>1, <1>3 DEF InUse
<1>6. Balanced(k, c) /\ Fits(conns[k])
  BY <1>4, <1>5, IsWired DEF IInv, ConnsOK, ConnOK, Wired
<1>7. conns[k].peer = Address(c)
  BY <1>2, <1>3 DEF IInv, Pooled
<1>8. QED
  BY <1>1, <1>2, <1>3, <1>4, <1>5, <1>6, <1>7 DEF IInv, TypeOK

\* A step on that connection.
LEMMA UsedStep ==
  ASSUME IInv, NEW c \in Calls, lock = c, lock' = c, Usable(c), NEW k, k = Conn(c),
         wsConns' = wsConns, Address(c)' = Address(c), Entry(c)' = Entry(c),
         NEW r, Fits(r), r.peer = conns[k].peer, ~r.broken,
         conns' = [conns EXCEPT ![k] = r],
         OfCall(r, MessageOf(c), call'[c].sent, call'[c].answered, processed'[c][Entry(c)])
  PROVE  Wired' /\ Ids' = Ids /\ Pooled' /\ ConnsOK'
<1>1. k \in Ids /\ InUse(k) /\ ~conns[k].broken
  BY UsedConn
<1>2. Wired
  BY IsWired DEF IInv
<1>3. /\ conns' \in Seq(Connection) /\ Len(conns') = Len(conns) /\ conns'[k] = r
      /\ \A i \in Ids : i # k => conns'[i] = conns[i]
      /\ \A i \in Ids : Fits(conns'[i])
  <2>1. conns \in Seq(Connection) /\ k \in 1..Len(conns) /\ r \in Connection
    BY <1>1, <1>2 DEF Wired, Fits, Ids
  <2>2. /\ conns' \in Seq(Connection) /\ Len(conns') = Len(conns) /\ conns'[k] = r
        /\ \A i \in 1..Len(conns) : i # k => conns'[i] = conns[i]
    BY ONLY <2>1, conns' = [conns EXCEPT ![k] = r], ReplacedAt
  <2>3. \A i \in Ids : Fits(conns'[i])
    BY <1>2, <2>2 DEF Wired, Ids
  <2>4. QED
    BY <2>2, <2>3 DEF Ids
<1>4. Ids' = Ids /\ Conn(c)' = k
  BY <1>3 DEF Ids, Conn
<1>5. Wired'
  BY <1>3, <1>4 DEF Wired
<1>6. Pooled'
  <2>1. \A i \in Ids : conns'[i].peer = conns[i].peer /\ (~conns'[i].broken => ~conns[i].broken)
    BY <1>1, <1>3
  <2>2. \A p \in Peers : wsConns[p] # None => wsConns[p] \in Ids
    BY DEF IInv, TypeOK, Ids
  <2>3. k # None
    BY DEF Usable
  <2>4. QED
    BY <1>4, <2>1, <2>2, <2>3 DEF IInv, Pooled
<1>7. \A i \in Ids : i # k => Quiet(i) /\ ~InUse(i)'
  BY <1>4 DEF IInv, ConnsOK, ConnOK, InUse
<1>8. ConnsOK'
  <2>1. \A i \in Ids : i # k => ConnOK(i)'
    BY <1>3, <1>7 DEF ConnOK, Quiet
  <2>2. ConnOK(k)'
    <3>1. InUse(k)'
      BY <1>1, <1>3, <1>4 DEF InUse
    <3>2. Balanced(k, c)'
      BY <1>3 DEF Balanced, MessageOf
    <3>3. QED
      BY <3>1, <3>2 DEF ConnOK
  <2>3. QED
    BY <1>4, <2>1, <2>2 DEF ConnsOK
<1>9. QED
  BY <1>4, <1>5, <1>6, <1>8

LEMMA LockStep ==
  ASSUME IInv, NEW c \in Calls, Lock(c)
  PROVE  IInv'
<1>1. call[c].pc = "locking" /\ lock = None
      /\ UNCHANGED <<peers, wsConns, dialing, redial, conns, processed>>
  BY DEF Lock, Free
<1>2. CASE Conn(c) = None
  BY <1>1, <1>2, GivenUp DEF Lock
<1>3. CASE Conn(c) # None
  <2>1. GoTo(c, "sending") /\ lock' = c
    BY <1>3 DEF Lock
  <2>2. call[c] \in CallRecord /\ processed[c] \in [Entries -> Nat]
    BY DEF IInv, TypeOK, CallRecord, Pcs
  <2>3. PICK r : r = [call[c] EXCEPT !.pc = "sending"]
    OBVIOUS
  <2>4. /\ r \in CallRecord /\ r.pc = "sending" /\ r.todo = call[c].todo
        /\ r.batches = call[c].batches /\ r.ids = call[c].ids
        /\ r.sent = call[c].sent /\ r.answered = call[c].answered /\ r.foreign = call[c].foreign
        /\ r.ok = call[c].ok /\ r.failed = call[c].failed
    BY <2>2, <2>3 DEF CallRecord, Pcs
  <2>5. call' = [call EXCEPT ![c] = r]
    BY <2>1, <2>3 DEF GoTo
  <2>6. lock # c /\ c # None
    BY <1>1, BroadcastAssumption
  <2>7. Address(c) \in Peers /\ Entry(c) \in Entries \ Tried(c)
    BY <1>1, CurrentEntry
  <2>8. /\ call[c].sent = 0 /\ call[c].answered = 0 /\ call[c].sent <= ToSend(c)
        /\ ~call[c].foreign /\ processed[c][Entry(c)] = 0
    BY <1>1, <2>6, <2>7 DEF IInv, CallsOK, Locked, Processed, Holding
  <2>9. call' \in [Calls -> CallRecord] /\ CallsOK' /\ call'[c] = r /\ Address(c)' = Address(c)
         /\ Entry(c)' = Entry(c) /\ MessageOf(c)' = MessageOf(c)
    <3>1. ~r.foreign
      BY <2>4, <2>8
    <3>2. r.sent <= ToSend(c) /\ r.answered <= processed[c][Entry(c)] /\ processed[c][Entry(c)] <= r.sent
      BY <2>4, <2>8
    <3>3. lock \in {c, None} /\ call[c].pc \notin {"idle", "done"} /\ r.pc \in {"sending", "reading"}
      BY <1>1, <2>4
    <3>4. QED
      BY <1>1, <2>1, <2>4, <2>5, <3>1, <3>2, <3>3, HolderStep
  <2>10. Conn(c)' = Conn(c) /\ Ids' = Ids
    BY <1>1, <2>9 DEF Conn, Ids
  <2>11. Pooled'
    BY <1>1, <1>3, <2>1, <2>10 DEF IInv, Pooled
  <2>12. ConnsOK'
    <3> SUFFICES ASSUME NEW k \in Ids PROVE ConnOK(k)'
      BY <2>10 DEF ConnsOK
    <3>1. Quiet(k)
      BY <1>1 DEF IInv, ConnsOK, ConnOK, InUse
    <3>2. CASE ~InUse(k)'
      BY <1>1, <3>1, <3>2 DEF ConnOK, Quiet
    <3>3. CASE InUse(k)'
      <4>1. k = wsConns[Address(c)] /\ wsConns[Address(c)] # None
        BY <1>3, <2>1, <2>10, <3>3 DEF InUse, Conn
      <4>2. conns[k].peer = Address(c)
        BY <2>7, <4>1 DEF IInv, Pooled
      <4>3. AllOf(<<>>, MessageOf(c)) /\ Len(<<>>) = 0
        BY DEF AllOf
      <4>4. Balanced(k, c)'
        BY <1>1, <2>4, <2>8, <2>9, <3>1, <4>2, <4>3 DEF Balanced, OfCall, Quiet, AtHandler
      <4>5. QED
        BY <2>1, <3>3, <4>4 DEF ConnOK
    <3>4. QED
      BY <3>2, <3>3
  <2>13. TypeOK'
    <3>1. Wired'
      BY <1>1, <2>10, IsWired DEF IInv, Wired
    <3>2. QED
      BY <1>1, <2>1, <2>9, <2>10, <3>1, TypeFromParts DEF IInv, TypeOK, Ids
  <2>14. QED
    BY <2>9, <2>11, <2>12, <2>13 DEF IInv
<1>4. QED
  BY <1>2, <1>3

\* A step of the holder on its connection, from what becomes of the two.
LEMMA UseStep ==
  ASSUME IInv, NEW c \in Calls, lock = c, lock' = c, Usable(c), NEW k, k = Conn(c),
         UNCHANGED <<peers, wsConns, dialing, redial>>,
         NEW r \in CallRecord, call' = [call EXCEPT ![c] = r],
         r.pc \in {"sending", "reading"}, r.todo = call[c].todo, ~r.foreign,
         r.ok = call[c].ok, r.failed = call[c].failed, r.batches = call[c].batches,
         r.ids = call[c].ids, r.sent <= ToSend(c),
         processed' \in [Calls -> [Entries -> Nat]],
         \A d \in Calls \ {c} : processed'[d] = processed[d],
         \A e \in Entries \ {Entry(c)} : processed'[c][e] = processed[c][e],
         NEW n, Fits(n), n.peer = conns[k].peer, ~n.broken,
         conns' = [conns EXCEPT ![k] = n],
         OfCall(n, MessageOf(c), r.sent, r.answered, processed'[c][Entry(c)])
  PROVE  IInv'
<1>1. Holding(c) /\ conns[k].peer = Address(c)
  BY UsedConn
<1>2. call[c].pc \notin {"idle", "done"}
  BY <1>1 DEF Holding
<1>3. r.answered <= processed'[c][Entry(c)] /\ processed'[c][Entry(c)] <= r.sent
  <2>1. Len(n.requests) \in Nat /\ Len(n.answers) \in Nat /\ AtHandler(n) \in Nat
    BY DEF Fits, Connection, AtHandler
  <2>2. r.answered \in Nat
    BY DEF CallRecord
  <2>3. QED
    BY <2>1, <2>2 DEF OfCall
<1>4. call' \in [Calls -> CallRecord] /\ CallsOK' /\ call'[c] = r /\ Address(c)' = Address(c)
         /\ Entry(c)' = Entry(c) /\ MessageOf(c)' = MessageOf(c)
  BY <1>2, <1>3, HolderStep
<1>5. Wired' /\ Ids' = Ids /\ Pooled' /\ ConnsOK'
  BY <1>1, <1>4, UsedStep
<1>6. wsConns' \in [Peers -> Ids' \cup {None}]
  BY <1>5 DEF IInv, TypeOK, Ids
<1>7. TypeOK'
  BY <1>4, <1>5, <1>6, TypeFromParts DEF IInv, TypeOK
<1>8. QED
  BY <1>4, <1>5, <1>7 DEF IInv

\* What a request, its service, its answer and the reading of it do to the
\* connection of a call.
LEMMA Requested ==
  ASSUME NEW n, Fits(n), ~n.broken, NEW e \in Message, NEW s \in Nat, NEW a \in Nat, NEW d,
         OfCall(n, e, s, a, d), Len(n.requests) < RequestCap,
         NEW m, m = [n EXCEPT !.requests = Append(@, e)]
  PROVE  Fits(m) /\ m.peer = n.peer /\ ~m.broken /\ OfCall(m, e, s + 1, a, d)
<1>1. n.requests \in Seq(Message) /\ n.answers \in Seq(Message) /\ RequestCap \in Nat
  BY BroadcastAssumption DEF Fits, Connection
<1>2. PICK q : q = Append(n.requests, e)
  OBVIOUS
<1>3. q \in Seq(Message) /\ Len(q) = Len(n.requests) + 1 /\ AllOf(q, e)
  BY <1>1, <1>2, AppendTo DEF AllOf, OfCall
<1>4. /\ m \in Connection /\ m.requests = q /\ m.answers = n.answers
      /\ m.handling = n.handling /\ m.peer = n.peer /\ ~m.broken
  BY <1>2, <1>3 DEF Fits, Connection
<1>5. Fits(m)
  BY <1>1, <1>3, <1>4 DEF Fits
<1>6. OfCall(m, e, s + 1, a, d)
  <2>1. Len(n.requests) \in Nat /\ Len(n.answers) \in Nat /\ AtHandler(n) \in Nat
    BY <1>1 DEF AtHandler
  <2>2. AtHandler(m) = AtHandler(n)
    BY <1>4 DEF AtHandler
  <2>3. s = a + Len(n.answers) + AtHandler(n) + Len(n.requests)
    BY DEF OfCall
  <2>4. s + 1 = a + Len(m.answers) + AtHandler(m) + Len(m.requests)
    <3>1. Len(m.requests) = Len(n.requests) + 1 /\ Len(m.answers) = Len(n.answers)
      BY <1>3, <1>4
    <3>2. QED
      BY ONLY <2>1, <2>2, <2>3, <3>1, s \in Nat, a \in Nat
  <2>5. d = a + Len(m.answers) + AtHandler(m)
    BY <1>4, <2>2 DEF OfCall
  <2>6. AllOf(m.requests, e) /\ AllOf(m.answers, e) /\ m.handling \in {None, e}
    BY <1>3, <1>4 DEF OfCall
  <2>7. QED
    BY <2>4, <2>5, <2>6 DEF OfCall
<1>7. QED
  BY <1>4, <1>5, <1>6

AfterServe(n) == [n EXCEPT !.requests = Tail(@), !.handling = Head(n.requests)]
AfterAnswer(n) == [n EXCEPT !.answers = Append(@, n.handling), !.handling = None]

LEMMA Served ==
  ASSUME NEW n, Fits(n), ~n.broken, NEW e \in Message, NEW s \in Nat, NEW a \in Nat, NEW d \in Nat,
         OfCall(n, e, s, a, d), n.handling = None, n.requests # <<>>,
         NEW m, m = AfterServe(n)
  PROVE  /\ Head(n.requests) = e
         /\ Fits(m) /\ m.peer = n.peer /\ ~m.broken /\ OfCall(m, e, s, a, d + 1)
<1>1. n.requests \in Seq(Message) /\ n.answers \in Seq(Message) /\ RequestCap \in Nat
  BY BroadcastAssumption DEF Fits, Connection
<1>2. PICK q : q = Tail(n.requests)
  OBVIOUS
<1>3. /\ q \in Seq(Message) /\ Len(q) = Len(n.requests) - 1 /\ AllOf(q, e)
      /\ Len(n.requests) \in Nat \ {0} /\ Head(n.requests) = e
  <2>1. AllOf(n.requests, e)
    BY DEF OfCall
  <2>2. QED
    BY ONLY <1>1, <1>2, <2>1, n.requests # <<>>, TailOf DEF AllOf
<1>4. /\ m \in Connection /\ m.requests = q /\ m.answers = n.answers
      /\ m.handling = e /\ m.peer = n.peer /\ ~m.broken
  BY <1>2, <1>3 DEF Fits, Connection, AfterServe
<1>5. Fits(m)
  BY <1>1, <1>3, <1>4 DEF Fits
<1>6. OfCall(m, e, s, a, d + 1)
  <2>1. PICK x \in Nat, y \in Nat, h \in Nat :
              x = Len(n.answers) /\ y = Len(n.requests) /\ h = AtHandler(n)
    BY <1>1 DEF AtHandler
  <2>2. s = a + x + h + y /\ d = a + x + h
    BY <2>1 DEF OfCall
  <2>3. h = 0 /\ AtHandler(m) = 1 /\ Len(m.requests) = y - 1 /\ Len(m.answers) = x
    BY <1>1, <1>3, <1>4, <2>1, BroadcastAssumption DEF AtHandler
  <2>4. s = a + x + 1 + (y - 1) /\ d + 1 = a + x + 1
    BY <2>2, <2>3
  <2>5. /\ s = a + Len(m.answers) + AtHandler(m) + Len(m.requests)
        /\ d + 1 = a + Len(m.answers) + AtHandler(m)
    BY ONLY <2>3, <2>4, Zenon
  <2>6. AllOf(m.requests, e) /\ AllOf(m.answers, e) /\ m.handling \in {None, e}
    BY <1>3, <1>4 DEF OfCall
  <2>7. QED
    BY <2>5, <2>6 DEF OfCall
<1>7. QED
  BY <1>3, <1>4, <1>5, <1>6

LEMMA Answered ==
  ASSUME NEW n, Fits(n), ~n.broken, NEW e \in Message, NEW s \in Nat, NEW a \in Nat, NEW d \in Nat,
         OfCall(n, e, s, a, d), n.handling # None, Len(n.answers) < AnswerCap,
         NEW m, m = AfterAnswer(n)
  PROVE  Fits(m) /\ m.peer = n.peer /\ ~m.broken /\ OfCall(m, e, s, a, d)
<1>1. /\ n.requests \in Seq(Message) /\ n.answers \in Seq(Message) /\ AnswerCap \in Nat
      /\ n.handling = e
  BY BroadcastAssumption DEF Fits, Connection, OfCall
<1>2. PICK q : q = Append(n.answers, n.handling)
  OBVIOUS
<1>3. q \in Seq(Message) /\ Len(q) = Len(n.answers) + 1 /\ AllOf(q, e)
  <2>1. AllOf(n.answers, e) /\ q = Append(n.answers, e)
    BY <1>1, <1>2 DEF OfCall
  <2>2. QED
    BY ONLY <1>1, <2>1, e \in Message, AppendTo DEF AllOf
<1>4. /\ m \in Connection /\ m.requests = n.requests /\ m.answers = q
      /\ m.handling = None /\ m.peer = n.peer /\ ~m.broken
  BY <1>2, <1>3 DEF Fits, Connection, AfterAnswer
<1>5. Fits(m)
  BY <1>1, <1>3, <1>4 DEF Fits
<1>6. OfCall(m, e, s, a, d)
  <2>1. PICK x \in Nat, y \in Nat, h \in Nat :
              x = Len(n.answers) /\ y = Len(n.requests) /\ h = AtHandler(n)
    BY <1>1 DEF AtHandler
  <2>2. s = a + x + h + y /\ d = a + x + h
    BY <2>1 DEF OfCall
  <2>3. h = 1 /\ AtHandler(m) = 0 /\ Len(m.requests) = y /\ Len(m.answers) = x + 1
    BY <1>1, <1>3, <1>4, <2>1, BroadcastAssumption DEF AtHandler
  <2>4. s = a + (x + 1) + 0 + y /\ d = a + (x + 1) + 0
    BY <2>2, <2>3
  <2>5. /\ s = a + Len(m.answers) + AtHandler(m) + Len(m.requests)
        /\ d = a + Len(m.answers) + AtHandler(m)
    BY ONLY <2>3, <2>4, Zenon
  <2>6. AllOf(m.requests, e) /\ AllOf(m.answers, e) /\ m.handling \in {None, e}
    BY <1>3, <1>4 DEF OfCall
  <2>7. QED
    BY <2>5, <2>6 DEF OfCall
<1>7. QED
  BY <1>4, <1>5, <1>6

LEMMA WasRead ==
  ASSUME NEW n, Fits(n), ~n.broken, NEW e \in Message, NEW s \in Nat, NEW a \in Nat, NEW d \in Nat,
         OfCall(n, e, s, a, d), n.answers # <<>>,
         NEW m, m = [n EXCEPT !.answers = Tail(@)]
  PROVE  /\ Head(n.answers) = e
         /\ Fits(m) /\ m.peer = n.peer /\ ~m.broken /\ OfCall(m, e, s, a + 1, d)
<1>1. n.requests \in Seq(Message) /\ n.answers \in Seq(Message) /\ AnswerCap \in Nat
  BY BroadcastAssumption DEF Fits, Connection
<1>2. PICK q : q = Tail(n.answers)
  OBVIOUS
<1>3. /\ q \in Seq(Message) /\ Len(q) = Len(n.answers) - 1 /\ AllOf(q, e)
      /\ Len(n.answers) \in Nat \ {0} /\ Head(n.answers) = e
  <2>1. AllOf(n.answers, e)
    BY DEF OfCall
  <2>2. QED
    BY ONLY <1>1, <1>2, <2>1, n.answers # <<>>, TailOf DEF AllOf
<1>4. /\ m \in Connection /\ m.requests = n.requests /\ m.answers = q
      /\ m.handling = n.handling /\ m.peer = n.peer /\ ~m.broken
  BY <1>2, <1>3 DEF Fits, Connection
<1>5. Fits(m)
  BY <1>1, <1>3, <1>4 DEF Fits
<1>6. OfCall(m, e, s, a + 1, d)
  <2>1. PICK x \in Nat, y \in Nat, h \in Nat :
              x = Len(n.answers) /\ y = Len(n.requests) /\ h = AtHandler(n)
    <3>1. AtHandler(n) \in Nat
      BY ONLY DEF AtHandler
    <3>2. Len(n.answers) \in Nat /\ Len(n.requests) \in Nat
      BY ONLY <1>1
    <3>3. QED
      BY ONLY <3>1, <3>2
  <2>2. s = a + x + h + y /\ d = a + x + h
    BY <2>1 DEF OfCall
  <2>3. AtHandler(m) = h /\ Len(m.requests) = y /\ Len(m.answers) = x - 1
    BY <1>1, <1>3, <1>4, <2>1, BroadcastAssumption DEF AtHandler
  <2>4. s = a + 1 + (x - 1) + h + y /\ d = a + 1 + (x - 1) + h
    <3>1. a + 1 + (x - 1) = a + x
      OBVIOUS
    <3>2. QED
      BY ONLY <2>2, <3>1, Zenon
  <2>5. /\ s = a + 1 + Len(m.answers) + AtHandler(m) + Len(m.requests)
        /\ d = a + 1 + Len(m.answers) + AtHandler(m)
    BY ONLY <2>3, <2>4, Zenon
  <2>6. AllOf(m.requests, e) /\ AllOf(m.answers, e) /\ m.handling \in {None, e}
    BY <1>3, <1>4 DEF OfCall
  <2>7. QED
    BY <2>5, <2>6 DEF OfCall
<1>7. QED
  BY <1>3, <1>4, <1>5, <1>6

LEMMA SendStep ==
  ASSUME IInv, NEW c \in Calls, Send(c)
  PROVE  IInv'
<1> PICK k : k = Conn(c)
  OBVIOUS
<1>1. /\ call[c].pc = "sending" /\ call[c].sent < ToSend(c) /\ Usable(c)
      /\ Len(conns[k].requests) < RequestCap
      /\ conns' = [conns EXCEPT ![k].requests = Append(@, MessageOf(c))]
      /\ call' = [call EXCEPT ![c].sent = @ + 1]
      /\ UNCHANGED <<peers, wsConns, lock, dialing, redial, processed>>
  BY DEF Send
<1>2. lock = c /\ Processed(c)
  BY <1>1 DEF IInv, CallsOK, Locked, Holding
<1>3. /\ Balanced(k, c) /\ Fits(conns[k]) /\ conns[k].peer = Address(c) /\ ~conns[k].broken
      /\ MessageOf(c) \in Message
  BY <1>1, <1>2, UsedConn
<1>4. call[c] \in CallRecord
  BY DEF IInv, TypeOK, CallRecord, Pcs
<1>5. PICK r : r = [call[c] EXCEPT !.sent = @ + 1]
  OBVIOUS
<1>6. /\ r \in CallRecord /\ r.pc = call[c].pc /\ r.todo = call[c].todo
      /\ r.batches = call[c].batches /\ r.ids = call[c].ids
      /\ r.sent = call[c].sent + 1 /\ r.answered = call[c].answered
      /\ r.foreign = call[c].foreign
      /\ r.ok = call[c].ok /\ r.failed = call[c].failed
  <2>1. PICK o \in CallRecord : o = call[c]
    BY <1>4
  <2>2. PICK z : z = o.sent + 1
    OBVIOUS
  <2>3. z \in Nat
    BY ONLY <2>1, <2>2, o \in CallRecord DEF CallRecord
  <2>4. r = [o EXCEPT !.sent = z]
    BY ONLY <1>5, <2>1, <2>2
  <2>5. /\ r \in CallRecord /\ r.pc = o.pc /\ r.todo = o.todo
        /\ r.batches = o.batches /\ r.ids = o.ids /\ r.sent = z /\ r.answered = o.answered
        /\ r.foreign = o.foreign /\ r.ok = o.ok /\ r.failed = o.failed
    BY ONLY <2>3, <2>4, o \in CallRecord DEF CallRecord
  <2>6. QED
    BY ONLY <2>1, <2>2, <2>5
<1>7. call[c].sent \in Nat /\ call[c].answered \in Nat /\ ToSend(c) \in Nat
  BY <1>4 DEF CallRecord, ToSend
<1>8. r.sent <= ToSend(c) /\ ~r.foreign /\ r.pc \in {"sending", "reading"}
  BY <1>1, <1>2, <1>6, <1>7 DEF Processed
<1>9. PICK m : m = [conns[k] EXCEPT !.requests = Append(@, MessageOf(c))]
  OBVIOUS
<1>10. /\ Fits(m) /\ m.peer = conns[k].peer /\ ~m.broken
       /\ OfCall(m, MessageOf(c), r.sent, r.answered, processed[c][Entry(c)])
  <2>1. OfCall(conns[k], MessageOf(c), call[c].sent, call[c].answered, processed[c][Entry(c)])
    BY <1>3 DEF Balanced
  <2>2. /\ Fits(m) /\ m.peer = conns[k].peer /\ ~m.broken
        /\ OfCall(m, MessageOf(c), call[c].sent + 1, call[c].answered, processed[c][Entry(c)])
    <3>1. PICK e \in Message, s \in Nat, a \in Nat :
            e = MessageOf(c) /\ s = call[c].sent /\ a = call[c].answered
      BY <1>3, <1>7
    <3> PICK n : n = conns[k]
      OBVIOUS
    <3> PICK d : d = processed[c][Entry(c)]
      OBVIOUS
    <3>2. /\ Fits(n) /\ ~n.broken /\ OfCall(n, e, s, a, d) /\ Len(n.requests) < RequestCap
          /\ m = [n EXCEPT !.requests = Append(@, e)]
      BY <1>1, <1>3, <1>9, <2>1, <3>1
    <3>3. Fits(m) /\ m.peer = n.peer /\ ~m.broken /\ OfCall(m, e, s + 1, a, d)
      BY <3>2, Requested
    <3>4. QED
      BY <3>1, <3>3
  <2>3. QED
    BY <1>6, <2>2
<1>11. call' = [call EXCEPT ![c] = r] /\ conns' = [conns EXCEPT ![k] = m]
  BY <1>1, <1>5, <1>9
<1>12. /\ lock' = c /\ processed' = processed /\ processed' \in [Calls -> [Entries -> Nat]]
       /\ UNCHANGED <<peers, wsConns, dialing, redial>>
  <2>1. processed \in [Calls -> [Entries -> Nat]]
    BY DEF IInv, TypeOK
  <2>2. lock' = lock /\ processed' = processed /\ UNCHANGED <<peers, wsConns, dialing, redial>>
    BY ONLY <1>1
  <2>3. QED
    BY ONLY <1>2, <2>1, <2>2
<1>13. lock = c /\ Usable(c)
  BY <1>1, <1>2
<1>14. /\ \A d \in Calls \ {c} : processed'[d] = processed[d]
       /\ \A e \in Entries \ {Entry(c)} : processed'[c][e] = processed[c][e]
  BY ONLY <1>12
<1>15. OfCall(m, MessageOf(c), r.sent, r.answered, processed'[c][Entry(c)])
  BY ONLY <1>10, <1>12
<1>16. QED
  BY ONLY IInv, c \in Calls, k = Conn(c), <1>6, <1>8, <1>10, <1>11, <1>12, <1>13, <1>14, <1>15,
          UseStep

LEMMA ReadStep ==
  ASSUME IInv, NEW c \in Calls, Read(c)
  PROVE  IInv'
<1> PICK k : k = Conn(c)
  OBVIOUS
<1>1. /\ call[c].pc = "reading" /\ Usable(c) /\ conns[k].answers # <<>>
      /\ conns' = [conns EXCEPT ![k].answers = Tail(@)]
      /\ call' = [call EXCEPT ![c].answered = @ + 1,
                              ![c].foreign = @ \/ Head(conns[k].answers) # MessageOf(c)]
      /\ UNCHANGED <<peers, wsConns, lock, dialing, redial, processed>>
  BY DEF Read
<1>2. lock = c /\ Processed(c) /\ call[c].sent <= ToSend(c)
  BY <1>1 DEF IInv, CallsOK, Locked, Holding
<1>3. /\ Balanced(k, c) /\ Fits(conns[k]) /\ conns[k].peer = Address(c) /\ ~conns[k].broken
      /\ processed[c][Entry(c)] \in Nat /\ MessageOf(c) \in Message
  BY <1>1, <1>2, UsedConn
<1>4. call[c] \in CallRecord
  BY DEF IInv, TypeOK, CallRecord, Pcs
<1>5. call[c].sent \in Nat /\ call[c].answered \in Nat
  BY <1>4 DEF CallRecord
<1>6. PICK m : m = [conns[k] EXCEPT !.answers = Tail(@)]
  OBVIOUS
<1>7. /\ Head(conns[k].answers) = MessageOf(c)
      /\ Fits(m) /\ m.peer = conns[k].peer /\ ~m.broken
      /\ OfCall(m, MessageOf(c), call[c].sent, call[c].answered + 1, processed[c][Entry(c)])
  <2>1. OfCall(conns[k], MessageOf(c), call[c].sent, call[c].answered, processed[c][Entry(c)])
    BY <1>3 DEF Balanced
  <2>2. PICK n : n = conns[k]
    OBVIOUS
  <2>3. PICK s \in Nat, a \in Nat, d \in Nat :
          s = call[c].sent /\ a = call[c].answered /\ d = processed[c][Entry(c)]
    BY <1>3, <1>5
  <2>4. /\ Fits(n) /\ ~n.broken /\ n.answers # <<>> /\ OfCall(n, MessageOf(c), s, a, d)
        /\ m = [n EXCEPT !.answers = Tail(@)]
    BY <1>1, <1>3, <1>6, <2>1, <2>2, <2>3
  <2>5. /\ Head(n.answers) = MessageOf(c)
        /\ Fits(m) /\ m.peer = n.peer /\ ~m.broken /\ OfCall(m, MessageOf(c), s, a + 1, d)
    BY <1>3, <2>4, WasRead
  <2>6. QED
    BY <2>2, <2>3, <2>5
<1>8. PICK r : r = [call[c] EXCEPT !.answered = @ + 1,
                                   !.foreign = @ \/ Head(conns[k].answers) # MessageOf(c)]
  OBVIOUS
<1>9. (call[c].foreign \/ Head(conns[k].answers) # MessageOf(c)) = FALSE
  BY <1>2, <1>7 DEF Processed
<1>10. r = [call[c] EXCEPT !.answered = @ + 1, !.foreign = FALSE]
  BY <1>8, <1>9, Zenon
<1>11. /\ r \in CallRecord /\ r.pc = call[c].pc /\ r.todo = call[c].todo
       /\ r.batches = call[c].batches /\ r.ids = call[c].ids
       /\ r.sent = call[c].sent /\ r.answered = call[c].answered + 1
       /\ r.ok = call[c].ok /\ r.failed = call[c].failed
       /\ ~r.foreign
  <2>1. PICK o \in CallRecord : o = call[c]
    BY <1>4
  <2>2. r = [o EXCEPT !.answered = @ + 1, !.foreign = FALSE]
    BY <1>10, <2>1
  <2>3. /\ r \in CallRecord /\ r.pc = o.pc /\ r.todo = o.todo
        /\ r.batches = o.batches /\ r.ids = o.ids
        /\ r.sent = o.sent /\ r.answered = o.answered + 1
        /\ r.ok = o.ok /\ r.failed = o.failed /\ ~r.foreign
    <3>1. FALSE \in BOOLEAN /\ o.answered + 1 \in Nat
      BY <2>1 DEF CallRecord
    <3>2. r \in CallRecord
      BY <2>1, <2>2, <3>1 DEF CallRecord
    <3>3. ~r.foreign
      BY <2>1, <2>2 DEF CallRecord
    <3>4. QED
      BY <2>1, <2>2, <3>2, <3>3 DEF CallRecord
  <2>4. QED
    BY <2>1, <2>3
<1>12. r.sent <= ToSend(c) /\ ~r.foreign /\ r.pc \in {"sending", "reading"}
  BY <1>1, <1>2, <1>11
<1>13. call' = [call EXCEPT ![c] = r] /\ conns' = [conns EXCEPT ![k] = m]
  BY <1>1, <1>6, <1>8
<1>14. OfCall(m, MessageOf(c), r.sent, r.answered, processed[c][Entry(c)])
  BY <1>7, <1>11
<1>15. /\ lock' = c /\ processed' = processed /\ processed' \in [Calls -> [Entries -> Nat]]
       /\ UNCHANGED <<peers, wsConns, dialing, redial>>
  <2>1. processed \in [Calls -> [Entries -> Nat]]
    BY DEF IInv, TypeOK
  <2>2. lock' = lock /\ processed' = processed /\ UNCHANGED <<peers, wsConns, dialing, redial>>
    BY ONLY <1>1
  <2>3. QED
    BY ONLY <1>2, <2>1, <2>2
<1>16. lock = c /\ Usable(c)
  BY <1>1, <1>2
<1>17. /\ \A d \in Calls \ {c} : processed'[d] = processed[d]
       /\ \A e \in Entries \ {Entry(c)} : processed'[c][e] = processed[c][e]
  BY ONLY <1>15
<1>18. OfCall(m, MessageOf(c), r.sent, r.answered, processed'[c][Entry(c)])
  BY ONLY <1>14, <1>15
<1>19. Fits(m) /\ m.peer = conns[k].peer /\ ~m.broken
  BY <1>7
<1>20. QED
  BY ONLY IInv, c \in Calls, k = Conn(c), <1>11, <1>12, <1>13, <1>15, <1>16, <1>17, <1>18,
          <1>19, UseStep

\* What a handler has to do is for the call that holds the pool.
LEMMA HandlersCall ==
  ASSUME IInv, NEW k \in Ids, ~conns[k].broken, ~Quiet(k)
  PROVE  /\ lock \in Calls /\ k = Conn(lock) /\ Usable(lock)
         /\ OfCall(conns[k], MessageOf(lock), call[lock].sent, call[lock].answered,
                   processed[lock][Entry(lock)])
         /\ Fits(conns[k]) /\ conns[k].peer = Address(lock) /\ Entry(lock) \in Entries
         /\ MessageOf(lock) \in Message /\ Holding(lock)
<1>1. InUse(k)
  BY DEF IInv, ConnsOK, ConnOK
<1>2. lock \in Calls /\ k = Conn(lock)
  BY <1>1 DEF IInv, TypeOK, InUse
<1>3. Usable(lock)
  BY <1>1, <1>2 DEF IInv, Pooled, InUse, Usable
<1>4. PICK c \in Calls : c = lock
  BY <1>2
<1>5. /\ Balanced(k, c) /\ Fits(conns[k]) /\ conns[k].peer = Address(c) /\ Entry(c) \in Entries
      /\ MessageOf(c) \in Message /\ Holding(c)
  BY <1>2, <1>3, <1>4, UsedConn
<1>6. QED
  BY <1>2, <1>3, <1>4, <1>5 DEF Balanced

\* The record of a call whose handler moves stays as it is.
LEMMA SameRecord ==
  ASSUME IInv, NEW c \in Calls, lock = c, Holding(c)
  PROVE  \E r \in CallRecord :
           /\ r = call[c] /\ call = [call EXCEPT ![c] = r]
           /\ r.sent \in Nat /\ r.answered \in Nat
           /\ r.sent <= ToSend(c) /\ ~r.foreign /\ r.pc \in {"sending", "reading"}
<1>1. call \in [Calls -> CallRecord]
  BY DEF IInv, TypeOK, CallRecord, Pcs
<1>2. PICK r \in CallRecord : r = call[c]
  BY <1>1
<1>3. r.sent \in Nat /\ r.answered \in Nat
  BY <1>2 DEF CallRecord
<1>4. r.sent <= ToSend(c) /\ ~r.foreign /\ r.pc \in {"sending", "reading"}
  BY <1>2 DEF IInv, CallsOK, Locked, Processed, Holding
<1>5. QED
  BY <1>1, <1>2, <1>3, <1>4

LEMMA ServeStep ==
  ASSUME IInv, NEW k \in Ids, Serve(k)
  PROVE  IInv'
<1>1. /\ ~conns[k].broken /\ conns[k].handling = None /\ conns[k].requests # <<>>
      /\ UNCHANGED <<peers, wsConns, lock, dialing, redial, call>>
  BY DEF Serve
<1>2. PICK c \in Calls : c = lock
  BY <1>1, HandlersCall DEF Quiet
<1>3. /\ k = Conn(c) /\ Usable(c) /\ Fits(conns[k]) /\ conns[k].peer = Address(c)
      /\ OfCall(conns[k], MessageOf(c), call[c].sent, call[c].answered, processed[c][Entry(c)])
      /\ Entry(c) \in Entries /\ MessageOf(c) \in Message /\ Holding(c)
  BY <1>1, <1>2, HandlersCall DEF Quiet
<1>4. processed \in [Calls -> [Entries -> Nat]] /\ processed[c][Entry(c)] \in Nat
  BY <1>3 DEF IInv, TypeOK
<1>5. PICK r \in CallRecord :
        /\ r = call[c] /\ call = [call EXCEPT ![c] = r]
        /\ r.sent \in Nat /\ r.answered \in Nat
        /\ r.sent <= ToSend(c) /\ ~r.foreign /\ r.pc \in {"sending", "reading"}
  BY <1>2, <1>3, SameRecord
<1>6. PICK m : m = AfterServe(conns[k])
  OBVIOUS
<1>7. /\ Head(conns[k].requests) = MessageOf(c) /\ Fits(m) /\ m.peer = conns[k].peer /\ ~m.broken
      /\ OfCall(m, MessageOf(c), r.sent, r.answered, processed[c][Entry(c)] + 1)
  <2>1. PICK n : n = conns[k]
    OBVIOUS
  <2>2. PICK s \in Nat, a \in Nat, d \in Nat :
          s = r.sent /\ a = r.answered /\ d = processed[c][Entry(c)]
    BY <1>4, <1>5
  <2>3. /\ Fits(n) /\ ~n.broken /\ n.handling = None /\ n.requests # <<>>
        /\ m = AfterServe(n)
    BY <1>1, <1>3, <1>6, <2>1
  <2>4. OfCall(n, MessageOf(c), s, a, d)
    BY <1>3, <1>5, <2>1, <2>2
  <2>5. Head(n.requests) = MessageOf(c) /\ Fits(m) /\ m.peer = n.peer /\ ~m.broken /\ OfCall(m, MessageOf(c), s, a, d + 1)
    BY <1>3, <2>2, <2>3, <2>4, Served
  <2>6. QED
    BY <2>1, <2>2, <2>5
<1>8. conns' = [conns EXCEPT ![k] = m]
  BY <1>6 DEF Serve, AfterServe
<1>9. processed' = [processed EXCEPT ![c][Entry(c)] = @ + 1]
  <2>1. PICK e : e = Head(conns[k].requests)
    OBVIOUS
  <2>2. e.call = c /\ e.entry = Entry(c)
    BY <1>7, <2>1 DEF MessageOf
  <2>3. processed' = [processed EXCEPT ![e.call][e.entry] = @ + 1]
    BY <2>1 DEF Serve
  <2>4. QED
    BY <2>2, <2>3
<1>10. /\ processed' \in [Calls -> [Entries -> Nat]]
       /\ processed'[c][Entry(c)] = processed[c][Entry(c)] + 1
       /\ \A d \in Calls \ {c} : processed'[d] = processed[d]
       /\ \A e \in Entries \ {Entry(c)} : processed'[c][e] = processed[c][e]
  BY <1>3, <1>4, <1>9
<1>11. /\ lock' = c /\ call' = [call EXCEPT ![c] = r]
       /\ OfCall(m, MessageOf(c), r.sent, r.answered, processed'[c][Entry(c)])
  BY <1>1, <1>2, <1>5, <1>7, <1>10
<1>12. QED
  BY <1>1, <1>2, <1>3, <1>5, <1>7, <1>8, <1>10, <1>11, UseStep

LEMMA AnswerStep ==
  ASSUME IInv, NEW k \in Ids, Answer(k)
  PROVE  IInv'
<1>1. /\ ~conns[k].broken /\ conns[k].handling # None /\ Len(conns[k].answers) < AnswerCap
      /\ UNCHANGED <<peers, wsConns, lock, dialing, redial, call, processed>>
  BY DEF Answer
<1>2. PICK c \in Calls : c = lock
  BY <1>1, HandlersCall DEF Quiet
<1>3. /\ k = Conn(c) /\ Usable(c) /\ Fits(conns[k]) /\ conns[k].peer = Address(c)
      /\ OfCall(conns[k], MessageOf(c), call[c].sent, call[c].answered, processed[c][Entry(c)])
      /\ Entry(c) \in Entries /\ MessageOf(c) \in Message /\ Holding(c)
  BY <1>1, <1>2, HandlersCall DEF Quiet
<1>4. processed \in [Calls -> [Entries -> Nat]] /\ processed[c][Entry(c)] \in Nat
  BY <1>3 DEF IInv, TypeOK
<1>5. PICK r \in CallRecord :
        /\ r = call[c] /\ call = [call EXCEPT ![c] = r]
        /\ r.sent \in Nat /\ r.answered \in Nat
        /\ r.sent <= ToSend(c) /\ ~r.foreign /\ r.pc \in {"sending", "reading"}
  BY <1>2, <1>3, SameRecord
<1>6. PICK m : m = AfterAnswer(conns[k])
  OBVIOUS
<1>7. /\ Fits(m) /\ m.peer = conns[k].peer /\ ~m.broken
      /\ OfCall(m, MessageOf(c), r.sent, r.answered, processed[c][Entry(c)])
  <2>1. PICK n : n = conns[k]
    OBVIOUS
  <2>2. PICK s \in Nat, a \in Nat, d \in Nat :
          s = r.sent /\ a = r.answered /\ d = processed[c][Entry(c)]
    BY <1>4, <1>5
  <2>3. /\ Fits(n) /\ ~n.broken /\ n.handling # None /\ Len(n.answers) < AnswerCap
        /\ m = AfterAnswer(n)
    BY <1>1, <1>3, <1>6, <2>1
  <2>4. OfCall(n, MessageOf(c), s, a, d)
    BY <1>3, <1>5, <2>1, <2>2
  <2>5. Fits(m) /\ m.peer = n.peer /\ ~m.broken /\ OfCall(m, MessageOf(c), s, a, d)
    BY <1>3, <2>2, <2>3, <2>4, Answered
  <2>6. QED
    BY <2>1, <2>2, <2>5
<1>8. conns' = [conns EXCEPT ![k] = m]
  BY <1>6 DEF Answer, AfterAnswer
<1>9. /\ lock' = c /\ call' = [call EXCEPT ![c] = r]
      /\ processed' = processed /\ processed' \in [Calls -> [Entries -> Nat]]
      /\ OfCall(m, MessageOf(c), r.sent, r.answered, processed'[c][Entry(c)])
  BY <1>1, <1>2, <1>4, <1>5, <1>7
<1>10. QED
  BY <1>1, <1>2, <1>3, <1>5, <1>7, <1>8, <1>9, UseStep

\* The step from sending to reading.
LEMMA AllSentStep ==
  ASSUME IInv, NEW c \in Calls, AllSent(c)
  PROVE  IInv'
<1>1. /\ call[c].pc = "sending" /\ GoTo(c, "reading")
      /\ UNCHANGED <<peers, wsConns, lock, dialing, redial, conns, processed>>
  BY DEF AllSent, Kept
<1>2. lock = c /\ Processed(c) /\ call[c].sent <= ToSend(c)
  BY <1>1 DEF IInv, CallsOK, Locked, Holding
<1>3. call[c] \in CallRecord
  BY DEF IInv, TypeOK, CallRecord, Pcs
<1>4. PICK r : r = [call[c] EXCEPT !.pc = "reading"]
  OBVIOUS
<1>5. /\ r \in CallRecord /\ r.pc = "reading" /\ r.todo = call[c].todo
      /\ r.batches = call[c].batches /\ r.ids = call[c].ids
      /\ r.sent = call[c].sent /\ r.answered = call[c].answered
      /\ r.foreign = call[c].foreign
      /\ r.ok = call[c].ok /\ r.failed = call[c].failed
  BY <1>3, <1>4 DEF CallRecord, Pcs
<1>6. ~r.foreign /\ r.sent <= ToSend(c) /\ r.answered <= processed[c][Entry(c)]
      /\ processed[c][Entry(c)] <= r.sent
  BY <1>2, <1>5 DEF Processed
<1>7. call' = [call EXCEPT ![c] = r]
  BY <1>1, <1>4 DEF GoTo
<1>8. call' \in [Calls -> CallRecord] /\ CallsOK' /\ call'[c] = r /\ Address(c)' = Address(c)
         /\ Entry(c)' = Entry(c) /\ MessageOf(c)' = MessageOf(c)
  <2>1. processed' = processed /\ lock' = c /\ lock \in {c, None}
        /\ call[c].pc \notin {"idle", "done"} /\ r.pc \in {"sending", "reading"}
    BY <1>1, <1>2, <1>5
  <2>2. QED
    BY <1>5, <1>6, <1>7, <2>1, HolderStep
<1>9. Conn(c)' = Conn(c) /\ Ids' = Ids
  BY <1>1, <1>8 DEF Conn, Ids
<1>10. Pooled'
  BY <1>1, <1>2, <1>9 DEF IInv, Pooled
<1>11. ConnsOK'
  <2>1. \A k \in Ids : (InUse(k)' <=> InUse(k)) /\ (Quiet(k)' <=> Quiet(k))
                       /\ (Balanced(k, c)' <=> Balanced(k, c))
    BY <1>1, <1>2, <1>5, <1>8, <1>9 DEF InUse, Quiet, Balanced
  <2>2. \A k \in Ids : IF InUse(k) THEN Balanced(k, c) ELSE Quiet(k)
    BY <1>2 DEF IInv, ConnsOK, ConnOK
  <2>3. \A k \in Ids : ConnOK(k)'
    BY <1>1, <1>2, <2>1, <2>2 DEF ConnOK
  <2>4. QED
    BY <1>9, <2>3 DEF ConnsOK
<1>12. TypeOK'
  <2>1. Wired'
    BY <1>1, <1>9, IsWired DEF IInv, Wired
  <2>2. QED
    BY <1>1, <1>8, <1>9, <2>1, TypeFromParts DEF IInv, TypeOK, Ids
<1>13. QED
  BY <1>8, <1>10, <1>11, <1>12 DEF IInv

----------------------------------------------------------------------------
(* The end of a round, and of a connection.                                *)

\* The holder lets go of the pool and turns to its next address.
LEMMA ReleaseStep ==
  ASSUME IInv, NEW c \in Calls, lock = c, lock' = None, processed' = processed,
         NEW ok \in SUBSET {Entry(c)}, NEW failed \in SUBSET {Entry(c)},
         ok \cup failed = {Entry(c)}, NextAddress(c, ok, failed),
         \A e \in ok : processed[c][e] = call[c].batches
  PROVE  call' \in [Calls -> CallRecord] /\ CallsOK'
<1>1. Ordered(c) /\ Locked(c) /\ Processed(c) /\ Holding(c)
  BY DEF IInv, CallsOK, Locked
<1>2. call[c].pc \notin {"idle", "done"}
  BY <1>1 DEF Holding
<1>3. PICK r \in CallRecord : call' = [call EXCEPT ![c] = r] /\ Turned(c, r, ok, failed)
  BY <1>2, NextAddressOf
<1>4. call \in [Calls -> CallRecord]
  BY DEF IInv, TypeOK, CallRecord, Pcs
<1>5. call' \in [Calls -> CallRecord] /\ call'[c] = r /\ \A d \in Calls : d # c => call'[d] = call[d]
  BY <1>3, <1>4
<1>6. None # c
  BY BroadcastAssumption
<1>7. r.ok \cup r.failed = Tried(c) \cup {Entry(c)}
  BY <1>3 DEF Turned, Tried
<1>8. Ordered(c)'
  BY <1>3, <1>5, <1>7 DEF Ordered, Tried, Turned
<1>9. Locked(c)'
  <2>1. r.ids \in Nat /\ r.batches \in Nat
    BY <1>3 DEF CallRecord
  <2>2. QED
    BY <1>3, <1>5, <1>6, <2>1 DEF Locked, Holding, ToSend, Turned
<1>10. Processed(c)'
  <2>1. ~r.foreign
    BY <1>1, <1>3 DEF Processed, Turned
  <2>2. \A e \in r.ok : processed[c][e] = r.batches
    BY <1>1, <1>3 DEF Processed, Turned
  <2>3. \A e \in Entries \ (r.ok \cup r.failed) : processed[c][e] = 0
    BY <1>1, <1>7 DEF Processed
  <2>4. QED
    BY <1>5, <1>6, <2>1, <2>2, <2>3 DEF Processed, Tried
<1>11. ASSUME NEW d \in Calls, d # c PROVE Ordered(d)' /\ Locked(d)' /\ Processed(d)'
  <2>1. lock' # d /\ lock # d
    BY <1>11, BroadcastAssumption
  <2>2. QED
    BY <1>5, <1>11, <2>1, SameCall DEF IInv
<1>12. QED
  BY <1>5, <1>8, <1>9, <1>10, <1>11 DEF CallsOK

\* With the pool unlocked nothing is left on any connection.
LEMMA SucceedStep ==
  ASSUME IInv, NEW c \in Calls, Succeed(c)
  PROVE  IInv'
<1>1. /\ call[c].pc = "reading" /\ call[c].answered = call[c].batches
      /\ NextAddress(c, {Entry(c)}, {}) /\ lock' = None
      /\ UNCHANGED <<peers, wsConns, dialing, redial, conns, processed>>
  BY DEF Succeed, Expected
<1>2. lock = c /\ Locked(c) /\ Processed(c)
  BY <1>1 DEF IInv, CallsOK, Locked, Holding
<1>3. Entry(c) \in Entries
  BY <1>1, CurrentEntry
<1>4. /\ call[c] \in CallRecord /\ processed[c][Entry(c)] \in Nat
      /\ call[c].sent \in Nat /\ call[c].answered \in Nat /\ call[c].batches \in Nat
  BY <1>3 DEF IInv, TypeOK, CallRecord, Pcs
<1>5. /\ processed[c][Entry(c)] = call[c].batches /\ call[c].sent = call[c].answered
  <2>1. call[c].sent <= call[c].batches
    BY <1>2, <1>4 DEF Locked, ToSend, CallRecord
  <2>2. call[c].answered <= processed[c][Entry(c)] /\ processed[c][Entry(c)] <= call[c].sent
    BY <1>2 DEF Processed
  <2>3. QED
    BY <1>1, <1>4, <2>1, <2>2
<1>6. call' \in [Calls -> CallRecord] /\ CallsOK'
  BY <1>1, <1>2, <1>5, ReleaseStep
<1>7. ASSUME NEW k \in Ids PROVE Quiet(k)
  <2>1. CASE ~InUse(k)
    BY <2>1 DEF IInv, ConnsOK, ConnOK
  <2>2. CASE InUse(k)
    <3>1. Balanced(k, c) /\ Fits(conns[k])
      BY <1>2, <2>2, IsWired DEF IInv, ConnsOK, ConnOK, Wired
    <3>2. conns[k].requests \in Seq(Message) /\ conns[k].answers \in Seq(Message)
      BY <3>1 DEF Fits, Connection
    <3>3. PICK x \in Nat, y \in Nat, h \in Nat :
            x = Len(conns[k].answers) /\ y = Len(conns[k].requests) /\ h = AtHandler(conns[k])
      BY <3>2 DEF AtHandler
    <3>4. call[c].sent = call[c].answered + x + h + y
      BY <3>1, <3>3 DEF Balanced, OfCall
    <3>5. x = 0 /\ y = 0 /\ h = 0
      <4>1. PICK a \in Nat : a = call[c].answered
        BY <1>4
      <4>2. a = a + x + h + y
        BY <1>5, <3>4, <4>1
      <4>3. QED
        BY <4>2
    <3>6. conns[k].handling = None
      BY <3>3, <3>5 DEF AtHandler
    <3>7. QED
      BY <3>2, <3>3, <3>5, <3>6, EmptySeq DEF Quiet
  <2>3. QED
    BY <2>1, <2>2
<1>8. ConnsOK'
  BY <1>1, <1>7 DEF ConnsOK, ConnOK, InUse, Quiet, Ids
<1>9. Pooled'
  BY <1>1 DEF IInv, Pooled, Ids
<1>10. TypeOK'
  <2>1. Wired'
    BY <1>1, IsWired DEF IInv, Wired, Ids
  <2>2. QED
    BY <1>1, <1>6, <2>1, TypeFromParts DEF IInv, TypeOK, Ids
<1>11. QED
  BY <1>6, <1>8, <1>9, <1>10 DEF IInv

LEMMA FailStep ==
  ASSUME IInv, NEW c \in Calls, Fail(c)
  PROVE  IInv'
<1>1. /\ call[c].pc \in {"sending", "reading"} /\ ~Usable(c)
      /\ NextAddress(c, {}, {Entry(c)}) /\ lock' = None
      /\ wsConns' = [wsConns EXCEPT ![Address(c)] = None]
      /\ UNCHANGED <<peers, dialing, redial, conns, processed>>
  BY DEF Fail
<1>2. lock = c /\ lock # None
  BY <1>1, BroadcastAssumption DEF IInv, CallsOK, Locked, Holding
<1>3. Address(c) \in Peers
  BY <1>1, CurrentEntry
<1>4. Conn(c) # None /\ conns[Conn(c)].broken
  BY <1>1, <1>2 DEF IInv, Pooled, Usable
<1>5. call' \in [Calls -> CallRecord] /\ CallsOK'
  BY <1>1, <1>2, ReleaseStep
<1>6. wsConns \in [Peers -> Ids \cup {None}] /\ Ids' = Ids
  BY <1>1 DEF IInv, TypeOK, Ids
<1>7. wsConns' \in [Peers -> Ids' \cup {None}]
  BY <1>1, <1>6
<1>8. Pooled'
  <2>1. \A p \in Peers : wsConns'[p] # None => conns'[wsConns'[p]].peer = p
    BY <1>1, <1>6 DEF IInv, Pooled
  <2>2. ASSUME NEW k \in Ids, ~conns[k].broken PROVE wsConns'[conns[k].peer] = k
    <3>1. wsConns[conns[k].peer] = k
      BY <2>2 DEF IInv, Pooled
    <3>2. conns[k].peer \in Peers
      BY IsWired DEF IInv, Wired, Fits, Connection
    <3>3. conns[k].peer # Address(c)
      BY <1>4, <2>2, <3>1 DEF Conn
    <3>4. QED
      BY <1>1, <1>6, <3>1, <3>2, <3>3
  <2>3. QED
    BY <1>1, <1>6, <2>1, <2>2 DEF Pooled
<1>9. ConnsOK'
  <2>1. \A k \in Ids : ~InUse(k)
    BY <1>2, <1>4 DEF InUse
  <2>2. \A k \in Ids : Quiet(k)
    BY <2>1 DEF IInv, ConnsOK, ConnOK
  <2>3. QED
    BY <1>1, <1>6, <2>2 DEF ConnsOK, ConnOK, InUse, Quiet
<1>10. TypeOK'
  <2>1. Wired'
    BY <1>1, <1>6, IsWired DEF IInv, Wired
  <2>2. QED
    BY <1>1, <1>5, <1>7, <2>1, TypeFromParts DEF IInv, TypeOK
<1>11. QED
  BY <1>5, <1>8, <1>9, <1>10 DEF IInv

LEMMA BreakStep ==
  ASSUME IInv, NEW k \in Ids, Break(k)
  PROVE  IInv'
<1>1. UNCHANGED <<peers, wsConns, lock, dialing, redial, call, processed>>
  BY DEF Break
<1>2. Wired
  BY IsWired DEF IInv
<1>3. PICK to : to = Broken(k)
  OBVIOUS
<1>4. /\ to \in Seq(Connection) /\ Len(to) = Len(conns)
      /\ to[k].broken /\ to[k].peer = conns[k].peer
      /\ to[k].requests = <<>> /\ to[k].answers = <<>> /\ to[k].handling = None
      /\ \A i \in Ids : i # k => to[i] = conns[i]
      /\ \A i \in Ids : Fits(to[i])
  BY <1>2, <1>3, BrokenConn
<1>5. conns' = to
  BY <1>3 DEF Break
<1>6. Ids' = Ids /\ Wired'
  BY <1>4, <1>5 DEF Ids, Wired
<1>7. CallsOK'
  BY <1>1, SameCall DEF IInv, CallsOK
<1>8. Conn(lock)' = Conn(lock)
  BY <1>1 DEF Conn, Address
<1>9. Pooled'
  <2>1. \A i \in Ids : conns'[i].peer = conns[i].peer /\ (~conns'[i].broken => ~conns[i].broken)
    BY <1>4, <1>5
  <2>2. \A p \in Peers : wsConns[p] # None => wsConns[p] \in Ids
    BY DEF IInv, TypeOK, Ids
  <2>3. QED
    BY <1>1, <1>6, <1>8, <2>1, <2>2 DEF IInv, Pooled
<1>10. ConnsOK'
  <2>1. ConnOK(k)'
    BY <1>4, <1>5 DEF ConnOK, InUse, Quiet
  <2>2. ASSUME NEW i \in Ids, i # k PROVE ConnOK(i)'
    <3>1. conns'[i] = conns[i] /\ i \in Ids'
      BY <1>4, <1>5, <1>6, <2>2
    <3>2. InUse(i)' <=> InUse(i)
      BY <1>1, <1>8, <3>1 DEF InUse
    <3>3. QED
      BY <1>1, <3>1, <3>2, SameConn DEF IInv
  <2>3. QED
    BY <1>6, <2>1, <2>2 DEF ConnsOK
<1>11. TypeOK'
  BY <1>1, <1>6, TypeFromParts DEF IInv, TypeOK, CallRecord, Pcs, Ids
<1>12. QED
  BY <1>7, <1>9, <1>10, <1>11 DEF IInv

----------------------------------------------------------------------------
(* The specification.                                                      *)

LEMMA StutterStep ==
  ASSUME IInv, UNCHANGED vars
  PROVE  IInv'
<1>1. /\ UNCHANGED <<peers, wsConns, lock, dialing, redial, conns, call, processed>>
      /\ UNCHANGED <<wsConns, lock, conns, processed>> /\ call' = call
  BY DEF vars
<1>2. CallsOK'
  BY <1>1, SameCall DEF IInv, CallsOK
<1>3. Pooled' /\ ConnsOK'
  BY <1>1, PoolUnchanged
<1>4. TypeOK'
  BY <1>1 DEF IInv, TypeOK
<1>5. QED
  BY <1>2, <1>3, <1>4 DEF IInv

LEMMA InitIInv ==
  ASSUME Init
  PROVE  IInv
<1>1. Len(conns) = 0 /\ Ids = {} /\ conns = <<>>
  BY DEF Init, Ids
<1>2. TypeOK
  <2>1. NoCall \in CallRecord
    BY DEF NoCall, CallRecord, Pcs
  <2>2. call \in [Calls -> CallRecord]
    BY <2>1 DEF Init
  <2>3. QED
    BY <1>1, <2>2 DEF Init, TypeOK, CallRecord, Pcs
<1>3. ASSUME NEW c \in Calls PROVE Ordered(c) /\ Locked(c) /\ Processed(c)
  <2>1. /\ call[c].pc = "idle" /\ call[c].todo = <<>> /\ call[c].ok = {} /\ call[c].failed = {}
        /\ call[c].sent = 0 /\ call[c].answered = 0 /\ ~call[c].foreign
        /\ call[c].ids = 0 /\ call[c].batches = 0 /\ lock # c
        /\ \A e \in Entries : processed[c][e] = 0
    BY BroadcastAssumption DEF Init, NoCall
  <2>2. Ordered(c)
    <3>1. DOMAIN <<>> = {} /\ Len(<<>>) = 0 /\ 1..0 = {}
      OBVIOUS
    <3>2. QED
      BY <2>1, <3>1 DEF Ordered, Tried
  <2>3. Locked(c) /\ Processed(c)
    BY <2>1 DEF Locked, Processed, Holding, ToSend
  <2>4. QED
    BY <2>2, <2>3
<1>4. Pooled /\ ConnsOK
  BY <1>1 DEF Init, Pooled, ConnsOK
<1>5. QED
  BY <1>2, <1>3, <1>4 DEF IInv, CallsOK

LEMMA NextIInv ==
  ASSUME IInv, [Next]_vars
  PROVE  IInv'
<1>1. CASE UNCHANGED vars
  BY <1>1, StutterStep
<1>2. CASE Redialed \/ \E p \in Peers : AddPeer(p) \/ Dialed(p) \/ RedialCheck(p)
  BY <1>2, DialSteps
<1>3. ASSUME NEW c \in Calls, NEW r \in Rounds, Begin(c, r) PROVE IInv'
  BY <1>3, BeginStep
<1>4. ASSUME NEW c \in Calls, Step(c) PROVE IInv'
  <2>1. CASE Check(c)
    BY <2>1, CheckStep
  <2>2. CASE Connected(c)
    BY <2>2, ConnectedStep
  <2>3. CASE DialFails(c)
    BY <2>3, GivenUp DEF DialFails
  <2>4. CASE Lock(c)
    BY <2>4, LockStep
  <2>5. CASE Send(c)
    BY <2>5, SendStep
  <2>6. CASE AllSent(c)
    BY <2>6, AllSentStep
  <2>7. CASE Read(c)
    BY <2>7, ReadStep
  <2>8. CASE Succeed(c)
    BY <2>8, SucceedStep
  <2>9. CASE Fail(c)
    BY <2>9, FailStep
  <2>10. QED
    BY <1>4, <2>1, <2>2, <2>3, <2>4, <2>5, <2>6, <2>7, <2>8, <2>9 DEF Step
<1>5. ASSUME NEW k \in Ids, Serve(k) \/ Answer(k) \/ Break(k) PROVE IInv'
  BY <1>5, ServeStep, AnswerStep, BreakStep
<1>6. QED
  BY <1>1, <1>2, <1>3, <1>4, <1>5 DEF Next, Ids

\* The invariant holds in every reachable state.
LEMMA Invariance == Spec => []IInv
<1>1. Init => IInv
  BY InitIInv
<1>2. IInv /\ [Next]_vars => IInv'
  BY NextIInv
<1>3. QED
  BY <1>1, <1>2, PTL DEF Spec

\* The pool, the connections and the calls have their types, whatever the
\* capacities: a connection never holds more than it can (websocket_client.rs,
\* websocket_server.rs).
THEOREM TypeCorrect == Spec => []TypeOK
<1>1. IInv => TypeOK
  BY DEF IInv
<1>2. QED
  BY <1>1, Invariance, PTL

\* An entry of a round that is counted as a success was processed once by its
\* peer, batch by batch, and its answers were its own, for any number of peers,
\* of concurrent calls, of entries with one address and of reconnections, and
\* any capacities (send_batches_for_round, broadcast_batches).
THEOREM SuccessIsProcessedOnceHolds == Spec => []SuccessIsProcessedOnce
<1>1. IInv => SuccessIsProcessedOnce
  BY DEF IInv, CallsOK, Processed, SuccessIsProcessedOnce
<1>2. QED
  BY <1>1, Invariance, PTL

----------------------------------------------------------------------------
(* The pool is not blocked but by a jam: the call that holds it has sent   *)
(* more than it has read, so what it waits for is in a queue or at the     *)
(* handler, unless batches had no shard id; and what it cannot send waits  *)
(* for a handler that can go on, unless that one cannot answer.            *)

\* What a call can do next, as far as its guards go.
CanStep(c) ==
  \/ call[c].pc = "dialing"
  \/ call[c].pc \in {"checking", "locking"} /\ Free
  \/ Holding(c) /\ ~Usable(c)
  \/ call[c].pc = "sending" /\ call[c].sent = ToSend(c)
  \/ call[c].pc = "sending" /\ Len(conns[Conn(c)].requests) < RequestCap
  \/ call[c].pc = "reading" /\ call[c].answered = Expected(c)
  \/ call[c].pc = "reading" /\ conns[Conn(c)].answers # <<>>

\* What the handler at the other end of a connection can do.
CanServe(k) ==
  \/ conns[k].handling = None /\ conns[k].requests # <<>>
  \/ conns[k].handling # None /\ Len(conns[k].answers) < AnswerCap

\* A call that has not returned can go on, or the call that holds the pool, or
\* the handler that this one sends to.
OnlyJamsBlock ==
  \A c \in Calls : call[c].pc \notin {"idle", "done"} /\ ~Jammed =>
    \/ CanStep(c)
    \/ lock # None /\ (CanStep(lock) \/ CanServe(Conn(lock)))

\* A call begins to read when it has sent all that has a shard id.
ReadsAll == \A c \in Calls : call[c].pc = "reading" => call[c].sent = ToSend(c)

LEMMA CallBecomes ==
  ASSUME IInv, ReadsAll, NEW c \in Calls, NEW r, call' = [call EXCEPT ![c] = r],
         \/ r.pc # "reading"
         \/ /\ r.sent = call[c].sent /\ r.batches = call[c].batches /\ r.ids = call[c].ids
            /\ call[c].sent = ToSend(c)
  PROVE  ReadsAll'
<1>1. call'[c] = r /\ \A d \in Calls : d # c => call'[d] = call[d]
  BY DEF IInv, TypeOK
<1>2. QED
  BY <1>1 DEF ReadsAll, ToSend

LEMMA StepReadsAll ==
  ASSUME IInv, ReadsAll, NEW c \in Calls, Step(c)
  PROVE  ReadsAll'
<1>1. call \in [Calls -> CallRecord] /\ call[c] \in CallRecord
  BY DEF IInv, TypeOK, CallRecord, Pcs
<1>2. ASSUME NEW pc, pc # "reading", GoTo(c, pc) PROVE ReadsAll'
  <2>1. PICK r : r = [call[c] EXCEPT !.pc = pc]
    OBVIOUS
  <2>2. r.pc = pc /\ call' = [call EXCEPT ![c] = r]
    BY <1>1, <1>2, <2>1 DEF GoTo, CallRecord
  <2>3. QED
    BY <1>2, <2>2, CallBecomes
<1>3. ASSUME NEW ok \in SUBSET {Entry(c)}, NEW failed \in SUBSET {Entry(c)},
             call[c].pc \notin {"idle", "done"}, NextAddress(c, ok, failed)
      PROVE  ReadsAll'
  <2>1. PICK r \in CallRecord : call' = [call EXCEPT ![c] = r] /\ Turned(c, r, ok, failed)
    BY <1>3, NextAddressOf
  <2>2. r.pc # "reading"
    BY <2>1 DEF Turned
  <2>3. QED
    BY <2>1, <2>2, CallBecomes
<1>4. CASE Check(c)
  <2>1. PICK pc \in {"dialing", "locking"} : GoTo(c, pc)
    BY <1>4 DEF Check
  <2>2. QED
    BY <1>2, <2>1
<1>5. CASE Connected(c)
  BY <1>2, <1>5 DEF Connected
<1>6. CASE DialFails(c)
  BY <1>3, <1>6 DEF DialFails
<1>7. CASE Lock(c)
  BY <1>2, <1>3, <1>7 DEF Lock
<1>8. CASE Send(c)
  <2>1. PICK r : r = [call[c] EXCEPT !.sent = @ + 1]
    OBVIOUS
  <2>2. r.pc = "sending" /\ call' = [call EXCEPT ![c] = r]
    BY <1>1, <1>8, <2>1 DEF Send, CallRecord
  <2>3. QED
    BY <2>2, CallBecomes
<1>9. CASE AllSent(c)
  <2>1. call[c].sent = ToSend(c)
    BY <1>9 DEF AllSent
  <2>2. PICK r : r = [call[c] EXCEPT !.pc = "reading"]
    OBVIOUS
  <2>3. /\ r.sent = call[c].sent /\ r.batches = call[c].batches /\ r.ids = call[c].ids
        /\ call' = [call EXCEPT ![c] = r]
    BY <1>1, <1>9, <2>2 DEF AllSent, GoTo, CallRecord
  <2>4. QED
    BY <2>1, <2>3, CallBecomes
<1>10. CASE Read(c)
  <2>1. call[c].sent = ToSend(c)
    BY <1>10 DEF Read, ReadsAll
  <2>2. PICK r : r = [call[c] EXCEPT !.answered = @ + 1,
                                     !.foreign = @ \/ Head(conns[Conn(c)].answers) # MessageOf(c)]
    OBVIOUS
  <2>3. r.sent = call[c].sent /\ r.batches = call[c].batches /\ r.ids = call[c].ids
    BY <1>1, <2>2 DEF CallRecord
  <2>4. call' = [call EXCEPT ![c] = r]
    BY <1>10, <2>2 DEF Read
  <2>5. QED
    BY <2>1, <2>3, <2>4, CallBecomes
<1>11. CASE Succeed(c)
  BY <1>3, <1>11 DEF Succeed
<1>12. CASE Fail(c)
  BY <1>3, <1>12 DEF Fail
<1>13. QED
  BY <1>4, <1>5, <1>6, <1>7, <1>8, <1>9, <1>10, <1>11, <1>12 DEF Step

LEMMA NextReadsAll ==
  ASSUME IInv, ReadsAll, [Next]_vars
  PROVE  ReadsAll'
<1>1. ASSUME NEW c \in Calls, NEW a \in Rounds, Begin(c, a) PROVE ReadsAll'
  <2>1. PICK r : r = [call[c] EXCEPT !.pc = "checking", !.todo = a.list,
                                     !.batches = a.batches, !.ids = a.ids]
    OBVIOUS
  <2>2. call[c] \in CallRecord
    BY DEF IInv, TypeOK, CallRecord, Pcs
  <2>3. r.pc = "checking" /\ call' = [call EXCEPT ![c] = r]
    BY <1>1, <2>1, <2>2 DEF Begin, CallRecord
  <2>4. QED
    BY <2>3, CallBecomes
<1>2. CASE \/ UNCHANGED vars \/ Redialed
           \/ \E p \in Peers : AddPeer(p) \/ Dialed(p) \/ RedialCheck(p)
           \/ \E k \in 1..Len(conns) : Serve(k) \/ Answer(k) \/ Break(k)
  <2>1. call' = call
    BY <1>2 DEF vars, Redialed, AddPeer, Dialed, RedialCheck, Serve, Answer, Break
  <2>2. QED
    BY <2>1 DEF ReadsAll, ToSend
<1>3. QED
  BY <1>1, <1>2, StepReadsAll DEF Next

\* The call that holds the pool is jammed, or it or its handler can go on.
LEMMA HolderGoesOn ==
  ASSUME IInv, ReadsAll, NEW c \in Calls, lock = c, ~Jammed
  PROVE  CanStep(c) \/ CanServe(Conn(c))
<1>0. Holding(c) /\ call[c].sent <= ToSend(c) /\ lock # None
  BY BroadcastAssumption DEF IInv, CallsOK, Locked
<1>1. CASE ~Usable(c)
  BY <1>0, <1>1 DEF CanStep
<1>2. CASE Usable(c)
  <2>1. PICK k : k = Conn(c)
    OBVIOUS
  <2>2. PICK n \in Connection : n = conns[k]
    BY <1>2, <2>1, UsedConn DEF Fits
  <2>3. PICK o \in CallRecord : o = call[c]
    BY DEF IInv, TypeOK, CallRecord, Pcs
  <2>4. o.sent = o.answered + Len(n.answers) + AtHandler(n) + Len(n.requests)
    BY <1>2, <2>1, <2>2, <2>3, UsedConn DEF Balanced, OfCall
  <2>5. /\ Len(n.answers) \in Nat /\ Len(n.requests) \in Nat
        /\ n.requests = <<>> <=> Len(n.requests) = 0
        /\ n.answers = <<>> <=> Len(n.answers) = 0
        /\ Len(n.requests) <= RequestCap /\ Len(n.answers) <= AnswerCap
        /\ RequestCap \in Nat \ {0} /\ AnswerCap \in Nat \ {0}
    <3>1. Fits(n)
      BY <1>2, <2>1, <2>2, UsedConn
    <3>2. n.requests \in Seq(Message) /\ n.answers \in Seq(Message)
      BY DEF Connection
    <3>3. QED
      BY <3>1, <3>2, EmptySeq, BroadcastAssumption DEF Fits
  <2>6. CASE o.pc = "sending"
    <3>1. CASE Len(n.requests) < RequestCap
      BY <2>1, <2>2, <2>3, <2>6, <3>1 DEF CanStep
    <3>2. CASE Len(n.requests) = RequestCap
      <4>1. ~Clogged(c)
        BY <1>0 DEF Jammed
      <4>2. n.handling = None \/ Len(n.answers) < AnswerCap
        BY <2>1, <2>2, <2>3, <2>5, <2>6, <3>2, <4>1 DEF Clogged
      <4>3. n.requests # <<>>
        BY <2>5, <3>2
      <4>4. QED
        BY <2>1, <2>2, <4>2, <4>3 DEF CanServe
    <3>3. QED
      BY <2>5, <3>1, <3>2
  <2>7. CASE o.pc = "reading"
    <3>1. o.ids >= o.batches /\ o.ids \in Nat /\ o.batches \in Nat /\ o.answered \in Nat
      BY <1>0, <2>3, <2>7 DEF Jammed, Unsent, CallRecord
    <3>2. o.sent = o.batches
      BY <2>3, <2>7, <3>1 DEF ReadsAll, ToSend
    <3>3. CASE o.answered = o.batches
      BY <2>3, <2>7, <3>3 DEF CanStep, Expected
    <3>4. CASE o.answered # o.batches
      <4>1. n.answers # <<>> \/ n.handling # None \/ n.requests # <<>>
        BY <2>4, <2>5, <3>1, <3>2, <3>4 DEF AtHandler
      <4>2. CASE n.answers # <<>>
        BY <2>1, <2>2, <2>3, <2>7, <4>2 DEF CanStep
      <4>3. CASE n.answers = <<>>
        BY <2>1, <2>2, <2>5, <4>1, <4>3 DEF CanServe
      <4>4. QED
        BY <4>2, <4>3
    <3>5. QED
      BY <3>3, <3>4
  <2>8. QED
    BY <1>0, <2>3, <2>6, <2>7 DEF Holding
<1>3. QED
  BY <1>1, <1>2

LEMMA CallsGoOn == IInv /\ ReadsAll => OnlyJamsBlock
<1> SUFFICES ASSUME IInv, ReadsAll, NEW c \in Calls, call[c].pc \notin {"idle", "done"}, ~Jammed
             PROVE  \/ CanStep(c)
                    \/ lock # None /\ (CanStep(lock) \/ CanServe(Conn(lock)))
  BY DEF OnlyJamsBlock
<1>1. CASE lock = None
  <2>1. ~Holding(c)
    BY <1>1, BroadcastAssumption DEF IInv, CallsOK, Locked
  <2>2. call[c].pc \in {"checking", "dialing", "locking"}
    BY <2>1 DEF IInv, TypeOK, Holding
  <2>3. QED
    BY <1>1, <2>2 DEF CanStep, Free
<1>2. CASE lock # None
  <2>1. lock \in Calls
    BY <1>2 DEF IInv, TypeOK
  <2>2. QED
    BY <1>2, <2>1, HolderGoesOn
<1>3. QED
  BY <1>1, <1>2

\* Only the two known jams block the pool: otherwise every round that has not
\* returned can go on, or waits for one that can, whatever the capacities and
\* however connections break (real_node.rs, websocket_client.rs).
THEOREM OnlyJamsBlockHolds == Spec => []OnlyJamsBlock
<1>1. Init => ReadsAll
  BY DEF Init, ReadsAll, NoCall
<1>2. QED
  BY <1>1, NextReadsAll, CallsGoOn, Invariance, PTL DEF Spec
=============================================================================
