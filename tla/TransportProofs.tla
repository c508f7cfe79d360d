-------------------------- MODULE TransportProofs --------------------------
(***************************************************************************)
(* Proofs about Transport, for any peers, messages and channel sizes.      *)
(*                                                                         *)
(* A channel waits for its writer only while the one call or the accept    *)
(* loop that made it opens it (Openers), so a writer never starts on a     *)
(* channel that was dropped.  The map is never emptied (Registered): a     *)
(* call that connects to a peer with a channel has been overtaken, and     *)
(* the peer is disputed (Racing).  The converse of Openers, that a channel *)
(* without a writer has an opener (Served), and that a writer ends only    *)
(* when nobody can use its channel (Released), show that a sender is stuck *)
(* only behind a write that the peer holds up.                             *)
(***************************************************************************)
EXTENDS Transport, TLAPS

Calls ==
  \A m \in Msgs :
    /\ send[m].pc # "idle" => send[m].peer \in Peers
    /\ send[m].pc \in {"opening", "queueing", "ok"} => send[m].chan \in 1..Len(chan)

Opening(m) == send[m].pc = "opening"

Openers ==
  /\ \A m \in Msgs : Opening(m) =>
       chan[send[m].chan].rx = "waiting" /\ listener # send[m].chan
  /\ \A m, n \in Msgs : m # n /\ Opening(m) /\ Opening(n) => send[m].chan # send[n].chan
  /\ listener # NoConn => chan[listener].rx = "waiting"

Registered == \A c \in 1..Len(chan) : conns[chan[c].peer] # NoConn

Racing ==
  \A m \in Msgs : send[m].pc = "connecting" /\ send[m].peer \notin disputed =>
    /\ \A c \in 1..Len(chan) : chan[c].peer # send[m].peer
    /\ \A n \in Msgs : send[n].pc = "connecting" /\ send[n].peer = send[m].peer => n = m

OneChannel ==
  \A c, d \in 1..Len(chan) : c # d /\ chan[c].peer = chan[d].peer => chan[c].peer \in disputed

IInv ==
  TypeOK /\ Calls /\ Openers /\ Registered /\ Racing /\ OneChannel /\ SendsAreAccountedFor

\* A writer that writes has a message in its hands.
InHand == \A c \in 1..Len(chan) : chan[c].rx = "writing" => chan[c].queue # <<>>

----------------------------------------------------------------------------
(* What a step does to the channels: nothing, a new one, or one changed.   *)

LEMMA ChanAdded ==
  ASSUME chan \in Seq(Channel), NEW p \in Peers, chan' = Append(chan, NewChannel(p))
  PROVE  /\ chan' \in Seq(Channel) /\ Len(chan') = Len(chan) + 1
         /\ \A d \in 1..Len(chan) : chan'[d] = chan[d]
         /\ chan'[Len(chan) + 1] = NewChannel(p)
<1>1. NewChannel(p) \in Channel
  BY DEF NewChannel, Channel
<1>2. QED
  BY <1>1

LEMMA ChanSet ==
  ASSUME chan \in Seq(Channel), NEW c \in 1..Len(chan), NEW r \in Channel,
         chan' = [chan EXCEPT ![c] = r]
  PROVE  /\ chan' \in Seq(Channel) /\ Len(chan') = Len(chan)
         /\ \A d \in 1..Len(chan) : chan'[d] = IF d = c THEN r ELSE chan[d]
OBVIOUS

\* A step that gives no channel another peer and starts no connection.
LEMMA PeersKept ==
  ASSUME IInv, conns' = conns, disputed' = disputed, Len(chan') = Len(chan),
         \A d \in 1..Len(chan) : chan'[d].peer = chan[d].peer,
         \A n \in Msgs : send'[n].pc = "connecting" => send'[n] = send[n]
  PROVE  Registered' /\ OneChannel' /\ Racing'
<1>1. Registered'
  BY DEF IInv, Registered
<1>2. OneChannel'
  <2>1. OneChannel
    BY DEF IInv
  <2>2. QED
    BY <2>1 DEF OneChannel
<1>3. Racing'
  <2>1. Racing
    BY DEF IInv
  <2>2. QED
    BY <2>1 DEF Racing
<1>4. QED
  BY <1>1, <1>2, <1>3

\* The channel c goes on as rx, with q in its queue and w written; peer stays.
Changed(c, rx, q, w) ==
  /\ chan' \in Seq(Channel) /\ Len(chan') = Len(chan)
  /\ \A d \in 1..Len(chan) : d # c => chan'[d] = chan[d]
  /\ chan'[c].peer = chan[c].peer /\ chan'[c].rx = rx
  /\ chan'[c].queue = q /\ chan'[c].written = w

LEMMA ChanChanged ==
  ASSUME chan \in Seq(Channel), NEW c \in 1..Len(chan), NEW r \in Channel,
         r.peer = chan[c].peer, chan' = [chan EXCEPT ![c] = r]
  PROVE  Changed(c, r.rx, r.queue, r.written)
<1>1. chan' \in Seq(Channel) /\ Len(chan') = Len(chan)
      /\ \A d \in 1..Len(chan) : chan'[d] = IF d = c THEN r ELSE chan[d]
  BY ChanSet
<1>2. QED
  BY <1>1 DEF Changed

\* A channel's record with other parts.
LEMMA ChanParts ==
  ASSUME chan \in Seq(Channel), NEW c \in 1..Len(chan)
  PROVE  /\ chan[c] \in Channel
         /\ chan[c].peer \in Peers /\ chan[c].queue \in Seq(Msgs)
         /\ chan[c].written \in SUBSET Msgs
         /\ chan[c].rx \in {"waiting", "running", "writing", "ended", "dropped"}
<1>1. chan[c] \in Channel
  OBVIOUS
<1>2. QED
  BY <1>1 DEF Channel

LEMMA OpenedChan ==
  ASSUME chan \in Seq(Channel), NEW c \in 1..Len(chan), chan' = Opened(c)
  PROVE  Changed(c, "running", chan[c].queue, chan[c].written)
<1>1. PICK r : r = [chan[c] EXCEPT !.rx = "running", !.reader = "reading"]
  OBVIOUS
<1>2. /\ r \in Channel /\ r.peer = chan[c].peer /\ r.rx = "running"
      /\ r.queue = chan[c].queue /\ r.written = chan[c].written
  BY <1>1, ChanParts DEF Channel
<1>3. chan' = [chan EXCEPT ![c] = r]
  BY <1>1 DEF Opened
<1>4. QED
  BY <1>2, <1>3, ChanChanged

LEMMA DroppedChan ==
  ASSUME chan \in Seq(Channel), NEW c \in 1..Len(chan), chan' = Dropped(c)
  PROVE  Changed(c, "dropped", <<>>, chan[c].written)
<1>0. <<>> \in Seq(Msgs)
  OBVIOUS
<1>1. PICK r : r = [chan[c] EXCEPT !.rx = "dropped", !.queue = <<>>]
  OBVIOUS
<1>2. /\ r \in Channel /\ r.peer = chan[c].peer /\ r.rx = "dropped"
      /\ r.queue = <<>> /\ r.written = chan[c].written
  BY <1>1, <1>0, ChanParts DEF Channel
<1>3. chan' = [chan EXCEPT ![c] = r]
  BY <1>1 DEF Dropped
<1>4. QED
  BY <1>2, <1>3, ChanChanged

LEMMA EndedChan ==
  ASSUME chan \in Seq(Channel), NEW c \in 1..Len(chan),
         chan' = [chan EXCEPT ![c].rx = "ended", ![c].queue = <<>>]
  PROVE  Changed(c, "ended", <<>>, chan[c].written)
<1>0. <<>> \in Seq(Msgs)
  OBVIOUS
<1>1. PICK r : r = [chan[c] EXCEPT !.rx = "ended", !.queue = <<>>]
  OBVIOUS
<1>2. /\ r \in Channel /\ r.peer = chan[c].peer /\ r.rx = "ended"
      /\ r.queue = <<>> /\ r.written = chan[c].written
  BY <1>1, <1>0, ChanParts DEF Channel
<1>3. chan' = [chan EXCEPT ![c] = r]
  BY <1>1
<1>4. QED
  BY <1>2, <1>3, ChanChanged

LEMMA QueuedChan ==
  ASSUME chan \in Seq(Channel), NEW c \in 1..Len(chan), NEW m \in Msgs,
         chan' = [chan EXCEPT ![c].queue = Append(@, m)]
  PROVE  Changed(c, chan[c].rx, Append(chan[c].queue, m), chan[c].written)
<1>1. PICK r : r = [chan[c] EXCEPT !.queue = Append(@, m)]
  OBVIOUS
<1>2. Append(chan[c].queue, m) \in Seq(Msgs)
  BY ChanParts
<1>3. /\ r \in Channel /\ r.peer = chan[c].peer /\ r.rx = chan[c].rx
      /\ r.queue = Append(chan[c].queue, m) /\ r.written = chan[c].written
  BY <1>1, <1>2, ChanParts DEF Channel
<1>4. chan' = [chan EXCEPT ![c] = r]
  BY <1>1
<1>5. QED
  BY <1>3, <1>4, ChanChanged

LEMMA SkippedChan ==
  ASSUME chan \in Seq(Channel), NEW c \in 1..Len(chan), chan[c].queue # <<>>,
         chan' = [chan EXCEPT ![c].queue = Tail(@)]
  PROVE  Changed(c, chan[c].rx, Tail(chan[c].queue), chan[c].written)
<1>1. PICK r : r = [chan[c] EXCEPT !.queue = Tail(@)]
  OBVIOUS
<1>2. Tail(chan[c].queue) \in Seq(Msgs)
  BY ChanParts
<1>3. /\ r \in Channel /\ r.peer = chan[c].peer /\ r.rx = chan[c].rx
      /\ r.queue = Tail(chan[c].queue) /\ r.written = chan[c].written
  BY <1>1, <1>2, ChanParts DEF Channel
<1>4. chan' = [chan EXCEPT ![c] = r]
  BY <1>1
<1>5. QED
  BY <1>3, <1>4, ChanChanged

LEMMA TakenChan ==
  ASSUME chan \in Seq(Channel), NEW c \in 1..Len(chan),
         chan' = [chan EXCEPT ![c].rx = "writing"]
  PROVE  Changed(c, "writing", chan[c].queue, chan[c].written)
<1>1. PICK r : r = [chan[c] EXCEPT !.rx = "writing"]
  OBVIOUS
<1>2. /\ r \in Channel /\ r.peer = chan[c].peer /\ r.rx = "writing"
      /\ r.queue = chan[c].queue /\ r.written = chan[c].written
  BY <1>1, ChanParts DEF Channel
<1>3. chan' = [chan EXCEPT ![c] = r]
  BY <1>1
<1>4. QED
  BY <1>2, <1>3, ChanChanged

LEMMA WrittenChan ==
  ASSUME chan \in Seq(Channel), NEW c \in 1..Len(chan), chan[c].queue # <<>>,
         NEW w \in SUBSET Msgs,
         chan' = [chan EXCEPT ![c].rx = "running", ![c].queue = Tail(@), ![c].written = w]
  PROVE  Changed(c, "running", Tail(chan[c].queue), w)
<1>1. PICK r : r = [chan[c] EXCEPT !.rx = "running", !.queue = Tail(@), !.written = w]
  OBVIOUS
<1>2. Tail(chan[c].queue) \in Seq(Msgs)
  BY ChanParts
<1>3. /\ r \in Channel /\ r.peer = chan[c].peer /\ r.rx = "running"
      /\ r.queue = Tail(chan[c].queue) /\ r.written = w
  BY <1>1, <1>2, ChanParts DEF Channel
<1>4. chan' = [chan EXCEPT ![c] = r]
  BY <1>1
<1>5. QED
  BY <1>3, <1>4, ChanChanged

LEMMA ReaderEnded ==
  ASSUME chan \in Seq(Channel), NEW c \in 1..Len(chan),
         chan' = [chan EXCEPT ![c].reader = "ended"]
  PROVE  Changed(c, chan[c].rx, chan[c].queue, chan[c].written)
<1>1. PICK r : r = [chan[c] EXCEPT !.reader = "ended"]
  OBVIOUS
<1>2. /\ r \in Channel /\ r.peer = chan[c].peer /\ r.rx = chan[c].rx
      /\ r.queue = chan[c].queue /\ r.written = chan[c].written
  BY <1>1, ChanParts DEF Channel
<1>3. chan' = [chan EXCEPT ![c] = r]
  BY <1>1
<1>4. QED
  BY <1>2, <1>3, ChanChanged
----------------------------------------------------------------------------
(* The steps.                                                              *)

\* A message that was accounted for stays so when its channel goes on like this.
Accounted(c, rx, q, w) ==
  /\ chan[c].rx = "dropped" => rx = "dropped"
  /\ \A m \in Msgs :
       /\ (\E i \in DOMAIN q : q[i] = m) \/ m \in w => Queued(c, m) \/ m \in chan[c].written
       /\ m \in chan[c].written => m \in w
       /\ Queued(c, m) /\ rx # "dropped" =>
            m \in w \/ m \in Big
              \/ ((\E i \in DOMAIN q : q[i] = m) /\ (rx = chan[c].rx \/ rx \in {"running", "writing"}))

OkKept == \A m \in Msgs : send[m].pc = "ok" \/ send'[m].pc = "ok" => send'[m] = send[m]

Account(m, d) ==
  /\ send[m].pc = "ok" /\ send[m].chan = d =>
       \/ m \in chan[d].written \/ m \in Big
       \/ Queued(d, m) /\ chan[d].rx \in {"waiting", "running", "writing"}
       \/ chan[d].rx = "dropped"
  /\ Queued(d, m) \/ m \in chan[d].written => send[m].pc = "ok" /\ send[m].chan = d

LEMMA Accounts ==
  SendsAreAccountedFor <=> \A m \in Msgs, d \in 1..Len(chan) : Account(m, d)
BY DEF SendsAreAccountedFor, Account

LEMMA AccountsKept ==
  ASSUME SendsAreAccountedFor, OkKept,
         NEW c \in 1..Len(chan), NEW rx, NEW q, NEW w, Changed(c, rx, q, w),
         Accounted(c, rx, q, w)
  PROVE  SendsAreAccountedFor'
<1> SUFFICES ASSUME NEW m \in Msgs, NEW d \in 1..Len(chan) PROVE Account(m, d)'
  <2>1. Len(chan') = Len(chan)
    BY DEF Changed
  <2>2. QED
    BY <2>1 DEF SendsAreAccountedFor, Account
<1>1. Account(m, d)
  BY Accounts
<1>2. send[m].pc = "ok" \/ send'[m].pc = "ok" => send'[m] = send[m]
  BY DEF OkKept
<1>3. CASE d # c
  <2>1. chan'[d] = chan[d]
    BY <1>3 DEF Changed
  <2>2. QED
    BY <1>1, <1>2, <2>1 DEF Account, Queued
<1>4. CASE d = c
  <2>1. chan'[c].rx = rx /\ chan'[c].written = w /\ chan'[c].queue = q
    BY DEF Changed
  <2>2. Queued(c, m)' <=> \E i \in DOMAIN q : q[i] = m
    BY <2>1 DEF Queued
  <2>3. /\ chan[c].rx = "dropped" => rx = "dropped"
        /\ Queued(c, m)' \/ m \in w => Queued(c, m) \/ m \in chan[c].written
        /\ m \in chan[c].written => m \in w
        /\ Queued(c, m) /\ rx # "dropped" =>
             m \in w \/ m \in Big \/ (Queued(c, m)' /\ (rx = chan[c].rx \/ rx \in {"running", "writing"}))
    BY <2>2 DEF Accounted
  <2>4. QED
    BY <1>1, <1>2, <1>4, <2>1, <2>3 DEF Account
<1>5. QED
  BY <1>3, <1>4

LEMMA AccountsAdded ==
  ASSUME chan \in Seq(Channel), SendsAreAccountedFor, OkKept, Calls, NEW p \in Peers,
         chan' = Append(chan, NewChannel(p))
  PROVE  SendsAreAccountedFor'
<1>1. /\ Len(chan') = Len(chan) + 1 /\ Len(chan) \in Nat
      /\ \A d \in 1..Len(chan) : chan'[d] = chan[d]
      /\ chan'[Len(chan) + 1] = NewChannel(p)
  BY ChanAdded
<1> SUFFICES ASSUME NEW m \in Msgs, NEW d \in 1..(Len(chan) + 1) PROVE Account(m, d)'
  BY <1>1 DEF SendsAreAccountedFor, Account
<1>2. send[m].pc = "ok" \/ send'[m].pc = "ok" => send'[m] = send[m]
  BY DEF OkKept
<1>3. CASE d \in 1..Len(chan)
  <2>1. Account(m, d) /\ chan'[d] = chan[d]
    BY <1>1, <1>3, Accounts
  <2>2. QED
    BY <1>2, <2>1 DEF Account, Queued
<1>4. CASE d = Len(chan) + 1
  <2>1. chan'[d].queue = <<>> /\ chan'[d].written = {}
    BY <1>1, <1>4 DEF NewChannel
  <2>2. ~Queued(d, m)' /\ m \notin chan'[d].written
    BY <2>1 DEF Queued
  <2>3. ~(send'[m].pc = "ok" /\ send'[m].chan = d)
    BY <1>1, <1>2, <1>4 DEF Calls
  <2>4. QED
    BY <2>2, <2>3 DEF Account
<1>5. QED
  BY <1>1, <1>3, <1>4

\* A step that changes one channel, neither its call nor the map.
LEMMA ChannelKeeps ==
  ASSUME IInv, NEW c \in 1..Len(chan), NEW rx, NEW q, NEW w, Changed(c, rx, q, w),
         chan[c].rx = "waiting" => rx = "waiting", Accounted(c, rx, q, w),
         UNCHANGED <<conns, send, listener, disputed>>
  PROVE  Calls' /\ Openers' /\ Registered' /\ Racing' /\ OneChannel' /\ SendsAreAccountedFor'
<1>1. chan \in Seq(Channel) /\ Len(chan') = Len(chan)
      /\ \A d \in 1..Len(chan) : chan'[d].peer = chan[d].peer
  BY DEF IInv, TypeOK, Changed
<1>2. Calls'
  BY <1>1 DEF IInv, Calls
<1>3. Openers'
  BY <1>1 DEF IInv, TypeOK, Calls, Openers, Opening, Changed
<1>4. Registered' /\ OneChannel'
  BY <1>1 DEF IInv, Registered, OneChannel
<1>5. Racing'
  BY <1>1 DEF IInv, Racing
<1>6. SendsAreAccountedFor'
  BY AccountsKept DEF IInv, OkKept
<1>7. QED
  BY <1>2, <1>3, <1>4, <1>5, <1>6
LEMMA LookupStep ==
  ASSUME IInv, NEW m \in Msgs, NEW p \in Peers, Lookup(m, p)
  PROVE  IInv'
<1>1. /\ TypeOK /\ chan' = chan /\ conns' = conns /\ listener' = listener
      /\ known' = known /\ events' = events
      /\ send[m].pc = "idle" /\ disputed \subseteq disputed' /\ disputed' \subseteq Peers
  BY DEF IInv, TypeOK, Lookup
<1>2. /\ send' \in [Msgs -> Call]
      /\ \A n \in Msgs : n # m => send'[n] = send[n]
      /\ send'[m].peer = p /\ send'[m].chan = conns[p]
      /\ Found(p) => send'[m].pc = "queueing"
      /\ ~Found(p) => send'[m].pc = "connecting"
  <2>1. PICK r : r = [pc |-> IF Found(p) THEN "queueing" ELSE "connecting", peer |-> p,
                      chan |-> conns[p]]
    OBVIOUS
  <2>2. conns[p] \in Nat \cup {NoConn} /\ send \in [Msgs -> Call]
    BY <1>1 DEF TypeOK
  <2>3. r \in Call
    BY <2>1, <2>2 DEF Call
  <2>4. send' = [send EXCEPT ![m] = r]
    BY <2>1 DEF Lookup
  <2>5. QED
    BY <2>1, <2>2, <2>3, <2>4
<1>3. TypeOK'
  BY <1>1, <1>2 DEF TypeOK
<1>4. Calls'
  BY <1>1, <1>2 DEF IInv, TypeOK, Calls, Found
<1>5. Openers'
  <2>1. \A n \in Msgs : Opening(n)' => n # m /\ Opening(n) /\ send'[n] = send[n]
    BY <1>2 DEF Opening
  <2>2. QED
    BY <1>1, <2>1 DEF IInv, Openers
<1>6. Registered' /\ OneChannel'
  BY <1>1 DEF IInv, Registered, OneChannel
<1>7. Racing'
  <2>1. ~Found(p) => \A c \in 1..Len(chan) : chan[c].peer # p
    BY DEF IInv, Registered, Found
  <2>2. ~Found(p) /\ p \notin disputed' =>
          \A n \in Msgs : ~(send[n].pc = "connecting" /\ send[n].peer = p)
    BY DEF Lookup, Connecting
  <2>3. send'[m].pc = "connecting" => ~Found(p)
    BY <1>2
  <2>4. QED
    BY <1>1, <1>2, <2>1, <2>2, <2>3 DEF IInv, Racing
<1>8. SendsAreAccountedFor'
  <2>1. \A n \in Msgs : send[n].pc = "ok" \/ send'[n].pc = "ok" => send'[n] = send[n]
    BY <1>1, <1>2
  <2>2. QED
    BY <1>1, <2>1 DEF IInv, SendsAreAccountedFor, Queued
<1>9. QED
  BY <1>3, <1>4, <1>5, <1>6, <1>7, <1>8 DEF IInv

LEMMA ConnectFailsStep ==
  ASSUME IInv, NEW m \in Msgs, ConnectFails(m)
  PROVE  IInv'
<1>1. /\ TypeOK /\ chan' = chan /\ conns' = conns /\ listener' = listener
      /\ known' = known /\ events' = events /\ disputed' = disputed
      /\ send[m].pc = "connecting"
  BY DEF IInv, ConnectFails
<1>2. /\ send' \in [Msgs -> Call] /\ send'[m].pc = "failed" /\ send'[m].peer = send[m].peer
      /\ \A n \in Msgs : n # m => send'[n] = send[n]
  BY <1>1 DEF TypeOK, Call, ConnectFails
<1>3. TypeOK' /\ Calls'
  BY <1>1, <1>2 DEF IInv, TypeOK, Calls
<1>4. Openers'
  BY <1>1, <1>2 DEF IInv, Openers, Opening
<1>5. Registered' /\ OneChannel' /\ Racing'
  <2>1. Len(chan') = Len(chan) /\ \A d \in 1..Len(chan) : chan'[d].peer = chan[d].peer
    BY <1>1, <1>2
  <2>2. \A n \in Msgs : send'[n].pc = "connecting" => send'[n] = send[n]
    BY <1>1, <1>2
  <2>3. QED
    BY <1>1, <2>1, <2>2, PeersKept
<1>6. SendsAreAccountedFor'
  <2>1. \A n \in Msgs : send[n].pc = "ok" \/ send'[n].pc = "ok" => send'[n] = send[n]
    BY <1>1, <1>2
  <2>2. QED
    BY <1>1, <2>1 DEF IInv, SendsAreAccountedFor, Queued
<1>7. QED
  BY <1>3, <1>4, <1>5, <1>6 DEF IInv

LEMMA ConnectStep ==
  ASSUME IInv, NEW m \in Msgs, Connect(m)
  PROVE  IInv'
<1> DEFINE p == send[m].peer
<1>1. /\ TypeOK /\ listener' = listener
      /\ known' = known /\ events' = events /\ disputed' = disputed
      /\ send[m].pc = "connecting" /\ p \in Peers
      /\ chan' = Append(chan, NewChannel(p)) /\ conns' = [conns EXCEPT ![p] = Len(chan) + 1]
  BY DEF IInv, Calls, Connect, NewId
<1>2. /\ chan' \in Seq(Channel) /\ Len(chan') = Len(chan) + 1 /\ Len(chan) \in Nat
      /\ \A d \in 1..Len(chan) : chan'[d] = chan[d]
      /\ chan'[Len(chan) + 1].peer = p /\ chan'[Len(chan) + 1].rx = "waiting"
  <2>1. chan \in Seq(Channel)
    BY <1>1 DEF TypeOK
  <2>2. /\ chan' \in Seq(Channel) /\ Len(chan') = Len(chan) + 1 /\ Len(chan) \in Nat
        /\ \A d \in 1..Len(chan) : chan'[d] = chan[d]
        /\ chan'[Len(chan) + 1] = NewChannel(p)
    BY <1>1, <2>1, ChanAdded
  <2>3. QED
    BY <2>2 DEF NewChannel
<1>3. /\ send' \in [Msgs -> Call] /\ send'[m].pc = "opening" /\ send'[m].peer = p
      /\ send'[m].chan = Len(chan) + 1
      /\ \A n \in Msgs : n # m => send'[n] = send[n]
  <2>1. PICK r : r = [send[m] EXCEPT !.pc = "opening", !.chan = Len(chan) + 1]
    OBVIOUS
  <2>2. send \in [Msgs -> Call] /\ send[m] \in Call
    BY <1>1 DEF TypeOK
  <2>3. r = [pc |-> "opening", peer |-> p, chan |-> Len(chan) + 1]
    BY <2>1, <2>2 DEF Call
  <2>4. r \in Call
    BY <1>1, <1>2, <2>3 DEF Call
  <2>5. send' = [send EXCEPT ![m] = r]
    BY <2>1 DEF Connect, NewId
  <2>6. QED
    BY <2>2, <2>3, <2>4, <2>5
<1>4. conns' \in [Peers -> (1..(Len(chan) + 1)) \cup {NoConn}]
      /\ conns'[p] = Len(chan) + 1 /\ \A q \in Peers : q # p => conns'[q] = conns[q]
  BY <1>1, <1>2 DEF TypeOK
<1>5. listener \in (1..(Len(chan) + 1)) \cup {NoConn} /\ listener # Len(chan) + 1
  BY <1>1, <1>2, TransportAssumption DEF TypeOK
<1>6. TypeOK'
  BY <1>1, <1>2, <1>3, <1>4, <1>5 DEF TypeOK
<1>7. Calls'
  BY <1>1, <1>2, <1>3 DEF IInv, Calls
<1>8. Openers'
  <2>1. \A n \in Msgs : n # m /\ Opening(n)' =>
          /\ Opening(n) /\ send'[n] = send[n] /\ send[n].chan \in 1..Len(chan)
          /\ chan'[send[n].chan] = chan[send[n].chan]
    BY <1>2, <1>3 DEF Opening, IInv, Calls
  <2>2. listener # NoConn => chan'[listener] = chan[listener]
    BY <1>1, <1>2 DEF TypeOK
  <2>3. QED
    <3>1. Openers
      BY DEF IInv
    <3>2. QED
      BY <1>1, <1>2, <1>3, <1>5, <2>1, <2>2, <3>1 DEF Openers
<1>9. Registered'
  BY <1>1, <1>2, <1>4, ChanParts, TransportAssumption DEF IInv, TypeOK, Registered
<1>10. Racing'
  BY <1>1, <1>2, <1>3 DEF IInv, Racing
<1>11. OneChannel'
  <2>1. p \notin disputed => \A c \in 1..Len(chan) : chan[c].peer # p
    BY <1>1 DEF IInv, Racing
  <2>2. QED
    BY <1>1, <1>2, <2>1 DEF IInv, OneChannel
<1>12. SendsAreAccountedFor'
  <2>1. OkKept
    BY <1>1, <1>3 DEF OkKept
  <2>2. QED
    BY <1>1, <2>1, AccountsAdded DEF IInv, TypeOK
<1>13. QED
  BY <1>6, <1>7, <1>8, <1>9, <1>10, <1>11, <1>12 DEF IInv
LEMMA OpenWriterStep ==
  ASSUME IInv, NEW m \in Msgs, NEW ok \in BOOLEAN, OpenWriter(m, ok)
  PROVE  IInv'
<1> DEFINE c == send[m].chan
           rx == IF ok THEN "running" ELSE "dropped"
           q == IF ok THEN chan[c].queue ELSE <<>>
<1>1. /\ TypeOK /\ conns' = conns /\ listener' = listener
      /\ known' = known /\ events' = events /\ disputed' = disputed
      /\ Opening(m) /\ c \in 1..Len(chan) /\ chan[c].rx = "waiting" /\ listener # c
  BY DEF IInv, Calls, Openers, Opening, OpenWriter
<1>2. Changed(c, rx, q, chan[c].written)
  <2>1. chan \in Seq(Channel)
    BY <1>1 DEF TypeOK
  <2>2. CASE ok
    BY <1>1, <2>1, <2>2, OpenedChan DEF OpenWriter
  <2>3. CASE ~ok
    BY <1>1, <2>1, <2>3, DroppedChan DEF OpenWriter
  <2>4. QED
    BY <2>2, <2>3
<1>3. /\ chan' \in Seq(Channel) /\ Len(chan') = Len(chan)
      /\ \A d \in 1..Len(chan) : chan'[d].peer = chan[d].peer /\ (d # c => chan'[d] = chan[d])
  BY <1>2 DEF Changed
<1>4. /\ send' \in [Msgs -> Call] /\ send'[m].pc = (IF ok THEN "queueing" ELSE "failed")
      /\ send'[m].peer = send[m].peer /\ send'[m].chan = c
      /\ \A n \in Msgs : n # m => send'[n] = send[n]
  BY <1>1 DEF TypeOK, Call, OpenWriter
<1>5. TypeOK'
  BY <1>1, <1>3, <1>4 DEF TypeOK
<1>6. Calls'
  BY <1>1, <1>3, <1>4 DEF IInv, Calls, Opening
<1>7. Openers'
  <2>1. \A n \in Msgs : Opening(n)' =>
          /\ n # m /\ Opening(n) /\ send'[n] = send[n] /\ send[n].chan # c
          /\ chan'[send[n].chan] = chan[send[n].chan]
    BY <1>1, <1>3, <1>4 DEF Opening, IInv, Calls, Openers
  <2>2. listener # NoConn => chan'[listener] = chan[listener]
    BY <1>1, <1>3 DEF TypeOK
  <2>3. QED
    BY <1>1, <2>1, <2>2 DEF IInv, Openers
<1>8. Registered' /\ OneChannel' /\ Racing'
  <2>1. Len(chan') = Len(chan) /\ \A d \in 1..Len(chan) : chan'[d].peer = chan[d].peer
    BY <1>1, <1>3, <1>4
  <2>2. \A n \in Msgs : send'[n].pc = "connecting" => send'[n] = send[n]
    BY <1>1, <1>3, <1>4
  <2>3. QED
    BY <1>1, <2>1, <2>2, PeersKept
<1>9. SendsAreAccountedFor'
  <2>1. OkKept
    BY <1>1, <1>4 DEF OkKept, Opening
  <2>2. Accounted(c, rx, q, chan[c].written)
    BY <1>1 DEF Accounted, Queued
  <2>3. QED
    BY <1>1, <1>2, <2>1, <2>2, AccountsKept DEF IInv
<1>10. QED
  BY <1>5, <1>6, <1>7, <1>8, <1>9 DEF IInv

LEMMA AppendedTo ==
  ASSUME NEW q \in Seq(Msgs), NEW m \in Msgs, NEW n \in Msgs
  PROVE  (\E i \in DOMAIN Append(q, m) : Append(q, m)[i] = n)
           <=> n = m \/ \E i \in DOMAIN q : q[i] = n
<1>1. /\ DOMAIN q = 1..Len(q) /\ DOMAIN Append(q, m) = 1..(Len(q) + 1) /\ Len(q) \in Nat
      /\ Append(q, m)[Len(q) + 1] = m
      /\ \A i \in 1..Len(q) : Append(q, m)[i] = q[i]
  OBVIOUS
<1>2. \A i \in 1..(Len(q) + 1) : i \in 1..Len(q) \/ i = Len(q) + 1
  BY <1>1
<1>3. Len(q) + 1 \in 1..(Len(q) + 1) /\ \A i \in 1..Len(q) : i \in 1..(Len(q) + 1)
  BY <1>1
<1>4. QED
  BY <1>1, <1>2, <1>3

LEMMA TailOf ==
  ASSUME NEW q \in Seq(Msgs), q # <<>>, NEW n \in Msgs
  PROVE  (\E i \in DOMAIN q : q[i] = n)
           <=> n = Head(q) \/ \E i \in DOMAIN Tail(q) : Tail(q)[i] = n
<1>1. /\ DOMAIN q = 1..Len(q) /\ DOMAIN Tail(q) = 1..(Len(q) - 1) /\ Len(q) \in Nat \ {0}
      /\ q[1] = Head(q) /\ \A i \in 1..(Len(q) - 1) : Tail(q)[i] = q[i + 1]
  OBVIOUS
<1>2. \A i \in 1..Len(q) : i = 1 \/ (i - 1 \in 1..(Len(q) - 1) /\ i = (i - 1) + 1)
  BY <1>1
<1>3. 1 \in 1..Len(q) /\ \A i \in 1..(Len(q) - 1) : i + 1 \in 1..Len(q)
  BY <1>1
<1>4. ASSUME NEW i \in 1..Len(q), q[i] = n, n # Head(q)
      PROVE  \E j \in DOMAIN Tail(q) : Tail(q)[j] = n
  <2>1. i - 1 \in DOMAIN Tail(q) /\ Tail(q)[i - 1] = q[i]
    BY <1>1, <1>2, <1>4
  <2>2. QED
    BY <1>4, <2>1
<1>5. ASSUME NEW j \in DOMAIN Tail(q), Tail(q)[j] = n
      PROVE  \E i \in DOMAIN q : q[i] = n
  <2>1. j + 1 \in DOMAIN q /\ q[j + 1] = n
    BY <1>1, <1>3, <1>5
  <2>2. QED
    BY <2>1
<1>6. n = Head(q) => \E i \in DOMAIN q : q[i] = n
  BY <1>1, <1>3
<1>7. QED
  BY <1>1, <1>4, <1>5, <1>6

LEMMA EnqueueStep ==
  ASSUME IInv, NEW m \in Msgs, Enqueue(m)
  PROVE  IInv'
<1> DEFINE c == send[m].chan
<1>1. /\ TypeOK /\ conns' = conns /\ listener' = listener
      /\ known' = known /\ events' = events /\ disputed' = disputed
      /\ send[m].pc = "queueing" /\ c \in 1..Len(chan)
  BY DEF IInv, Calls, Enqueue
<1>2. /\ send' \in [Msgs -> Call] /\ send'[m].pc \in {"ok", "failed"}
      /\ send'[m].peer = send[m].peer /\ send'[m].chan = c
      /\ \A n \in Msgs : n # m => send'[n] = send[n]
  <2>1. PICK x \in {"ok", "failed"} : send' = [send EXCEPT ![m].pc = x]
    BY DEF Enqueue
  <2>2. QED
    BY <1>1, <2>1 DEF TypeOK, Call
<1>3. ASSUME chan' = chan, send'[m].pc = "failed"
      PROVE  IInv'
  <2>1. TypeOK' /\ Calls' /\ Openers'
    <3>1. TypeOK'
      BY <1>1, <1>2, <1>3 DEF TypeOK
    <3>2. Calls'
      BY <1>1, <1>2, <1>3 DEF IInv, Calls
    <3>3. \A n \in Msgs : Opening(n)' => Opening(n) /\ send'[n] = send[n]
      BY <1>1, <1>2, <1>3 DEF Opening
    <3>4. Openers'
      BY <1>1, <1>3, <3>3 DEF IInv, Openers
    <3>5. QED
      BY <3>1, <3>2, <3>4
  <2>2. Registered' /\ OneChannel' /\ Racing'
    <3>1. Len(chan') = Len(chan) /\ \A d \in 1..Len(chan) : chan'[d].peer = chan[d].peer
      BY <1>1, <1>2, <1>3
    <3>2. \A n \in Msgs : send'[n].pc = "connecting" => send'[n] = send[n]
      BY <1>1, <1>2, <1>3
    <3>3. QED
      BY <1>1, <3>1, <3>2, PeersKept
  <2>3. SendsAreAccountedFor'
    <3>1. \A n \in Msgs : send[n].pc = "ok" \/ send'[n].pc = "ok" => send'[n] = send[n]
      BY <1>1, <1>2, <1>3
    <3>2. QED
      BY <1>3, <3>1 DEF IInv, SendsAreAccountedFor, Queued
  <2>4. QED
    BY <2>1, <2>2, <2>3 DEF IInv
<1>4. ASSUME chan[c].rx \in {"waiting", "running", "writing"}, send'[m].pc = "ok",
             chan' = [chan EXCEPT ![c].queue = Append(@, m)]
      PROVE  IInv'
  <2>1. Changed(c, chan[c].rx, Append(chan[c].queue, m), chan[c].written)
    BY <1>1, <1>4, QueuedChan DEF TypeOK
  <2>2. /\ chan' \in Seq(Channel) /\ Len(chan') = Len(chan)
        /\ \A d \in 1..Len(chan) : /\ chan'[d].peer = chan[d].peer /\ chan'[d].rx = chan[d].rx
                                   /\ d # c => chan'[d] = chan[d]
        /\ chan'[c].queue = Append(chan[c].queue, m) /\ chan'[c].written = chan[c].written
    BY <2>1 DEF Changed
  <2>3. TypeOK'
    BY <1>1, <1>2, <2>2 DEF TypeOK
  <2>4. Calls'
    BY <1>1, <1>2, <2>2 DEF IInv, Calls
  <2>5. Openers'
    <3>1. \A n \in Msgs : Opening(n)' =>
            /\ Opening(n) /\ send'[n] = send[n] /\ send[n].chan \in 1..Len(chan)
            /\ chan'[send[n].chan].rx = chan[send[n].chan].rx
      BY <1>1, <1>2, <1>4, <2>2 DEF Opening, IInv, Calls
    <3>2. listener # NoConn => chan'[listener].rx = chan[listener].rx
      BY <1>1, <2>2 DEF TypeOK
    <3>3. QED
      BY <1>1, <3>1, <3>2 DEF IInv, Openers
  <2>6. Registered' /\ OneChannel' /\ Racing'
    <3>1. Len(chan') = Len(chan) /\ \A d \in 1..Len(chan) : chan'[d].peer = chan[d].peer
      BY <1>1, <1>2, <1>4, <2>2
    <3>2. \A n \in Msgs : send'[n].pc = "connecting" => send'[n] = send[n]
      BY <1>1, <1>2, <1>4, <2>2
    <3>3. QED
      BY <1>1, <3>1, <3>2, PeersKept
  <2>7. SendsAreAccountedFor'
    <3> SUFFICES ASSUME NEW n \in Msgs, NEW d \in 1..Len(chan) PROVE Account(n, d)'
      BY <2>2 DEF SendsAreAccountedFor, Account
    <3>1. Account(n, d)
      BY Accounts DEF IInv
    <3>2. CASE d # c
      BY <1>1, <1>2, <2>2, <3>1, <3>2 DEF Account, Queued
    <3>3. CASE d = c
      <4>1. chan[c].queue \in Seq(Msgs)
        BY <1>1, ChanParts DEF TypeOK
      <4>2. Queued(d, n)' <=> n = m \/ Queued(d, n)
        <5>1. chan'[d].queue = Append(chan[d].queue, m) /\ chan[d].queue \in Seq(Msgs)
          BY <2>2, <3>3, <4>1
        <5>2. (\E i \in DOMAIN Append(chan[d].queue, m) : Append(chan[d].queue, m)[i] = n)
                <=> n = m \/ \E i \in DOMAIN chan[d].queue : chan[d].queue[i] = n
          BY <5>1, AppendedTo, Zenon
        <5>3. QED
          BY <5>1, <5>2 DEF Queued
      <4>3. chan'[d].rx = chan[d].rx /\ chan'[d].written = chan[d].written
        BY <1>1, <2>2, <3>3
      <4>4. CASE n = m
        <5>1. Queued(d, n)' /\ chan'[d].rx \in {"waiting", "running", "writing"}
          BY <1>4, <3>3, <4>2, <4>3, <4>4
        <5>2. send'[n].pc = "ok" /\ send'[n].chan = d
          BY <1>2, <1>4, <3>3, <4>4
        <5>3. QED
          BY <5>1, <5>2 DEF Account
      <4>5. CASE n # m
        <5>1. send'[n] = send[n]
          BY <1>2, <4>5
        <5>2. QED
          BY <3>1, <4>2, <4>3, <4>5, <5>1 DEF Account
      <4>6. QED
        BY <4>4, <4>5
    <3>4. QED
      BY <3>2, <3>3
  <2>8. QED
    BY <2>3, <2>4, <2>5, <2>6, <2>7 DEF IInv
<1>5. QED
  <2>1. \/ chan' = chan /\ send' = [send EXCEPT ![m].pc = "failed"]
        \/ /\ chan[c].rx \in {"waiting", "running", "writing"}
           /\ chan' = [chan EXCEPT ![c].queue = Append(@, m)]
           /\ send' = [send EXCEPT ![m].pc = "ok"]
    BY DEF Enqueue
  <2>2. send \in [Msgs -> Call] /\ send[m] \in Call
    BY <1>1 DEF TypeOK
  <2>3. \/ chan' = chan /\ send'[m].pc = "failed"
        \/ /\ chan[c].rx \in {"waiting", "running", "writing"} /\ send'[m].pc = "ok"
           /\ chan' = [chan EXCEPT ![c].queue = Append(@, m)]
    BY <2>1, <2>2 DEF Call
  <2>4. QED
    BY <1>3, <1>4, <2>3
LEMMA AcceptStep ==
  ASSUME IInv, NEW p \in Peers, Accept(p)
  PROVE  IInv'
<1>1. /\ TypeOK /\ send' = send /\ known' = known /\ events' = events
      /\ listener' = Len(chan) + 1
      /\ chan' = Append(chan, NewChannel(p)) /\ conns' = [conns EXCEPT ![p] = Len(chan) + 1]
  BY DEF IInv, Accept, NewId
<1>2. /\ chan' \in Seq(Channel) /\ Len(chan') = Len(chan) + 1 /\ Len(chan) \in Nat
      /\ \A d \in 1..Len(chan) : chan'[d] = chan[d]
      /\ chan'[Len(chan) + 1].peer = p /\ chan'[Len(chan) + 1].rx = "waiting"
  <2>1. chan \in Seq(Channel)
    BY <1>1 DEF TypeOK
  <2>2. /\ chan' \in Seq(Channel) /\ Len(chan') = Len(chan) + 1 /\ Len(chan) \in Nat
        /\ \A d \in 1..Len(chan) : chan'[d] = chan[d]
        /\ chan'[Len(chan) + 1] = NewChannel(p)
    BY <1>1, <2>1, ChanAdded
  <2>3. QED
    BY <2>2 DEF NewChannel
<1>3. /\ disputed \subseteq disputed' /\ disputed' \subseteq Peers
      /\ Found(p) => p \in disputed'
      /\ \A n \in Msgs : send[n].pc = "connecting" /\ send[n].peer = p => p \in disputed'
  BY <1>1 DEF Accept, Connecting, TypeOK
<1>4. conns' \in [Peers -> (1..(Len(chan) + 1)) \cup {NoConn}]
      /\ conns'[p] = Len(chan) + 1 /\ \A q \in Peers : q # p => conns'[q] = conns[q]
  BY <1>1, <1>2 DEF TypeOK
<1>5. TypeOK'
  BY <1>1, <1>2, <1>3, <1>4 DEF TypeOK
<1>6. Calls'
  BY <1>1, <1>2 DEF IInv, Calls
<1>7. Openers'
  <2>1. \A n \in Msgs : Opening(n) => /\ send[n].chan \in 1..Len(chan)
                                      /\ chan'[send[n].chan] = chan[send[n].chan]
    BY <1>2 DEF Opening, IInv, Calls
  <2>2. \A n \in Msgs : Opening(n)' <=> Opening(n)
    BY <1>1 DEF Opening
  <2>3. QED
    BY <1>1, <1>2, <2>1, <2>2 DEF IInv, Openers
<1>8. Registered'
  BY <1>1, <1>2, <1>4, ChanParts, TransportAssumption DEF IInv, TypeOK, Registered
<1>9. Racing'
  BY <1>1, <1>2, <1>3 DEF IInv, Racing
<1>10. OneChannel'
  <2>1. p \notin disputed' => \A c \in 1..Len(chan) : chan[c].peer # p
    BY <1>3 DEF IInv, Registered, Found
  <2>2. QED
    BY <1>2, <1>3, <2>1 DEF IInv, OneChannel
<1>11. SendsAreAccountedFor'
  <2>1. OkKept
    BY <1>1 DEF OkKept
  <2>2. QED
    BY <1>1, <2>1, AccountsAdded DEF IInv, TypeOK
<1>12. QED
  BY <1>5, <1>6, <1>7, <1>8, <1>9, <1>10, <1>11 DEF IInv

LEMMA AcceptWriterStep ==
  ASSUME IInv, NEW ok \in BOOLEAN, AcceptWriter(ok)
  PROVE  IInv'
<1> DEFINE rx == IF ok THEN "running" ELSE "dropped"
           q == IF ok THEN chan[listener].queue ELSE <<>>
<1>1. /\ TypeOK /\ conns' = conns /\ send' = send /\ listener' = NoConn
      /\ known' = known /\ events' = events /\ disputed' = disputed
      /\ listener \in 1..Len(chan) /\ chan[listener].rx = "waiting"
  BY DEF IInv, TypeOK, Openers, AcceptWriter
<1>2. Changed(listener, rx, q, chan[listener].written)
  <2>1. chan \in Seq(Channel)
    BY <1>1 DEF TypeOK
  <2>2. CASE ok
    BY <1>1, <2>1, <2>2, OpenedChan DEF AcceptWriter
  <2>3. CASE ~ok
    BY <1>1, <2>1, <2>3, DroppedChan DEF AcceptWriter
  <2>4. QED
    BY <2>2, <2>3
<1>3. /\ chan' \in Seq(Channel) /\ Len(chan') = Len(chan)
      /\ \A d \in 1..Len(chan) : /\ chan'[d].peer = chan[d].peer
                                 /\ d # listener => chan'[d] = chan[d]
  BY <1>2 DEF Changed
<1>4. TypeOK'
  BY <1>1, <1>3 DEF TypeOK
<1>5. Calls'
  BY <1>1, <1>3 DEF IInv, Calls
<1>6. Openers'
  <2>1. \A n \in Msgs : Opening(n) => chan'[send[n].chan] = chan[send[n].chan]
    BY <1>1, <1>3 DEF Opening, IInv, Calls, Openers
  <2>2. \A n \in Msgs : Opening(n) => send[n].chan \in 1..Len(chan)
    BY DEF Opening, IInv, Calls
  <2>3. \A n \in Msgs : Opening(n)' <=> Opening(n)
    BY <1>1 DEF Opening
  <2>4. QED
    BY <1>1, <2>1, <2>2, <2>3, TransportAssumption DEF IInv, Openers
<1>7. Registered' /\ OneChannel' /\ Racing'
  <2>1. Len(chan') = Len(chan) /\ \A d \in 1..Len(chan) : chan'[d].peer = chan[d].peer
    BY <1>1, <1>3
  <2>2. \A n \in Msgs : send'[n].pc = "connecting" => send'[n] = send[n]
    BY <1>1, <1>3
  <2>3. QED
    BY <1>1, <2>1, <2>2, PeersKept
<1>8. SendsAreAccountedFor'
  <2>1. OkKept
    BY <1>1 DEF OkKept
  <2>2. Accounted(listener, rx, q, chan[listener].written)
    BY <1>1 DEF Accounted, Queued
  <2>3. QED
    BY <1>1, <1>2, <2>1, <2>2, AccountsKept DEF IInv
<1>9. QED
  BY <1>4, <1>5, <1>6, <1>7, <1>8 DEF IInv

\* A message that leaves the queue for w, or is too large, is accounted for.
LEMMA TailAccounted ==
  ASSUME IInv, NEW c \in 1..Len(chan), chan[c].queue # <<>>, chan[c].rx # "dropped",
         NEW w \in SUBSET Msgs,
         \/ w = chan[c].written \cup {Head(chan[c].queue)}
         \/ w = chan[c].written /\ Head(chan[c].queue) \in Big
  PROVE  Accounted(c, "running", Tail(chan[c].queue), w)
<1> DEFINE m == Head(chan[c].queue)
<1>1. chan[c].queue \in Seq(Msgs)
  BY ChanParts DEF IInv, TypeOK
<1>2. \A n \in Msgs : Queued(c, n)
        <=> n = m \/ \E i \in DOMAIN Tail(chan[c].queue) : Tail(chan[c].queue)[i] = n
  BY <1>1, TailOf DEF Queued
<1> SUFFICES ASSUME NEW n \in Msgs
             PROVE  /\ (\E i \in DOMAIN Tail(chan[c].queue) : Tail(chan[c].queue)[i] = n)
                         \/ n \in w => Queued(c, n) \/ n \in chan[c].written
                    /\ n \in chan[c].written => n \in w
                    /\ Queued(c, n) => n \in w \/ n \in Big
                         \/ \E i \in DOMAIN Tail(chan[c].queue) : Tail(chan[c].queue)[i] = n
  BY DEF Accounted
<1>3. QED
  BY <1>2

LEMMA WriteStep ==
  ASSUME IInv, InHand, NEW c \in 1..Len(chan), Write(c)
  PROVE  \E q, w : Changed(c, "running", q, w) /\ Accounted(c, "running", q, w)
<1> DEFINE w == chan[c].written \cup {Head(chan[c].queue)}
<1>1. /\ chan \in Seq(Channel) /\ chan[c].rx = "writing" /\ chan[c].queue # <<>>
      /\ chan[c].queue \in Seq(Msgs) /\ chan[c].written \in SUBSET Msgs
  BY ChanParts DEF IInv, TypeOK, Write, InHand
<1>2. w \in SUBSET Msgs
  BY <1>1
<1>3. chan' = [chan EXCEPT ![c].rx = "running", ![c].queue = Tail(@), ![c].written = w]
  BY DEF Write
<1>4. Changed(c, "running", Tail(chan[c].queue), w)
  BY <1>1, <1>2, <1>3, WrittenChan
<1>5. Accounted(c, "running", Tail(chan[c].queue), w)
  BY <1>1, <1>2, TailAccounted
<1>6. QED
  BY <1>4, <1>5

LEMMA TakeStep ==
  ASSUME IInv, NEW c \in 1..Len(chan), Take(c)
  PROVE  \/ \E q, w : Changed(c, "running", q, w) /\ Accounted(c, "running", q, w)
         \/ \E q, w : Changed(c, "writing", q, w) /\ Accounted(c, "writing", q, w) /\ q # <<>>
<1>1. /\ chan \in Seq(Channel) /\ chan[c].rx = "running" /\ chan[c].queue # <<>>
      /\ chan[c].written \in SUBSET Msgs
  BY ChanParts DEF IInv, TypeOK, Take, Running
<1>2. CASE Head(chan[c].queue) \in Big
  <2>1. Changed(c, "running", Tail(chan[c].queue), chan[c].written)
    BY <1>1, <1>2, SkippedChan DEF Take
  <2>2. Accounted(c, "running", Tail(chan[c].queue), chan[c].written)
    BY <1>1, <1>2, TailAccounted
  <2>3. QED
    BY <2>1, <2>2
<1>3. CASE Head(chan[c].queue) \notin Big
  <2>1. Changed(c, "writing", chan[c].queue, chan[c].written)
    BY <1>1, <1>3, TakenChan DEF Take
  <2>2. Accounted(c, "writing", chan[c].queue, chan[c].written)
    BY <1>1 DEF Accounted, Queued
  <2>3. QED
    BY <1>1, <2>1, <2>2
<1>4. QED
  BY <1>2, <1>3

\* A step of a connection's tasks.
LEMMA TaskStep ==
  ASSUME IInv, InHand, NEW c \in 1..Len(chan),
         WriterStep(c) \/ WriteReturns(c) \/ ReadEnds(c) \/ ReadFails(c)
  PROVE  IInv'
<1>1. /\ TypeOK /\ chan \in Seq(Channel) /\ UNCHANGED <<conns, send, listener, disputed>>
      /\ known' = known
  BY DEF IInv, TypeOK, WriterStep, WriteReturns, Take, Write, WriteFails, WriterEnds,
         ReadEnds, ReadFails
<1>2. events' \in Seq([kind : {"MessageReceived", "PeerDisconnected"}, peer : Peers])
      /\ Len(events') <= EventCap
  <2>1. CASE ReadEnds(c)
    <3>1. [kind |-> "PeerDisconnected", peer |-> chan[c].peer]
            \in [kind : {"MessageReceived", "PeerDisconnected"}, peer : Peers]
      BY <1>1, ChanParts
    <3>2. Len(events) < EventCap /\ EventCap \in Nat
      BY <2>1, TransportAssumption DEF ReadEnds, Reading
    <3>3. QED
      BY <1>1, <2>1, <3>1, <3>2 DEF TypeOK, ReadEnds
  <2>2. CASE events' = events
    BY <1>1, <2>2 DEF TypeOK
  <2>3. QED
    BY <2>1, <2>2 DEF WriterStep, WriteReturns, Take, Write, WriteFails, WriterEnds, ReadFails
<1>3. \E rx, q, w : /\ Changed(c, rx, q, w) /\ Accounted(c, rx, q, w)
                    /\ chan[c].rx = "waiting" => rx = "waiting"
  <2>1. CASE Write(c)
    BY <2>1, WriteStep DEF Write
  <2>6. CASE Take(c)
    BY <2>6, TakeStep DEF Take, Running
  <2>2. CASE WriteFails(c)
    <3>1. Changed(c, "dropped", <<>>, chan[c].written)
      BY <1>1, <2>2, DroppedChan DEF WriteFails
    <3>2. Accounted(c, "dropped", <<>>, chan[c].written) /\ chan[c].rx # "waiting"
      BY <2>2 DEF Accounted, WriteFails
    <3>3. QED
      BY <3>1, <3>2
  <2>3. CASE WriterEnds(c)
    <3>1. Changed(c, "ended", <<>>, chan[c].written)
      BY <1>1, <2>3, EndedChan DEF WriterEnds
    <3>2. chan[c].queue = <<>> /\ chan[c].rx = "running"
      BY <2>3 DEF WriterEnds, Drained, Running
    <3>3. Accounted(c, "ended", <<>>, chan[c].written)
      BY <3>2 DEF Accounted, Queued
    <3>4. QED
      BY <3>1, <3>2, <3>3
  <2>4. CASE ReadEnds(c) \/ ReadFails(c)
    <3>1. Changed(c, chan[c].rx, chan[c].queue, chan[c].written)
      BY <1>1, <2>4, ReaderEnded DEF ReadEnds, ReadFails
    <3>2. Accounted(c, chan[c].rx, chan[c].queue, chan[c].written)
      BY DEF Accounted, Queued
    <3>3. QED
      BY <3>1, <3>2
  <2>5. QED
    BY <2>1, <2>2, <2>3, <2>4, <2>6 DEF WriterStep, WriteReturns
<1>4. Calls' /\ Openers' /\ Registered' /\ Racing' /\ OneChannel' /\ SendsAreAccountedFor'
  BY <1>1, <1>3, ChannelKeeps
<1>5. TypeOK'
  <2>1. chan' \in Seq(Channel) /\ Len(chan') = Len(chan)
    BY <1>3 DEF Changed
  <2>2. QED
    BY <1>1, <1>2, <2>1 DEF TypeOK
<1>6. QED
  BY <1>4, <1>5 DEF IInv

\* A step that leaves channels, calls and the map as they are.
LEMMA QuietStep ==
  ASSUME IInv, UNCHANGED <<chan, conns, send, listener, disputed>>,
         known' \subseteq Peers,
         events' \in Seq([kind : {"MessageReceived", "PeerDisconnected"}, peer : Peers]),
         Len(events') <= EventCap
  PROVE  IInv'
<1>1. TypeOK'
  BY DEF IInv, TypeOK
<1>2. Calls' /\ Registered' /\ Racing' /\ OneChannel'
  BY DEF IInv, Calls, Registered, Racing, OneChannel
<1>3. Openers'
  BY DEF IInv, Openers, Opening
<1>4. SendsAreAccountedFor'
  BY DEF IInv, SendsAreAccountedFor, Queued
<1>5. QED
  BY <1>1, <1>2, <1>3, <1>4 DEF IInv

----------------------------------------------------------------------------
(* The invariant and what follows from it.                                 *)

LEMMA InitIInv == Init => IInv
<1> SUFFICES ASSUME Init PROVE IInv
  OBVIOUS
<1>1. chan = <<>> /\ Len(chan) = 0 /\ 1..Len(chan) = {}
  BY DEF Init
<1>2. send \in [Msgs -> Call] /\ \A m \in Msgs : send[m].pc = "idle"
  BY DEF Init, Call
<1>3. TypeOK
  <2>1. Len(events) <= EventCap
           /\ events \in Seq([kind : {"MessageReceived", "PeerDisconnected"}, peer : Peers])
    BY TransportAssumption DEF Init
  <2>2. QED
    BY <1>1, <1>2, <2>1 DEF Init, TypeOK
<1>4. Calls /\ Openers /\ Registered /\ Racing /\ OneChannel /\ SendsAreAccountedFor
  BY <1>1, <1>2 DEF Init, Calls, Openers, Opening, Registered, Racing, OneChannel,
                    SendsAreAccountedFor
<1>5. QED
  BY <1>3, <1>4 DEF IInv

LEMMA NextIInv == IInv /\ InHand /\ [Next]_vars => IInv'
<1> SUFFICES ASSUME IInv, InHand, [Next]_vars PROVE IInv'
  OBVIOUS
<1>1. /\ TypeOK /\ EventCap \in Nat /\ Len(events) <= EventCap /\ known \subseteq Peers
      /\ events \in Seq([kind : {"MessageReceived", "PeerDisconnected"}, peer : Peers])
  BY TransportAssumption DEF IInv, TypeOK
<1>2. ASSUME NEW p \in Peers, AddPeer(p) \/ RemovePeer(p) PROVE IInv'
  BY <1>1, <1>2, QuietStep DEF AddPeer, RemovePeer
<1>3. ASSUME NEW c \in 1..Len(chan), Receive(c) PROVE IInv'
  <2>1. [kind |-> "MessageReceived", peer |-> chan[c].peer]
          \in [kind : {"MessageReceived", "PeerDisconnected"}, peer : Peers]
    BY <1>1, ChanParts DEF TypeOK
  <2>2. Len(events) < EventCap
    BY <1>3 DEF Receive, Reading
  <2>3. events' \in Seq([kind : {"MessageReceived", "PeerDisconnected"}, peer : Peers])
        /\ Len(events') <= EventCap
    BY <1>1, <1>3, <2>1, <2>2 DEF Receive
  <2>4. QED
    BY <1>1, <1>3, <2>3, QuietStep DEF Receive
<1>4. ASSUME HandleEvent PROVE IInv'
  <2>1. events' \in Seq([kind : {"MessageReceived", "PeerDisconnected"}, peer : Peers])
        /\ Len(events') <= EventCap
    BY <1>1, <1>4 DEF HandleEvent
  <2>2. QED
    BY <1>1, <1>4, <2>1, QuietStep DEF HandleEvent
<1>5. CASE UNCHANGED vars
  BY <1>1, <1>5, QuietStep DEF vars
<1>6. QED
  BY <1>2, <1>3, <1>4, <1>5, LookupStep, ConnectFailsStep, ConnectStep, OpenWriterStep,
     EnqueueStep, AcceptStep, AcceptWriterStep, TaskStep DEF Next, SendStep

\* A channel's step that keeps a message in its writer's hands.
LEMMA HandKept ==
  ASSUME InHand, NEW c \in 1..Len(chan), NEW rx, NEW q, NEW w, Changed(c, rx, q, w),
         rx = "writing" => q # <<>>
  PROVE  InHand'
BY DEF InHand, Changed

\* A message is taken for a write and stays until the write returns.
LEMMA InHandStep ==
  ASSUME IInv, InHand, [Next]_vars
  PROVE  InHand'
<1>1. chan \in Seq(Channel) /\ Calls /\ Openers /\ listener \in (1..Len(chan)) \cup {NoConn}
  BY DEF IInv, TypeOK
<1>2. CASE chan' = chan
  BY <1>2 DEF InHand
<1>3. ASSUME NEW p \in Peers, chan' = Append(chan, NewChannel(p)) PROVE InHand'
  <2>1. /\ Len(chan') = Len(chan) + 1 /\ \A d \in 1..Len(chan) : chan'[d] = chan[d]
        /\ chan'[Len(chan) + 1] = NewChannel(p)
    BY <1>1, <1>3, ChanAdded
  <2>2. chan'[Len(chan) + 1].rx = "waiting"
    BY <2>1 DEF NewChannel
  <2>3. \A d \in 1..(Len(chan) + 1) : d \in 1..Len(chan) \/ d = Len(chan) + 1
    BY <1>1
  <2>4. QED
    BY <2>1, <2>2, <2>3 DEF InHand
<1>4. ASSUME NEW c \in 1..Len(chan), chan[c].rx # "writing", chan' = Opened(c) PROVE InHand'
  BY <1>1, <1>4, OpenedChan, HandKept
<1>5. ASSUME NEW c \in 1..Len(chan), chan' = Dropped(c) PROVE InHand'
  BY <1>1, <1>5, DroppedChan, HandKept
<1>6. ASSUME NEW c \in 1..Len(chan), NEW m \in Msgs,
             chan' = [chan EXCEPT ![c].queue = Append(@, m)]
      PROVE  InHand'
  <2>1. PICK q : q = chan[c].queue
    OBVIOUS
  <2>2. q \in Seq(Msgs)
    BY <1>1, <2>1, ChanParts
  <2>3. Len(Append(q, m)) = Len(q) + 1 /\ Len(q) \in Nat /\ Len(<<>>) = 0
    BY <2>2
  <2>4. Append(q, m) # <<>>
    BY ONLY <2>3
  <2>5. Changed(c, chan[c].rx, Append(q, m), chan[c].written)
    BY <1>1, <1>6, <2>1, QueuedChan
  <2>6. PICK z : z = Append(q, m)
    OBVIOUS
  <2>7. z # <<>> /\ Changed(c, chan[c].rx, z, chan[c].written)
    BY <2>4, <2>5, <2>6
  <2>8. QED
    BY <2>7, HandKept
<1>7. ASSUME NEW m \in Msgs, Connect(m) PROVE InHand'
  <2>1. send[m].peer \in Peers
    BY <1>1, <1>7 DEF Calls, Connect
  <2>2. QED
    BY <1>3, <1>7, <2>1 DEF Connect
<1>8. ASSUME NEW p \in Peers, Accept(p) PROVE InHand'
  BY <1>3, <1>8 DEF Accept
<1>9. ASSUME NEW m \in Msgs, NEW ok \in BOOLEAN, OpenWriter(m, ok) PROVE InHand'
  <2>1. send[m].chan \in 1..Len(chan) /\ chan[send[m].chan].rx = "waiting"
    BY <1>1, <1>9 DEF OpenWriter, Calls, Openers, Opening
  <2>2. QED
    BY <1>4, <1>5, <1>9, <2>1 DEF OpenWriter
<1>10. ASSUME NEW ok \in BOOLEAN, AcceptWriter(ok) PROVE InHand'
  <2>1. listener \in 1..Len(chan) /\ chan[listener].rx = "waiting"
    BY <1>1, <1>10 DEF AcceptWriter, Openers
  <2>2. QED
    BY <1>4, <1>5, <1>10, <2>1 DEF AcceptWriter
<1>11. ASSUME NEW m \in Msgs, Enqueue(m) PROVE InHand'
  <2>1. send[m].chan \in 1..Len(chan)
    BY <1>1, <1>11 DEF Enqueue, Calls
  <2>2. QED
    BY <1>2, <1>6, <1>11, <2>1 DEF Enqueue
<1>12. ASSUME NEW c \in 1..Len(chan), Take(c) PROVE InHand'
  <2>1. PICK rx, q, w : Changed(c, rx, q, w) /\ (rx = "writing" => q # <<>>)
    BY <1>12, TakeStep
  <2>2. QED
    BY <2>1, HandKept
<1>13. ASSUME NEW c \in 1..Len(chan), Write(c) PROVE InHand'
  <2>1. PICK q, w : Changed(c, "running", q, w)
    BY <1>13, WriteStep
  <2>2. QED
    BY <2>1, HandKept
<1>14. ASSUME NEW c \in 1..Len(chan), WriteFails(c) PROVE InHand'
  BY <1>5, <1>14 DEF WriteFails
<1>15. ASSUME NEW c \in 1..Len(chan), WriterEnds(c) PROVE InHand'
  BY <1>1, <1>15, EndedChan, HandKept DEF WriterEnds
<1>16. ASSUME NEW c \in 1..Len(chan), ReadEnds(c) \/ ReadFails(c) PROVE InHand'
  <2>1. Changed(c, chan[c].rx, chan[c].queue, chan[c].written)
    BY <1>1, <1>16, ReaderEnded DEF ReadEnds, ReadFails
  <2>2. chan[c].rx = "writing" => chan[c].queue # <<>>
    BY DEF InHand
  <2>3. QED
    BY <2>1, <2>2, HandKept
<1>17. CASE \/ \E p \in Peers : AddPeer(p) \/ RemovePeer(p)
            \/ \E m \in Msgs : ConnectFails(m) \/ \E p \in Peers : Lookup(m, p)
            \/ \E c \in 1..Len(chan) : Receive(c)
            \/ HandleEvent \/ UNCHANGED vars
  BY <1>2, <1>17 DEF AddPeer, RemovePeer, ConnectFails, Lookup, Receive, HandleEvent, vars
<1>18. QED
  BY <1>7, <1>8, <1>9, <1>10, <1>11, <1>12, <1>13, <1>14, <1>15, <1>16, <1>17
     DEF Next, SendStep, WriterStep, WriteReturns

\* The invariant holds in every reachable state.
THEOREM Invariance == Spec => [](IInv /\ InHand)
<1>1. Init => InHand
  BY DEF Init, InHand
<1>2. IInv /\ InHand /\ [Next]_vars => InHand'
  BY InHandStep
<1>3. QED
  BY <1>1, <1>2, InitIInv, NextIInv, PTL DEF Spec

\* The variables keep their types.
THEOREM TypeCorrect == Spec => []TypeOK
<1>1. IInv => TypeOK
  BY DEF IInv
<1>2. QED
  BY <1>1, Invariance, PTL

\* What send_message answered is true of its message, on every channel.
THEOREM SendsAreAccountedForHolds == Spec => []SendsAreAccountedFor
<1>1. IInv => SendsAreAccountedFor
  BY DEF IInv
<1>2. QED
  BY <1>1, Invariance, PTL

\* Two connections to a peer only where get_or_create_connection was overtaken.
THEOREM OneConnectionPerPeerHolds == Spec => []OneConnectionPerPeer
<1>1. IInv => OneConnectionPerPeer
  BY DEF IInv, OneChannel, OneConnectionPerPeer
<1>2. QED
  BY <1>1, Invariance, PTL

----------------------------------------------------------------------------
(* Whom a sender waits for.                                                *)

OpenedBy(c) == listener = c \/ \E m \in Msgs : Opening(m) /\ send[m].chan = c

\* A channel without a writer has one who opens it.
Served == \A c \in 1..Len(chan) : chan[c].rx = "waiting" => OpenedBy(c)

\* A channel whose writer came to an end is neither registered nor in use.
Uses(m, c) == send[m].pc \in {"opening", "queueing"} /\ send[m].chan = c
Released ==
  \A c \in 1..Len(chan) : chan[c].rx = "ended" =>
    (\A p \in Peers : conns[p] # c) /\ (\A m \in Msgs : ~Uses(m, c))

\* A call whose message waits for its channel can go on, or the channel's writer
\* can, or the call or the accept loop that is opening the writer, or the channel
\* is full and its writer is in the middle of a write.
NoSenderIsStuck ==
  \A m \in Msgs : send[m].pc = "queueing" =>
    LET c == send[m].chan
    IN  \/ chan[c].rx = "dropped"
        \/ Live(c) /\ HasRoom(c)
        \/ Running(c) /\ chan[c].queue # <<>>
        \/ OpenedBy(c)
        \/ HeldUp(m)

\* A step that brings no channel into use and leaves every opener at its work.
LEMMA NothingOpened ==
  ASSUME Served, Released, Len(chan') = Len(chan), listener' = listener, conns' = conns,
         \A d \in 1..Len(chan) : chan'[d].rx \in {"waiting", "ended"} => chan'[d].rx = chan[d].rx,
         \A n \in Msgs : /\ Opening(n)' <=> Opening(n)
                         /\ Opening(n) => send'[n].chan = send[n].chan,
         \A n \in Msgs : \A d \in 1..Len(chan) : Uses(n, d)' =>
           Uses(n, d) \/ \E p \in Peers : conns[p] = d
  PROVE  Served' /\ Released'
<1>1. \A d \in 1..Len(chan) : OpenedBy(d) => OpenedBy(d)'
  BY DEF OpenedBy
<1>2. Served'
  BY <1>1 DEF Served
<1>3. Released'
  BY DEF Released
<1>4. QED
  BY <1>2, <1>3

LEMMA LookupServes ==
  ASSUME IInv, Served, Released, NEW m \in Msgs, NEW p \in Peers, Lookup(m, p)
  PROVE  Served' /\ Released'
<1>1. /\ chan' = chan /\ listener' = listener /\ conns' = conns /\ send[m].pc = "idle"
      /\ send \in [Msgs -> Call]
  BY DEF IInv, TypeOK, Lookup
<1>2. \A n \in Msgs : n # m => send'[n] = send[n]
  BY <1>1 DEF Lookup
<1>3. send'[m].pc \in {"queueing", "connecting"} /\ send'[m].chan = conns[p]
  BY <1>1 DEF Lookup
<1>4. \A n \in Msgs : /\ Opening(n)' <=> Opening(n)
                      /\ Opening(n) => send'[n].chan = send[n].chan
  BY <1>1, <1>2, <1>3 DEF Opening
<1>5. \A n \in Msgs : \A d \in 1..Len(chan) :
        Uses(n, d)' => Uses(n, d) \/ \E q \in Peers : conns[q] = d
  BY <1>2, <1>3 DEF Uses
<1>6. QED
  BY <1>1, <1>4, <1>5, NothingOpened

LEMMA ConnectFailsServes ==
  ASSUME IInv, Served, Released, NEW m \in Msgs, ConnectFails(m)
  PROVE  Served' /\ Released'
<1>1. /\ chan' = chan /\ listener' = listener /\ conns' = conns
      /\ send[m].pc = "connecting" /\ send'[m].pc = "failed"
      /\ \A n \in Msgs : n # m => send'[n] = send[n]
  BY DEF IInv, TypeOK, Call, ConnectFails
<1>2. \A n \in Msgs : /\ Opening(n)' <=> Opening(n)
                      /\ Opening(n) => send'[n].chan = send[n].chan
  BY <1>1 DEF Opening
<1>3. \A n \in Msgs : \A d \in 1..Len(chan) : Uses(n, d)' => Uses(n, d)
  BY <1>1 DEF Uses
<1>4. QED
  BY <1>1, <1>2, <1>3, NothingOpened

\* A new channel is waiting, and its maker opens it.
LEMMA MadeServed ==
  ASSUME IInv, Served, Released, NEW p \in Peers,
         chan' = Append(chan, NewChannel(p)),
         NEW c, c = NewId, conns' = [conns EXCEPT ![p] = c], OpenedBy(c)',
         \A d \in 1..Len(chan) : OpenedBy(d) => OpenedBy(d)',
         \A n \in Msgs : \A d \in 1..Len(chan) : Uses(n, d)' => Uses(n, d)
  PROVE  Served' /\ Released'
<1>1. chan \in Seq(Channel) /\ conns \in [Peers -> (1..Len(chan)) \cup {NoConn}]
  BY DEF IInv, TypeOK
<1>2. /\ Len(chan') = Len(chan) + 1 /\ Len(chan) \in Nat
      /\ \A d \in 1..Len(chan) : chan'[d] = chan[d]
      /\ chan'[Len(chan) + 1] = NewChannel(p)
  BY <1>1, ChanAdded
<1>3. chan'[Len(chan) + 1].rx = "waiting"
  BY <1>2 DEF NewChannel
<1>4. \A d \in 1..Len(chan') : d \in 1..Len(chan) \/ d = Len(chan) + 1
  BY <1>2
<1>5. Served'
  BY <1>2, <1>4 DEF Served, NewId
<1>6. \A d \in 1..Len(chan), q \in Peers : conns'[q] = d => conns[q] = d
  BY <1>1, <1>2 DEF NewId
<1>7. Released'
  BY <1>2, <1>3, <1>4, <1>6 DEF Released
<1>8. QED
  BY <1>5, <1>7

LEMMA ConnectServes ==
  ASSUME IInv, Served, Released, NEW m \in Msgs, Connect(m)
  PROVE  Served' /\ Released'
<1>1. /\ listener' = listener /\ send[m].pc = "connecting" /\ send[m].peer \in Peers
      /\ chan' = Append(chan, NewChannel(send[m].peer))
      /\ conns' = [conns EXCEPT ![send[m].peer] = NewId] /\ Len(chan) \in Nat
  BY DEF IInv, TypeOK, Calls, Connect
<1>2. /\ send'[m].pc = "opening" /\ send'[m].chan = NewId
      /\ \A n \in Msgs : n # m => send'[n] = send[n]
  BY DEF IInv, TypeOK, Call, Connect
<1>3. PICK c : c = NewId
  OBVIOUS
<1>4. OpenedBy(c)'
  BY <1>2, <1>3 DEF OpenedBy, Opening
<1>5. \A d \in 1..Len(chan) : OpenedBy(d) => OpenedBy(d)'
  BY <1>1, <1>2 DEF OpenedBy, Opening
<1>6. \A n \in Msgs : \A d \in 1..Len(chan) : Uses(n, d)' => Uses(n, d)
  BY <1>1, <1>2 DEF Uses, NewId
<1>7. QED
  BY <1>1, <1>3, <1>4, <1>5, <1>6, MadeServed

LEMMA AcceptServes ==
  ASSUME IInv, Served, Released, NEW p \in Peers, Accept(p)
  PROVE  Served' /\ Released'
<1>1. /\ listener = NoConn /\ listener' = NewId /\ send' = send /\ NoConn \notin Nat
      /\ chan' = Append(chan, NewChannel(p)) /\ conns' = [conns EXCEPT ![p] = NewId]
  BY TransportAssumption DEF Accept
<1>2. PICK c : c = NewId
  OBVIOUS
<1>3. OpenedBy(c)'
  BY <1>1, <1>2 DEF OpenedBy
<1>4. \A d \in 1..Len(chan) : OpenedBy(d) => OpenedBy(d)'
  BY <1>1 DEF OpenedBy, Opening
<1>5. \A n \in Msgs : \A d \in 1..Len(chan) : Uses(n, d)' => Uses(n, d)
  BY <1>1 DEF Uses
<1>6. QED
  BY <1>1, <1>2, <1>3, <1>4, <1>5, MadeServed

\* The opener of c has opened it or dropped it.
LEMMA ChannelServed ==
  ASSUME Served, Released, NEW c \in 1..Len(chan), NEW rx \in {"running", "dropped"},
         NEW q, NEW w, Changed(c, rx, q, w), conns' = conns, chan[c].rx = "waiting",
         \A d \in 1..Len(chan) : d # c /\ OpenedBy(d) => OpenedBy(d)',
         \A n \in Msgs : \A d \in 1..Len(chan) : d # c /\ Uses(n, d)' => Uses(n, d)
  PROVE  Served' /\ Released'
<1>1. /\ Len(chan') = Len(chan) /\ chan'[c].rx = rx
      /\ \A d \in 1..Len(chan) : d # c => chan'[d] = chan[d]
  BY DEF Changed
<1>2. Served'
  BY <1>1 DEF Served
<1>3. Released'
  BY <1>1 DEF Released
<1>4. QED
  BY <1>2, <1>3

LEMMA OpenWriterServes ==
  ASSUME IInv, Served, Released, NEW m \in Msgs, NEW ok \in BOOLEAN, OpenWriter(m, ok)
  PROVE  Served' /\ Released'
<1> DEFINE c == send[m].chan
           rx == IF ok THEN "running" ELSE "dropped"
           q == IF ok THEN chan[c].queue ELSE <<>>
<1>1. /\ conns' = conns /\ listener' = listener /\ chan \in Seq(Channel)
      /\ c \in 1..Len(chan) /\ chan[c].rx = "waiting" /\ listener # c
  BY DEF IInv, TypeOK, Calls, Openers, Opening, OpenWriter
<1>2. Changed(c, rx, q, chan[c].written)
  <2>1. CASE ok
    BY <1>1, <2>1, OpenedChan DEF OpenWriter
  <2>2. CASE ~ok
    BY <1>1, <2>2, DroppedChan DEF OpenWriter
  <2>3. QED
    BY <2>1, <2>2
<1>3. send'[m].chan = c /\ \A n \in Msgs : n # m => send'[n] = send[n]
  BY DEF IInv, TypeOK, Call, OpenWriter
<1>4. \A d \in 1..Len(chan) : d # c /\ OpenedBy(d) => OpenedBy(d)'
  BY <1>1, <1>3 DEF OpenedBy, Opening
<1>5. \A n \in Msgs : \A d \in 1..Len(chan) : d # c /\ Uses(n, d)' => Uses(n, d)
  BY <1>3 DEF Uses
<1>6. rx \in {"running", "dropped"}
  OBVIOUS
<1> HIDE DEF rx, q
<1>7. QED
  BY <1>1, <1>2, <1>4, <1>5, <1>6, ChannelServed

LEMMA AcceptWriterServes ==
  ASSUME IInv, Served, Released, NEW ok \in BOOLEAN, AcceptWriter(ok)
  PROVE  Served' /\ Released'
<1> DEFINE rx == IF ok THEN "running" ELSE "dropped"
           q == IF ok THEN chan[listener].queue ELSE <<>>
<1>1. /\ conns' = conns /\ send' = send /\ chan \in Seq(Channel)
      /\ listener \in 1..Len(chan) /\ chan[listener].rx = "waiting"
  BY DEF IInv, TypeOK, Openers, AcceptWriter
<1>2. Changed(listener, rx, q, chan[listener].written)
  <2>1. CASE ok
    BY <1>1, <2>1, OpenedChan DEF AcceptWriter
  <2>2. CASE ~ok
    BY <1>1, <2>2, DroppedChan DEF AcceptWriter
  <2>3. QED
    BY <2>1, <2>2
<1>3. \A d \in 1..Len(chan) : d # listener /\ OpenedBy(d) => OpenedBy(d)'
  BY <1>1 DEF OpenedBy, Opening
<1>4. \A n \in Msgs : \A d \in 1..Len(chan) : d # listener /\ Uses(n, d)' => Uses(n, d)
  BY <1>1 DEF Uses
<1>5. rx \in {"running", "dropped"}
  OBVIOUS
<1> HIDE DEF rx, q
<1>6. QED
  BY <1>1, <1>2, <1>3, <1>4, <1>5, ChannelServed

\* A message that is queued or refused leaves its channel as it is used.
LEMMA EnqueueServes ==
  ASSUME IInv, Served, Released, NEW m \in Msgs, Enqueue(m)
  PROVE  Served' /\ Released'
<1> DEFINE c == send[m].chan
<1>1. /\ conns' = conns /\ listener' = listener /\ chan \in Seq(Channel)
      /\ send[m].pc = "queueing" /\ c \in 1..Len(chan)
  BY DEF IInv, TypeOK, Calls, Enqueue
<1>2. /\ send'[m].pc \in {"ok", "failed"}
      /\ \A n \in Msgs : n # m => send'[n] = send[n]
  BY DEF IInv, TypeOK, Call, Enqueue
<1>3. Len(chan') = Len(chan) /\ \A d \in 1..Len(chan) : chan'[d].rx = chan[d].rx
  <2>1. CASE chan' = chan
    BY <2>1
  <2>2. CASE chan' = [chan EXCEPT ![c].queue = Append(@, m)]
    BY <1>1, <2>2, QueuedChan DEF Changed
  <2>3. QED
    BY <2>1, <2>2 DEF Enqueue
<1>4. \A n \in Msgs : /\ Opening(n)' <=> Opening(n)
                      /\ Opening(n) => send'[n].chan = send[n].chan
  BY <1>1, <1>2 DEF Opening
<1>5. \A n \in Msgs : \A d \in 1..Len(chan) : Uses(n, d)' => Uses(n, d)
  BY <1>2 DEF Uses
<1>6. QED
  BY <1>1, <1>3, <1>4, <1>5, NothingOpened

\* A writer ends only when nobody can send to it any more.
LEMMA TaskServes ==
  ASSUME IInv, InHand, Served, Released, NEW c \in 1..Len(chan),
         WriterStep(c) \/ WriteReturns(c) \/ ReadEnds(c) \/ ReadFails(c)
  PROVE  Served' /\ Released'
<1>1. chan \in Seq(Channel) /\ UNCHANGED <<conns, send, listener>>
  BY DEF IInv, TypeOK, WriterStep, WriteReturns, Take, Write, WriteFails, WriterEnds,
         ReadEnds, ReadFails
<1>2. CASE WriterEnds(c)
  <2>1. Changed(c, "ended", <<>>, chan[c].written)
    BY <1>1, <1>2, EndedChan DEF WriterEnds
  <2>2. /\ Len(chan') = Len(chan)
        /\ \A d \in 1..Len(chan) : d # c => chan'[d] = chan[d]
        /\ chan'[c].rx = "ended"
    BY <2>1 DEF Changed
  <2>3. (\A p \in Peers : conns[p] # c) /\ (\A m \in Msgs : ~Uses(m, c))
    BY <1>2 DEF WriterEnds, Drained, Senders, Uses
  <2>4. \A d \in 1..Len(chan) : OpenedBy(d)' <=> OpenedBy(d)
    BY <1>1 DEF OpenedBy, Opening
  <2>5. Served'
    BY <2>2, <2>4 DEF Served
  <2>6. Released'
    BY <1>1, <2>2, <2>3 DEF Released, Uses
  <2>7. QED
    BY <2>5, <2>6
<1>3. CASE Take(c) \/ Write(c) \/ WriteFails(c) \/ ReadEnds(c) \/ ReadFails(c)
  <2>1. /\ Len(chan') = Len(chan)
        /\ \A d \in 1..Len(chan) : \/ chan'[d].rx = chan[d].rx
                                   \/ chan'[d].rx \in {"running", "writing", "dropped"}
    <3>1. CASE Write(c)
      BY <3>1, WriteStep DEF Changed
    <3>5. CASE Take(c)
      BY <3>5, TakeStep DEF Changed
    <3>2. CASE WriteFails(c)
      BY <1>1, <3>2, DroppedChan DEF Changed, WriteFails
    <3>3. CASE ReadEnds(c) \/ ReadFails(c)
      BY <1>1, <3>3, ReaderEnded DEF Changed, ReadEnds, ReadFails
    <3>4. QED
      BY <1>3, <3>1, <3>2, <3>3, <3>5
  <2>2. \A n \in Msgs : /\ Opening(n)' <=> Opening(n)
                        /\ Opening(n) => send'[n].chan = send[n].chan
    BY <1>1 DEF Opening
  <2>3. \A n \in Msgs : \A d \in 1..Len(chan) : Uses(n, d)' => Uses(n, d)
    BY <1>1 DEF Uses
  <2>4. QED
    BY <1>1, <2>1, <2>2, <2>3, NothingOpened
<1>4. QED
  BY <1>2, <1>3 DEF WriterStep, WriteReturns

\* No sender waits for a writer that nobody makes or that has ended: a full
\* channel has a writer that can go on or is writing to the peer, or one is
\* being opened, or it is dropped.
THEOREM NoSenderIsStuckHolds == Spec => []NoSenderIsStuck
<1>1. Init => Served /\ Released
  <2> SUFFICES ASSUME Init PROVE Served /\ Released
    OBVIOUS
  <2>1. 1..Len(chan) = {}
    BY DEF Init
  <2>2. QED
    BY <2>1 DEF Served, Released
<1>2. IInv /\ InHand /\ Served /\ Released /\ [Next]_vars => Served' /\ Released'
  <2> SUFFICES ASSUME IInv, InHand, Served, Released, [Next]_vars PROVE Served' /\ Released'
    OBVIOUS
  <2>1. CASE UNCHANGED <<chan, conns, send, listener>>
    BY <2>1 DEF Served, Released, OpenedBy, Opening, Uses
  <2>2. ASSUME NEW p \in Peers, AddPeer(p) \/ RemovePeer(p) PROVE Served' /\ Released'
    BY <2>1, <2>2 DEF AddPeer, RemovePeer
  <2>3. ASSUME NEW c \in 1..Len(chan), Receive(c) PROVE Served' /\ Released'
    BY <2>1, <2>3 DEF Receive
  <2>4. CASE HandleEvent \/ UNCHANGED vars
    BY <2>1, <2>4 DEF HandleEvent, vars
  <2>5. QED
    BY <2>2, <2>3, <2>4, LookupServes, ConnectFailsServes, ConnectServes, OpenWriterServes,
       EnqueueServes, AcceptServes, AcceptWriterServes, TaskServes DEF Next, SendStep
<1>3. IInv /\ Served /\ Released => NoSenderIsStuck
  <2> SUFFICES ASSUME IInv, Served, Released, NEW m \in Msgs, send[m].pc = "queueing"
               PROVE  LET c == send[m].chan
                      IN  \/ chan[c].rx = "dropped"
                          \/ Live(c) /\ HasRoom(c)
                          \/ Running(c) /\ chan[c].queue # <<>>
                          \/ OpenedBy(c)
                          \/ HeldUp(m)
    BY DEF NoSenderIsStuck
  <2>1. send[m].chan \in 1..Len(chan)
    BY DEF IInv, Calls
  <2>2. chan[send[m].chan].rx \in {"waiting", "running", "writing", "ended", "dropped"}
    BY <2>1, ChanParts DEF IInv, TypeOK
  <2>3. chan[send[m].chan].rx # "ended"
    BY <2>1 DEF Released, Uses
  <2>4. ChannelCap \in Nat \ {0} /\ Len(<<>>) = 0
    BY TransportAssumption
  <2>5. QED
    BY <2>1, <2>2, <2>3, <2>4 DEF Served, Running, Live, HasRoom, HeldUp
<1>4. QED
  BY <1>1, <1>2, <1>3, Invariance, PTL DEF Spec
=============================================================================
