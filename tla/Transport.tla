----------------------------- MODULE Transport -----------------------------
(***************************************************************************)
(* TransportService of src/network/transport.rs with the PeerManager of    *)
(* src/network/peer.rs: one node's TCP connections, each with a bounded    *)
(* channel that a writer task drains and a reader task that reports what   *)
(* arrives to the network's event loop.                                    *)
(*                                                                         *)
(* send_message looks the peer up in the connection map, unlocks it,       *)
(* connects, registers the channel and only then opens the second socket   *)
(* for its writer: every await is a step.  Nothing ever leaves the map.    *)
(* The peers' side is the environment's: whether an attempt to connect,    *)
(* write or read succeeds and, as no write has a timeout, whether a write  *)
(* ever returns.  Times are left out.                                      *)
(***************************************************************************)
EXTENDS Integers, Sequences, FiniteSets

CONSTANTS
  Peers,
  Msgs,          \* calls of send_message, one message each
  Big,           \* the messages larger than MAX_MESSAGE_SIZE
  NoConn,
  ChannelCap,    \* capacity of a connection's channel (100)
  EventCap,      \* capacity of the event channel (100)
  MaxConns,      \* bound: connections ever made
  MaxReceived    \* bound: messages that arrive

ASSUME TransportAssumption ==
  /\ IsFiniteSet(Peers) /\ IsFiniteSet(Msgs)
  /\ Big \subseteq Msgs
  /\ NoConn \notin Nat
  /\ {ChannelCap, EventCap} \subseteq Nat \ {0}
  /\ {MaxConns, MaxReceived} \subseteq Nat

VARIABLES
  known,      \* peers of the PeerManager
  conns,      \* connections: the channel registered for each peer
  chan,       \* every channel made, by number
  send,       \* the calls of send_message
  listener,   \* the channel the accept loop is opening a writer for
  events,     \* NetworkEvents in the event channel
  received,   \* messages that have arrived
  disputed    \* peers for which a second connection was begun during a first

vars == <<known, conns, chan, send, listener, events, received, disputed>>

\* rx: "waiting" for its writer, "running" in it, "writing" the message it has
\* taken, which stays at the head of the queue here until the write returns,
\* "ended" with the last sender, "dropped" by a failure.
Channel == [peer : Peers, queue : Seq(Msgs), written : SUBSET Msgs,
            rx : {"waiting", "running", "writing", "ended", "dropped"},
            reader : {"none", "reading", "ended"}]
Call == [pc : {"idle", "connecting", "opening", "queueing", "ok", "failed"},
         peer : Peers \cup {NoConn}, chan : Nat \cup {NoConn}]

NewChannel(p) == [peer |-> p, queue |-> <<>>, written |-> {}, rx |-> "waiting",
                  reader |-> "none"]
NewId == Len(chan) + 1

Connecting(p) == {m \in Msgs : send[m].pc = "connecting" /\ send[m].peer = p}

Init ==
  /\ known \in SUBSET Peers
  /\ conns = [p \in Peers |-> NoConn]
  /\ chan = <<>>
  /\ send = [m \in Msgs |-> [pc |-> "idle", peer |-> NoConn, chan |-> NoConn]]
  /\ listener = NoConn
  /\ events = <<>> /\ received = 0
  /\ disputed = {}

----------------------------------------------------------------------------
(* PeerManager.                                                            *)

AddPeer(p) ==
  /\ p \notin known /\ known' = known \cup {p}
  /\ UNCHANGED <<conns, chan, send, listener, events, received, disputed>>

\* remove_peer, and cleanup_inactive_peers for one peer.
RemovePeer(p) ==
  /\ p \in known /\ known' = known \ {p}
  /\ UNCHANGED <<conns, chan, send, listener, events, received, disputed>>

----------------------------------------------------------------------------
(* send_message and get_or_create_connection.                              *)

\* Fault: a registered channel is not looked for.
NeverFound(p) == FALSE
Found(p) == conns[p] # NoConn

Lookup(m, p) ==
  /\ send[m].pc = "idle"
  /\ send' = [send EXCEPT ![m] =
                [pc |-> IF Found(p) THEN "queueing" ELSE "connecting", peer |-> p,
                 chan |-> conns[p]]]
  /\ disputed' = IF ~Found(p) /\ Connecting(p) # {} THEN disputed \cup {p} ELSE disputed
  /\ UNCHANGED <<known, conns, chan, listener, events, received>>

\* The peer is not known, or nobody answers at its address.
ConnectFails(m) ==
  /\ send[m].pc = "connecting"
  /\ send' = [send EXCEPT ![m].pc = "failed"]
  /\ UNCHANGED <<known, conns, chan, listener, events, received, disputed>>

Connect(m) ==
  /\ send[m].pc = "connecting" /\ send[m].peer \in known
  /\ Len(chan) < MaxConns
  /\ chan' = Append(chan, NewChannel(send[m].peer))
  /\ conns' = [conns EXCEPT ![send[m].peer] = NewId]
  /\ send' = [send EXCEPT ![m].pc = "opening", ![m].chan = NewId]
  /\ UNCHANGED <<known, listener, events, received, disputed>>

Opened(c) == [chan EXCEPT ![c].rx = "running", ![c].reader = "reading"]

\* Fault: the receiver outlives the failure, and nobody reads it.
ReceiverKept(c) == chan
\* Without a writer the channel's receiver is dropped with what it holds.
Dropped(c) == [chan EXCEPT ![c].rx = "dropped", ![c].queue = <<>>]

\* create_writer_stream connects to the peer a second time.
OpenWriter(m, ok) ==
  /\ send[m].pc = "opening"
  /\ chan' = IF ok THEN Opened(send[m].chan) ELSE Dropped(send[m].chan)
  /\ send' = [send EXCEPT ![m].pc = IF ok THEN "queueing" ELSE "failed"]
  /\ UNCHANGED <<known, conns, listener, events, received, disputed>>

\* The message in the writer's hands takes no room in the channel.
HasRoom(c) ==
  Len(chan[c].queue) < ChannelCap + (IF chan[c].rx = "writing" THEN 1 ELSE 0)

\* The channel takes the message when it has room; a dropped one refuses it.
Enqueue(m) ==
  LET c == send[m].chan
  IN  /\ send[m].pc = "queueing"
      /\ \/ /\ chan[c].rx = "dropped"
            /\ send' = [send EXCEPT ![m].pc = "failed"]
            /\ UNCHANGED chan
         \/ /\ chan[c].rx \in {"waiting", "running", "writing"}
            /\ HasRoom(c)
            /\ chan' = [chan EXCEPT ![c].queue = Append(@, m)]
            /\ send' = [send EXCEPT ![m].pc = "ok"]
      /\ UNCHANGED <<known, conns, listener, events, received, disputed>>

----------------------------------------------------------------------------
(* The tasks of a connection.                                              *)

Running(c) == chan[c].rx = "running"

\* A message that is too large is skipped before anything is written.
Take(c) ==
  /\ Running(c) /\ chan[c].queue # <<>>
  /\ chan' = IF Head(chan[c].queue) \in Big THEN [chan EXCEPT ![c].queue = Tail(@)]
                                            ELSE [chan EXCEPT ![c].rx = "writing"]
  /\ UNCHANGED <<known, conns, send, listener, events, received, disputed>>

Write(c) ==
  /\ chan[c].rx = "writing"
  /\ chan' = [chan EXCEPT ![c].rx = "running", ![c].queue = Tail(@),
                          ![c].written = @ \cup {Head(chan[c].queue)}]
  /\ UNCHANGED <<known, conns, send, listener, events, received, disputed>>

WriteFails(c) ==
  /\ chan[c].rx = "writing"
  /\ chan' = Dropped(c)
  /\ UNCHANGED <<known, conns, send, listener, events, received, disputed>>

Senders(c) ==
  {p \in Peers : conns[p] = c}
    \cup {m \in Msgs : send[m].pc \in {"opening", "queueing"} /\ send[m].chan = c}

\* Fault: the writer ends with its last sender, whatever is still queued.
EndsEarly(c) == Running(c) /\ Senders(c) = {}
Drained(c) == Running(c) /\ Senders(c) = {} /\ chan[c].queue = <<>>

WriterEnds(c) ==
  /\ Drained(c)
  /\ chan' = [chan EXCEPT ![c].rx = "ended", ![c].queue = <<>>]
  /\ UNCHANGED <<known, conns, send, listener, events, received, disputed>>

Reading(c) == chan[c].reader = "reading" /\ Len(events) < EventCap

Receive(c) ==
  /\ Reading(c) /\ received < MaxReceived
  /\ received' = received + 1
  /\ events' = Append(events, [kind |-> "MessageReceived", peer |-> chan[c].peer])
  /\ UNCHANGED <<known, conns, chan, send, listener, disputed>>

\* At an end of file the peer is reported as disconnected; the map keeps it.
ReadEnds(c) ==
  /\ Reading(c)
  /\ chan' = [chan EXCEPT ![c].reader = "ended"]
  /\ events' = Append(events, [kind |-> "PeerDisconnected", peer |-> chan[c].peer])
  /\ UNCHANGED <<known, conns, send, listener, received, disputed>>

\* A message too large, or any other error.
ReadFails(c) ==
  /\ chan[c].reader = "reading"
  /\ chan' = [chan EXCEPT ![c].reader = "ended"]
  /\ UNCHANGED <<known, conns, send, listener, events, received, disputed>>

HandleEvent ==
  /\ events # <<>> /\ events' = Tail(events)
  /\ UNCHANGED <<known, conns, chan, send, listener, received, disputed>>

----------------------------------------------------------------------------
(* The accept loop of start: one incoming connection at a time.            *)

Accept(p) ==
  /\ listener = NoConn
  /\ p \in known
  /\ Len(chan) < MaxConns
  /\ chan' = Append(chan, NewChannel(p))
  /\ conns' = [conns EXCEPT ![p] = NewId]
  /\ listener' = NewId
  /\ disputed' = IF Found(p) \/ Connecting(p) # {} THEN disputed \cup {p} ELSE disputed
  /\ UNCHANGED <<known, send, events, received>>

AcceptWriter(ok) ==
  /\ listener # NoConn /\ listener' = NoConn
  /\ chan' = IF ok THEN Opened(listener) ELSE Dropped(listener)
  /\ UNCHANGED <<known, conns, send, events, received, disputed>>

----------------------------------------------------------------------------

SendStep(m) ==
  \/ ConnectFails(m)
  \/ Connect(m)
  \/ \E ok \in BOOLEAN : OpenWriter(m, ok)
  \/ Enqueue(m)

WriterStep(c) == Take(c) \/ WriterEnds(c)
WriteReturns(c) == Write(c) \/ WriteFails(c)

Next ==
  \/ \E p \in Peers : AddPeer(p) \/ RemovePeer(p) \/ Accept(p)
  \/ \E m \in Msgs, p \in Peers : Lookup(m, p)
  \/ \E m \in Msgs : SendStep(m)
  \/ \E c \in 1..Len(chan) : WriterStep(c) \/ WriteReturns(c)
  \/ \E c \in 1..Len(chan) : Receive(c) \/ ReadEnds(c) \/ ReadFails(c)
  \/ \E ok \in BOOLEAN : AcceptWriter(ok)
  \/ HandleEvent

\* A call that was made is carried on and the runtime runs every task:
\* connecting and opening the writer return, with success or the system's own
\* timeout.  A write need not: it waits for as long as the peer does not read.
Spec ==
  /\ Init /\ [][Next]_vars
  /\ \A m \in Msgs : WF_vars(SendStep(m))
  /\ \A c \in 1..MaxConns : WF_vars(c \in DOMAIN chan /\ WriterStep(c))
  /\ WF_vars(\E ok \in BOOLEAN : AcceptWriter(ok))

----------------------------------------------------------------------------
(* Properties.                                                             *)

TypeOK ==
  /\ known \subseteq Peers
  /\ conns \in [Peers -> (1..Len(chan)) \cup {NoConn}]
  /\ chan \in Seq(Channel)
  /\ send \in [Msgs -> Call]
  /\ listener \in (1..Len(chan)) \cup {NoConn}
  /\ events \in Seq([kind : {"MessageReceived", "PeerDisconnected"}, peer : Peers])
  /\ Len(events) <= EventCap
  /\ disputed \subseteq Peers

Queued(c, m) == \E i \in DOMAIN chan[c].queue : chan[c].queue[i] = m

\* A message whose send returned Ok is written, still queued for a writer or
\* too large, unless its channel broke; one whose send failed was handed to no
\* channel, so that it may be sent again.  It holds for channels that another
\* call has displaced from the map, and for those registered before their
\* writer exists.
SendsAreAccountedFor ==
  \A m \in Msgs, c \in 1..Len(chan) :
    /\ send[m].pc = "ok" /\ send[m].chan = c =>
         \/ m \in chan[c].written \/ m \in Big
         \/ Queued(c, m) /\ chan[c].rx \in {"waiting", "running", "writing"}
         \/ chan[c].rx = "dropped"
    /\ Queued(c, m) \/ m \in chan[c].written => send[m].pc = "ok" /\ send[m].chan = c

Live(c) == chan[c].rx \in {"waiting", "running", "writing"}

\* A peer has two working connections only when one was begun while another
\* was being made or already served: the map is unlocked between
\* get_or_create_connection's lookup and its insertion.
OneConnectionPerPeer ==
  \A c, d \in 1..Len(chan) :
    c # d /\ chan[c].peer = chan[d].peer /\ Live(c) /\ Live(d)
      => chan[c].peer \in disputed

\* The call waits behind a full channel whose writer is in the middle of a write.
HeldUp(m) ==
  /\ send[m].pc = "queueing"
  /\ chan[send[m].chan].rx = "writing" /\ ~HasRoom(send[m].chan)

\* Every call of send_message returns, unless one write never does, to a peer
\* that has stopped reading, and fills the channel: no channel that is
\* displaced, without a writer or dropped keeps its sender for ever.
SendsReturn ==
  \A m \in Msgs : \/ send[m].pc # "idle" ~> send[m].pc \in {"ok", "failed"}
                  \/ <>[]HeldUp(m)
=============================================================================
