----------------------------- MODULE Broadcast -----------------------------
(***************************************************************************)
(* The batches of a consensus round on their way from one node to others:  *)
(* RealNetworkNode's pool of websocket connections (network/real_node.rs), *)
(* PersistentConnection (network/websocket_client.rs) and the connection   *)
(* handler of WebSocketServer (network/websocket_server.rs).               *)
(*                                                                         *)
(* The pool is one map behind one mutex.  broadcast_batches, the dial that *)
(* add_peer spawns and the redial loop look an address up, unlock, connect *)
(* and insert.  A round is sent and its answers are read with the map      *)
(* locked: first all requests, then all answers.  The handler answers each *)
(* request before it reads the next.  Each direction of a connection holds *)
(* a bounded number of messages.                                           *)
(*                                                                         *)
(* The handler may apply a batch, some of its transactions, or none (the   *)
(* first never is), and says so in the answer.  The client reads neither   *)
(* the count nor the success flag, so both are left out: a batch is        *)
(* processed here, not applied.  A stream that ends yields an error or a   *)
(* close frame first, so the clean end that send_batches_for_round takes   *)
(* for success does not occur.                                             *)
(***************************************************************************)
EXTENDS Integers, Sequences, FiniteSets

CONSTANTS
  Peers,         \* addresses
  Calls,         \* calls of broadcast_batches
  Rounds,        \* arguments of calls: the addresses of batches_per_peer, one
                 \* for each entry, batches, shard ids for them
  RequestCap, AnswerCap,   \* messages a connection holds in each direction
  None,
  Added,         \* bound: the addresses that are ever added
  MaxDials,      \* bound: tasks of add_peer that dial an address at a time
  MaxConns       \* bound: connections ever made

\* The entries of a call's list, numbered from its end.
Entries == UNION {1..Len(r.list) : r \in Rounds}
Message == [call : Calls, entry : Entries]

ASSUME BroadcastAssumption ==
  /\ IsFiniteSet(Peers) /\ IsFiniteSet(Calls)
  /\ Rounds \subseteq [list : Seq(Peers), batches : Nat, ids : Nat]
  /\ \A r \in Rounds : r.list # <<>>
  /\ {RequestCap, AnswerCap} \subseteq Nat \ {0}
  /\ None \notin Peers \cup Calls \cup Nat \cup Message
  /\ Added \subseteq Peers
  /\ {MaxDials, MaxConns} \subseteq Nat

VARIABLES
  peers,       \* addresses in the node's list of peers (one may be there
               \* under several ids)
  wsConns,     \* the pool: the connection of each address
  lock,        \* the call that holds the pool's mutex over its round
  dialing,     \* how many tasks of add_peer are connecting to each address
  redial,      \* the address that the redial loop is connecting to
  conns,       \* every connection made, by number
  call,        \* the calls of broadcast_batches
  processed    \* how many batches of each entry of a call its peer has processed

vars == <<peers, wsConns, lock, dialing, redial, conns, call, processed>>

NewConn(p) ==
  [peer |-> p, requests |-> <<>>, answers |-> <<>>, handling |-> None,
   broken |-> FALSE]
NewId == Len(conns) + 1

\* ids: the shard ids that came with the batches.
NoCall == [pc |-> "idle", todo |-> <<>>, batches |-> 0, ids |-> 0,
           sent |-> 0, answered |-> 0, foreign |-> FALSE, ok |-> {}, failed |-> {}]

Address(c) == Head(call[c].todo)
Entry(c) == Len(call[c].todo)
MessageOf(c) == [call |-> c, entry |-> Entry(c)]
Conn(c) == wsConns[Address(c)]
Usable(c) == Conn(c) # None /\ ~conns[Conn(c)].broken
Free == lock = None

Init ==
  /\ peers = {}
  /\ wsConns = [p \in Peers |-> None]
  /\ lock = None
  /\ dialing = [p \in Peers |-> 0] /\ redial = None
  /\ conns = <<>>
  /\ call = [c \in Calls |-> NoCall]
  /\ processed = [c \in Calls |-> [e \in Entries |-> 0]]

----------------------------------------------------------------------------
(* The pool.  An insertion drops the connection it replaces, and with it   *)
(* the client's ends of the stream.                                        *)

\* What a broken connection still holds goes unanswered; whether its handler
\* sees it makes no difference here.
Broken(k) ==
  [conns EXCEPT ![k] = [NewConn(@.peer) EXCEPT !.broken = TRUE]]
Dropped(k) == IF k = None THEN conns ELSE Broken(k)

Inserted(p) ==
  /\ conns' = Append(Dropped(wsConns[p]), NewConn(p))
  /\ wsConns' = [wsConns EXCEPT ![p] = NewId]

MayConnect == Len(conns) < MaxConns

\* add_peer, also on behalf of connect_to_peer.  What must be new is the id, and
\* connect_to_peer makes one for each call: an address that is listed, or has a
\* connection, is dialled again.
AddPeer(p) ==
  /\ p \in Added /\ dialing[p] < MaxDials
  /\ peers' = peers \cup {p}
  /\ dialing' = [dialing EXCEPT ![p] = @ + 1]
  /\ UNCHANGED <<wsConns, lock, redial, conns, call, processed>>

\* The task inserts its connection whatever the pool holds.
Dialed(p) ==
  /\ dialing[p] > 0 /\ dialing' = [dialing EXCEPT ![p] = @ - 1]
  /\ \/ MayConnect /\ Free /\ Inserted(p)
     \/ UNCHANGED <<wsConns, conns>>
  /\ UNCHANGED <<peers, lock, redial, call, processed>>

\* The redial loop has come to p in its snapshot of the peers.
RedialCheck(p) ==
  /\ redial = None /\ p \in peers /\ Free /\ wsConns[p] = None
  /\ redial' = p
  /\ UNCHANGED <<peers, wsConns, lock, dialing, conns, call, processed>>

Redialed ==
  /\ redial # None /\ redial' = None
  /\ \/ MayConnect /\ Free /\ Inserted(redial)
     \/ UNCHANGED <<wsConns, conns>>
  /\ UNCHANGED <<peers, lock, dialing, call, processed>>

----------------------------------------------------------------------------
(* broadcast_batches.                                                      *)

Begin(c, r) ==
  /\ call[c].pc = "idle"
  /\ call' = [call EXCEPT ![c].pc = "checking", ![c].todo = r.list,
                          ![c].batches = r.batches, ![c].ids = r.ids]
  /\ UNCHANGED <<peers, wsConns, lock, dialing, redial, conns, processed>>

GoTo(c, pc) == call' = [call EXCEPT ![c].pc = pc]

\* The call turns to its next entry; it counts the one it leaves.
NextAddress(c, ok, failed) ==
  call' = [call EXCEPT ![c].pc = IF Len(call[c].todo) = 1 THEN "done" ELSE "checking",
                       ![c].todo = Tail(@), ![c].sent = 0, ![c].answered = 0,
                       ![c].ok = @ \cup ok, ![c].failed = @ \cup failed]

Check(c) ==
  /\ call[c].pc = "checking" /\ Free
  /\ GoTo(c, IF Conn(c) = None THEN "dialing" ELSE "locking")
  /\ UNCHANGED <<peers, wsConns, lock, dialing, redial, conns, processed>>

Connected(c) ==
  /\ call[c].pc = "dialing" /\ MayConnect /\ Free
  /\ Inserted(Address(c))
  /\ GoTo(c, "locking")
  /\ UNCHANGED <<peers, lock, dialing, redial, processed>>

DialFails(c) ==
  /\ call[c].pc = "dialing"
  /\ NextAddress(c, {}, {Entry(c)})
  /\ UNCHANGED <<peers, wsConns, lock, dialing, redial, conns, processed>>

\* Between the check and here the connection may have left the pool.
Lock(c) ==
  /\ call[c].pc = "locking" /\ Free
  /\ IF Conn(c) = None THEN NextAddress(c, {}, {Entry(c)}) /\ UNCHANGED lock
     ELSE GoTo(c, "sending") /\ lock' = c
  /\ UNCHANGED <<peers, wsConns, dialing, redial, conns, processed>>

----------------------------------------------------------------------------
(* send_batches_for_round.                                                 *)

\* Batches without a shard id are not sent.
ToSend(c) == IF call[c].ids < call[c].batches THEN call[c].ids ELSE call[c].batches

Send(c) ==
  LET k == Conn(c)
  IN  /\ call[c].pc = "sending" /\ call[c].sent < ToSend(c)
      /\ Usable(c)
      /\ Len(conns[k].requests) < RequestCap
      /\ conns' = [conns EXCEPT ![k].requests = Append(@, MessageOf(c))]
      /\ call' = [call EXCEPT ![c].sent = @ + 1]
      /\ UNCHANGED <<peers, wsConns, lock, dialing, redial, processed>>

\* Fault: the pool is unlocked when all batches are sent.
UnlockedAfterSending == lock' = None
Kept == lock' = lock

AllSent(c) ==
  /\ call[c].pc = "sending" /\ call[c].sent = ToSend(c)
  /\ GoTo(c, "reading")
  /\ Kept
  /\ UNCHANGED <<peers, wsConns, dialing, redial, conns, processed>>

\* Fault: one answer more than there are batches is awaited.
OneMore(c) == call[c].batches + 1
Expected(c) == call[c].batches

Read(c) ==
  LET k == Conn(c)
  IN  /\ call[c].pc = "reading" /\ call[c].answered < Expected(c)
      /\ Usable(c) /\ conns[k].answers # <<>>
      /\ conns' = [conns EXCEPT ![k].answers = Tail(@)]
      /\ call' = [call EXCEPT ![c].answered = @ + 1,
                              ![c].foreign = @ \/ Head(conns[k].answers) # MessageOf(c)]
      /\ UNCHANGED <<peers, wsConns, lock, dialing, redial, processed>>

Succeed(c) ==
  /\ call[c].pc = "reading" /\ call[c].answered = Expected(c)
  /\ NextAddress(c, {Entry(c)}, {})
  /\ lock' = None
  /\ UNCHANGED <<peers, wsConns, dialing, redial, conns, processed>>

\* An error on the connection, or a close frame: it leaves the pool.
Fail(c) ==
  /\ call[c].pc \in {"sending", "reading"} /\ ~Usable(c)
  /\ NextAddress(c, {}, {Entry(c)})
  /\ wsConns' = [wsConns EXCEPT ![Address(c)] = None]
  /\ lock' = None
  /\ UNCHANGED <<peers, dialing, redial, conns, processed>>

----------------------------------------------------------------------------
(* The peers' connection handlers, and the network.                        *)

\* process_message: the batch's waves are judged, and with a good verdict all
\* but every twentieth of its transactions are applied to the accounts.
Serve(k) ==
  /\ ~conns[k].broken /\ conns[k].handling = None /\ conns[k].requests # <<>>
  /\ LET m == Head(conns[k].requests)
     IN  /\ conns' = [conns EXCEPT ![k].requests = Tail(@), ![k].handling = m]
         /\ processed' = [processed EXCEPT ![m.call][m.entry] = @ + 1]
  /\ UNCHANGED <<peers, wsConns, lock, dialing, redial, call>>

Answer(k) ==
  /\ ~conns[k].broken /\ conns[k].handling # None
  /\ Len(conns[k].answers) < AnswerCap
  /\ conns' = [conns EXCEPT ![k].answers = Append(@, conns[k].handling),
                            ![k].handling = None]
  /\ UNCHANGED <<peers, wsConns, lock, dialing, redial, call, processed>>

\* The peer or the network ends the connection.
Break(k) ==
  /\ ~conns[k].broken
  /\ conns' = Broken(k)
  /\ UNCHANGED <<peers, wsConns, lock, dialing, redial, call, processed>>

Step(c) ==
  \/ Check(c)
  \/ Connected(c)
  \/ DialFails(c)
  \/ Lock(c)
  \/ Send(c)
  \/ AllSent(c)
  \/ Read(c)
  \/ Succeed(c)
  \/ Fail(c)

Next ==
  \/ \E p \in Peers : AddPeer(p) \/ Dialed(p) \/ RedialCheck(p)
  \/ Redialed
  \/ \E c \in Calls, r \in Rounds : Begin(c, r)
  \/ \E c \in Calls : Step(c)
  \/ \E k \in 1..Len(conns) : Serve(k) \/ Answer(k) \/ Break(k)

\* Attempts to connect return, the mutex is granted in the order of requests
\* (so a call that waits for it again and again gets it), and the handlers of
\* the peers run.
Spec ==
  /\ Init /\ [][Next]_vars
  /\ \A c \in Calls : SF_vars(Step(c))
  /\ \A k \in 1..MaxConns : WF_vars(k \in DOMAIN conns /\ (Serve(k) \/ Answer(k)))

----------------------------------------------------------------------------
(* Properties.                                                             *)

TypeOK ==
  /\ peers \subseteq Peers /\ dialing \in [Peers -> Nat]
  /\ redial \in Peers \cup {None}
  /\ wsConns \in [Peers -> 1..Len(conns) \cup {None}]
  /\ lock \in Calls \cup {None}
  /\ conns \in Seq([peer : Peers, requests : Seq(Message), answers : Seq(Message),
                    handling : Message \cup {None}, broken : BOOLEAN])
  /\ call \in [Calls -> [pc : {"idle", "checking", "dialing", "locking", "sending",
                               "reading", "done"},
                         todo : Seq(Peers), batches : Nat, ids : Nat, sent : Nat,
                         answered : Nat, foreign : BOOLEAN,
                         ok : SUBSET Entries, failed : SUBSET Entries]]
  /\ \A k \in 1..Len(conns) : Len(conns[k].requests) <= RequestCap
                              /\ Len(conns[k].answers) <= AnswerCap
  /\ processed \in [Calls -> [Entries -> Nat]]

\* An entry of a round that is counted as a success has had each of its batches
\* processed by its peer exactly once, and every answer that was read is to a
\* batch of that entry itself, whatever other rounds, entries with the same
\* address, dials and failures the pool went through meanwhile.  It does not
\* say that anything was applied: the answers may all refuse.
SuccessIsProcessedOnce ==
  \A c \in Calls :
    /\ ~call[c].foreign
    /\ \A e \in call[c].ok : processed[c][e] = call[c].batches

\* The round that holds the pool waits for ever: it awaits answers to batches
\* that had no shard id, or it still sends while the handler cannot answer.
Unsent(c) == call[c].pc = "reading" /\ call[c].ids < call[c].batches
Clogged(c) ==
  /\ call[c].pc = "sending"
  /\ Len(conns[Conn(c)].requests) = RequestCap /\ conns[Conn(c)].handling # None
  /\ Len(conns[Conn(c)].answers) = AnswerCap
Jammed == lock # None /\ (Unsent(lock) \/ Clogged(lock))

\* Every broadcast returns, also behind others in the pool, unless a round ends
\* up holding the pool for ever, jammed in one of these two ways.
CallsReturnOrJam ==
  []<>~Jammed => \A c \in Calls : call[c].pc # "idle" ~> call[c].pc = "done"
=============================================================================
