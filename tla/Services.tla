------------------------------ MODULE Services ------------------------------
(***************************************************************************)
(* The services of a node that share no state and call none of each other: *)
(* gossip, the DHT, QUIC and discovery.  A behaviour is one service's,     *)
(* chosen at the start.                                                    *)
(***************************************************************************)
EXTENDS Gossip

CONSTANTS
  DhtIds, Local, Fold, WordXor(_, _), WordBits, BucketSize, KeySpace, MaxQuality,
  Timeout, MaxLookup,                                       \* the DHT
  Incoming, Outgoing, Senders, NoConn, Workers, IdleLimit,  \* QUIC
  MaxStarts, EventCap                                       \* discovery

VARIABLES
  part,                                \* the service of this behaviour
  buckets, total, loops, dhtRunning,
  quicRunning, endpoint, link, pool, idle, handler, sending, due, active, held,
  nodeRunning, starts, task, shutdown_tx, signalled, listener, events, late

D == INSTANCE Dht WITH Ids <- DhtIds, running <- dhtRunning
Q == INSTANCE Quic WITH running <- quicRunning
S == INSTANCE Discovery WITH running <- nodeRunning

ASSUME ServicesAssumption == D!DhtAssumption /\ IdleLimit \in Nat

dhtVars == <<buckets, total, loops, dhtRunning>>
quicVars == <<quicRunning, endpoint, link, pool, idle, handler, sending, due,
              active, held>>
discoveryVars == <<nodeRunning, starts, task, shutdown_tx, signalled, listener,
                   events, late>>

ServicesInit ==
  /\ Init /\ D!Init /\ Q!Init /\ S!Init
  /\ part \in {"gossip", "dht", "quic", "discovery"}

GossipStep == part = "gossip" /\ Next /\ UNCHANGED <<dhtVars, quicVars, discoveryVars>>
DhtStep == part = "dht" /\ D!Next /\ UNCHANGED <<vars, quicVars, discoveryVars>>
QuicStep == part = "quic" /\ Q!Next /\ UNCHANGED <<vars, dhtVars, discoveryVars>>
DiscoveryStep == part = "discovery" /\ S!Next /\ UNCHANGED <<vars, dhtVars, quicVars>>

ServicesNext ==
  UNCHANGED part /\ (GossipStep \/ DhtStep \/ QuicStep \/ DiscoveryStep)

\* A service that is not chosen can take no step that fairness asks for.
ServicesSpec ==
  /\ ServicesInit
  /\ [][ServicesNext]_<<part, vars, dhtVars, quicVars, discoveryVars>>
  /\ Fairness /\ Q!Fairness /\ S!Fairness

----------------------------------------------------------------------------
(* The services' properties, stated in their modules.                      *)

\* What a look-up in the DHT returns (Dht).
LookupResults == D!LookupResults

\* When QUIC drops a connection (Quic).
IdleOnlyIfHeldUp == Q!IdleOnlyIfHeldUp

\* When the handler of a QUIC connection ends (Quic).
HandlersEnd == Q!HandlersEnd

\* When a stopped node has no discovery task left (Discovery).
StoppedMeansEnded == S!StoppedMeansEnded
=============================================================================
