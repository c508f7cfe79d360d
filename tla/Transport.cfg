CONSTANTS
  Peers = {p1}
  Msgs = {m1, m2, m3}
  Big = {m3}
  NoConn = NoConn
  ChannelCap = 1
  EventCap = 1
  MaxConns = 2
  MaxReceived = 1
SPECIFICATION Spec
INVARIANTS SendsAreAccountedFor OneConnectionPerPeer
PROPERTIES SendsReturn
