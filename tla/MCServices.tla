----------------------------- MODULE MCServices -----------------------------
(* Four small services for TLC. *)
EXTENDS Services, Bitwise, TLC

CONSTANTS
  n1, n2, n3,                \* nodes of the gossip
  x, y, z, u                 \* peers of the DHT

\* n1 does not know n3.
MCPeersOf == (n1 :> {n2}) @@ (n2 :> {n1, n3}) @@ (n3 :> {n1, n2})

\* y and u have the same distance to every other.
MCFold == (Local :> 0) @@ (x :> 1) @@ (y :> 2) @@ (z :> 3) @@ (u :> 2)

XorTable == [p \in (0..3) \X (0..3) |-> p[1] ^^ p[2]]
MCXor(a, b) == XorTable[<<a, b>>]
=============================================================================
