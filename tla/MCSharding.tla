----------------------------- MODULE MCSharding -----------------------------
(* Sharding for TLC.  Membership and transactions share no state but what  *)
(* start and stop set, so that a run for each sees what both may do.       *)
EXTENDS Sharding

\* Calls on every node of the first shard.
MCPairs == Nodes \X {0}
MCNoPairs == {}
=============================================================================
