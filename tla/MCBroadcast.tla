---------------------------- MODULE MCBroadcast ----------------------------
(* Broadcast for TLC: rounds for one peer, also twice, and for two.        *)
EXTENDS Broadcast

CONSTANTS p, q

Round(list, batches, ids) == [list |-> list, batches |-> batches, ids |-> ids]
MCRounds == {Round(<<p>>, 4, 4), Round(<<q, p>>, 1, 1), Round(<<p, p>>, 1, 1),
             Round(<<p>>, 2, 1)}
=============================================================================
