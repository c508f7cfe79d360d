--------------------------- MODULE WaveLifecycle ---------------------------
(***************************************************************************)
(* What a TRIAD node promises about the waves it keeps, with amplitudes,   *)
(* clocks, signatures and interference left out.  A wave arrives fresh; at *)
(* most one verdict amplifies or attenuates it; every later one damps it,  *)
(* until it is removed or a fresh wave takes its key.  Making room for a   *)
(* wave costs at most one other wave, and only in a full field.            *)
(***************************************************************************)
EXTENDS FiniteSets, Integers

CONSTANTS Keys, MaxWaves

VARIABLE stage      \* what has become of the wave under each key

Stages == {"none", "fresh", "amplified", "attenuated", "damped"}

Stored == {k \in Keys : stage[k] # "none"}

\* What one verdict, followed by the removal of dead waves, makes of a wave.
Judged(s) ==
  CASE s = "none"  -> {"none"}
    [] s = "fresh" -> {"amplified", "attenuated", "damped", "none"}
    [] OTHER       -> {"damped", "none"}

Init == stage = [k \in Keys |-> "none"]

Insert(k) ==
  \E evicted \in SUBSET Stored :
    /\ IF Cardinality(Stored) < MaxWaves THEN evicted = {}
       ELSE \E j \in Stored : evicted = {j}
    /\ stage' = [j \in Keys |-> IF j = k THEN "fresh"
                                ELSE IF j \in evicted THEN "none" ELSE stage[j]]

Judge == stage' \in [Keys -> Stages] /\ \A k \in Keys : stage'[k] \in Judged(stage[k])

Purge ==
  \E gone \in SUBSET Stored :
    stage' = [k \in Keys |-> IF k \in gone THEN "none" ELSE stage[k]]

Next == Purge \/ Judge \/ \E k \in Keys : Insert(k)

Spec == Init /\ [][Next]_stage
=============================================================================
