------------------------ MODULE WaveFieldRefinement ------------------------
(* WaveField implements WaveLifecycle: the stage of a wave is what its     *)
(* amplitude has become of the one it came with.                           *)
EXTENDS WaveField

Stage(w) ==
  IF w.amp = w.orig THEN "fresh"
  ELSE IF w.amp = (3 * w.orig) \div 2 THEN "amplified"
  ELSE IF w.amp = (7 * w.orig) \div 10 THEN "attenuated"
  ELSE "damped"

StageOf == [k \in Keys |-> IF k \in DOMAIN active THEN Stage(active[k]) ELSE "none"]

Lifecycle == INSTANCE WaveLifecycle WITH stage <- StageOf

\* The field implements the life cycle: no interleaving of batches, single
\* messages, evictions and clean-ups takes a wave through it in another order.
LifecycleSpec == Lifecycle!Spec
=============================================================================
