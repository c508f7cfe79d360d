---------------------------- MODULE MCWaveField ----------------------------
(* WaveField for TLC: wave keys are interchangeable.  One shape alone is a *)
(* constructive pattern; the other two are, together, and in antiphase.    *)
EXTENDS WaveFieldRefinement, TLC

KeySymmetry == Permutations(Keys)

MCShapes == {[phase |-> 0, amp |-> 150], [phase |-> 0, amp |-> 2000],
             [phase |-> 2, amp |-> 1850]}
=============================================================================
