----------------------------- MODULE MCJobRunner -----------------------------
(* Model checking of JobRunner: slots are interchangeable.                *)
EXTENDS JobRunner, TLC

SlotSymmetry == Permutations(Slots)
=============================================================================
