---------------------------- MODULE MCEntrySaves ----------------------------
EXTENDS EntrySaves, TLC

(* Entries, names and authors are interchangeable; calls are not, a new one  *)
(* takes the first free place.                                               *)
Symmetry == Permutations(Entries) \cup Permutations(Names) \cup Permutations(Authors)
=============================================================================
