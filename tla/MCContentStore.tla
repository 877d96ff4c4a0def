--------------------------- MODULE MCContentStore ---------------------------
(* Model checking of ContentStore.  The run checks a liveness property, so   *)
(* no symmetry is used.                                                      *)
EXTENDS ContentStore
=============================================================================
