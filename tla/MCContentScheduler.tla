-------------------------- MODULE MCContentScheduler --------------------------
(***************************************************************************)
(* ContentScheduler for TLC: two instances with a slot for the pass of     *)
(* each, and two entries.                                                  *)
(***************************************************************************)
EXTENDS ContentScheduler
=============================================================================
