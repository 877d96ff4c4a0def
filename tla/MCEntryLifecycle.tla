--------------------------- MODULE MCEntryLifecycle ---------------------------
(* Model checking of EntryLifecycle: payload sets for the runs.  The actors  *)
(* of one kind, and the slots, are interchangeable.                          *)
EXTENDS EntryLifecycle, TLC

Edit(c) == [body |-> c, to |-> Null, date |-> Null]
Move(s) == [body |-> Null, to |-> s, date |-> Null]
EditAndMove(c, s) == [body |-> c, to |-> s, date |-> Null]
SetDate(d) == [body |-> Null, to |-> "SCHEDULED", date |-> d]

(* Edits, submitting, scheduling, approving what is on the screen, taking    *)
(* offline with an edit.                                                     *)
ReviewPatches ==
    {Edit(c) : c \in Contents}
    \cup {Move("IN_REVIEW"), SetDate(TRUE), EditAndMove(FirstContent, "APPROVED"),
          EditAndMove(FirstContent, "DRAFT")}

Symmetry == Permutations(Publishers) \cup Permutations(Requests)
=============================================================================
