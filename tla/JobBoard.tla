------------------------------- MODULE JobBoard -------------------------------
(***************************************************************************)
(* What the in-process job runner promises of each Job row: it appears     *)
(* QUEUED, turns RUNNING, and gets one outcome, which stays.  A restart    *)
(* interrupts what had not ended.  Because the sweep that does so is not   *)
(* awaited, an interrupted job may turn out to be alive, and then its own  *)
(* outcome replaces the interruption.                                      *)
(***************************************************************************)
CONSTANT Jobs
VARIABLE board

Outcomes == {"SUCCEEDED", "PARTIAL", "FAILED"}

TypeOK == board \in [Jobs -> {"ABSENT", "QUEUED", "RUNNING", "INTERRUPTED"} \cup Outcomes]

Init == board = [j \in Jobs |-> "ABSENT"]

Submit(j) == board[j] = "ABSENT" /\ board' = [board EXCEPT ![j] = "QUEUED"]

Start(j) == board[j] \in {"QUEUED", "INTERRUPTED"} /\ board' = [board EXCEPT ![j] = "RUNNING"]

(* A job that ran although it had been interrupted may end looking           *)
(* interrupted: a batch that failed item by item leaves the sweep's error.   *)
End(j) ==
    /\ board[j] \in {"RUNNING", "INTERRUPTED"}
    /\ \E o \in Outcomes \cup {"INTERRUPTED"} : board' = [board EXCEPT ![j] = o]

(* A restart interrupts every job that had not ended. *)
Interrupt ==
    board' = [j \in Jobs |-> IF board[j] \in {"QUEUED", "RUNNING"} THEN "INTERRUPTED" ELSE board[j]]

Next == (\E j \in Jobs : Submit(j) \/ Start(j) \/ End(j)) \/ Interrupt

Spec == Init /\ [][Next]_board
=============================================================================
