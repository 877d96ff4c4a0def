----------------------------- MODULE MCUpdater -----------------------------
(***************************************************************************)
(* Updater for TLC: release 1 is good; release 2 never becomes healthy and *)
(* has a migration that older releases cannot run on.                      *)
(***************************************************************************)
EXTENDS Updater

None == [e \in Events |-> 0]

RunStarts ==
    { \* a pinned install: two upgrades, one after the other, and a stop;
      [env |-> 0, config |-> 0, left |-> [None EXCEPT !.ask = 2, !.crash = 1]],
      \* one upgrade of it among an edit and a stop;
      [env |-> 0, config |-> 0, left |-> [None EXCEPT !.ask = 1, !.edit = 1, !.crash = 1]],
      \* an unpinned one, its deploy files of a later commit;
      [env |-> Latest, config |-> Custom, left |-> [None EXCEPT !.ask = 2, !.crash = 1]],
      \* an upgrade among a backup, a restore and people's work;
      [env |-> 0, config |-> 0, left |-> [None EXCEPT !.ask = 1, !.save = 1, !.restore = 1, !.work = 1]],
      \* and one among more backups than are kept, one of them deleted.
      [env |-> 0, config |-> 0, left |-> [None EXCEPT !.ask = 1, !.save = 2, !.delete = 1]] }
=============================================================================
