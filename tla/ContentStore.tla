---------------------------- MODULE ContentStore ----------------------------
(***************************************************************************)
(* What a workspace keeps of its content (BackupsService, the bin parts of *)
(* ContentEntriesService and AssetsService): entries with their versions,  *)
(* media with their files, the Deleted items bin with its 30 days and      *)
(* purge, and the snapshots with their pruning and rollback.  Entries and   *)
(* media are removed and restored the same way; a medium has a file and no *)
(* versions.  Time is counted in days.                                     *)
(***************************************************************************)
EXTENDS Naturals, FiniteSets

CONSTANTS
    EntryIds, MediaIds,
    Removers,       \* removals under way at a time (a bound)
    KeepDays,       \* KEEP_DAYS of a snapshot
    BinDays,        \* BIN_DAYS, TRASH_DAYS of a deleted item
    MaxDays, MaxEdits, MaxOps, MaxStops,    \* bounds
    None

Things == EntryIds \cup MediaIds
Edits == 0..MaxEdits

ASSUME DaysAssumption == {KeepDays, BinDays, MaxDays, MaxOps, MaxStops} \subseteq Nat
ASSUME BinOutlivesSnapshots == KeepDays + 1 < BinDays
ASSUME EditsAssumption == MaxEdits \in Nat \ {0}
ASSUME KindsAssumption == EntryIds \cap MediaIds = {}

VARIABLES
    now,        \* the day
    live,       \* entries and media in the workspace
    data,       \* the last edit of each of them, 0 before the first
    versionsOf, \* the edits in an entry's version history
    files,      \* media whose file is in storage
    bin,        \* Deleted items
    backups,    \* the snapshots kept
    newest,     \* the last one made
    removing,   \* what each removal under way has read
    rolling,    \* the snapshot of the rollback under way
    due,        \* items the purge under way has still to handle
    doomed,     \* the item whose file it found to be no one else's
    freed,      \* has it asked the storage to delete that file?
    checked,    \* has daily() run today?
    ops, stops,
    written,    \* history variable: how often each thing was created or edited
    undo,       \* history variable: the state the last rollback replaced, and when
    touched,    \* history variable: was anything written since its undo snapshot?
    late,       \* history variable: things that came back when the 30 days of one
                \* of their items were over
    twice,      \* history variable: things that are in the bin from two days:
                \* two overlapping calls removed them, and then they came back
    cut         \* history variable: things that lost versions: with a purge, a
                \* rollback, or in the bin twice or edited while being removed

workspace == <<live, data, versionsOf, written>>
snapshots == <<backups, newest>>
purge == <<due, doomed, freed>>
bounds == <<ops, stops>>
history == <<undo, touched, late, twice, cut>>
storeVars == <<now, workspace, files, bin, snapshots, removing, rolling, purge, checked, bounds, history>>

Contents == [things : SUBSET Things, data : [Things -> Edits]]
Removals == [no : 1..MaxOps, thing : Things, data : Edits, versions : SUBSET Edits]
Items == [no : 1..MaxOps, thing : Things, data : Edits, versions : SUBSET Edits, at : 0..MaxDays]
Snapshots == [kind : {"daily", "manual", "undo"}, at : 0..MaxDays, state : Contents]

-----------------------------------------------------------------------------
Now == [things |-> live, data |-> data]

Overdue(i) == i.at + BinDays <= now

(* After each snapshot those past their days go, but never the newest one.   *)
PrunedMutant(last) == {last}

Pruned(last) == {b \in backups : b.at + KeepDays >= now} \cup {last}

Keep(kind) ==
    /\ newest' = [kind |-> kind, at |-> now, state |-> Now]
    /\ backups' = Pruned(newest')

StoreInit ==
    /\ now = 0
    /\ live \in SUBSET Things
    /\ data = [t \in Things |-> 0]
    /\ versionsOf = [t \in Things |-> IF t \in live \cap EntryIds THEN {0} ELSE {}]
    /\ written = [t \in Things |-> IF t \in live THEN 1 ELSE 0]
    /\ files = live \cap MediaIds
    /\ bin = {}
    /\ backups = {}
    /\ newest = None
    /\ removing = [c \in Removers |-> None]
    /\ rolling = None
    /\ due = {}
    /\ doomed = None
    /\ freed = FALSE
    /\ checked = FALSE
    /\ ops = 0
    /\ stops = 0
    /\ undo = None
    /\ touched = FALSE
    /\ late = {}
    /\ twice = {}
    /\ cut = {}

(* A user's request (their number is a bound).                               *)
Asked == ops < MaxOps /\ ops' = ops + 1 /\ UNCHANGED stops

-----------------------------------------------------------------------------
(* A thing is created (a medium with its file) or edited; each save of an    *)
(* entry is kept as a version.                                               *)
Edit(t) ==
    /\ Asked
    /\ t \in live \/ written[t] = 0
    /\ written[t] < MaxEdits
    /\ live' = live \cup {t}
    /\ written' = [written EXCEPT ![t] = @ + 1]
    /\ data' = [data EXCEPT ![t] = written[t]]
    /\ versionsOf' = IF t \in EntryIds THEN [versionsOf EXCEPT ![t] = @ \cup {written[t]}] ELSE versionsOf
    /\ files' = files \cup (({t} \cap MediaIds) \ live)
    /\ touched' = TRUE
    /\ UNCHANGED <<now, bin, snapshots, removing, rolling, purge, checked, undo, late, twice, cut>>

(* remove(), of entries and of media: what it read goes into the bin, in one *)
(* transaction with the delete.                                              *)
StartRemove(c, t) ==
    /\ Asked
    /\ removing[c] = None
    /\ t \in live
    /\ removing' = [removing EXCEPT ![c] =
           [no |-> ops', thing |-> t, data |-> data[t], versions |-> versionsOf[t]]]
    /\ UNCHANGED <<now, workspace, files, bin, snapshots, rolling, purge, checked, history>>

Binned(r) ==
    [no |-> r.no, thing |-> r.thing, data |-> r.data, versions |-> r.versions, at |-> now]

InBin(t) == {i.at : i \in {j \in bin : j.thing = t}}
Twice(things) == twice \cup {t \in things : InBin(t) \ {now} # {}}

CommitRemove(c) ==
    /\ removing[c] # None
    /\ LET r == removing[c]
           t == r.thing
       IN /\ bin' = bin \cup {Binned(r)}
          /\ live' = live \ {t}
          /\ data' = [data EXCEPT ![t] = 0]
          /\ versionsOf' = [versionsOf EXCEPT ![t] = {}]
          /\ twice' = Twice({t})
          /\ cut' = IF InBin(t) = {} /\ r.versions = versionsOf[t] THEN cut ELSE cut \cup {t}
    /\ removing' = [removing EXCEPT ![c] = None]
    /\ touched' = TRUE
    /\ UNCHANGED <<now, written, files, snapshots, rolling, purge, checked, bounds, undo, late>>

(* restoreDeleted(): back under the old id, and out of the bin.              *)
Restore(i) ==
    /\ Asked
    /\ i.thing \notin live
    /\ live' = live \cup {i.thing}
    /\ data' = [data EXCEPT ![i.thing] = i.data]
    /\ versionsOf' = [versionsOf EXCEPT ![i.thing] = i.versions]
    /\ bin' = bin \ {i}
    /\ late' = IF Overdue(i) THEN late \cup {i.thing} ELSE late
    /\ touched' = TRUE
    /\ UNCHANGED <<now, written, files, snapshots, removing, rolling, purge, checked, undo, twice, cut>>

-----------------------------------------------------------------------------
(* daily(), at most one snapshot a day: none when nothing has changed.       *)
SkippedMutant == backups

Skipped == Pruned(newest)

Daily ==
    /\ \A b \in backups : ~(b.kind = "daily" /\ b.at = now)
    /\ checked' = TRUE
    /\ IF newest # None /\ newest.state = Now
       THEN backups' = Skipped /\ UNCHANGED newest
       ELSE Keep("daily")
    /\ UNCHANGED <<now, workspace, files, bin, removing, rolling, purge, bounds, history>>

Backup ==
    /\ Asked
    /\ Keep("manual")
    /\ UNCHANGED <<now, workspace, files, bin, removing, rolling, purge, checked, history>>

(* rollback(): the undo snapshot first, which prunes too, then one           *)
(* transaction.                                                              *)
StartRollback(b) ==
    /\ Asked
    /\ rolling = None
    /\ rolling' = [no |-> ops', state |-> b.state]
    /\ Keep("undo")
    /\ touched' = FALSE
    /\ UNCHANGED <<now, workspace, files, bin, removing, purge, checked, undo, late, twice, cut>>

(* An entry that comes back from the bin brings its versions.                *)
HistoryMutant(t) == versionsOf[t]

History(t) ==
    IF t \in live THEN versionsOf[t] ELSE UNION {i.versions : i \in {j \in bin : j.thing = t}}

CommitRollback ==
    /\ rolling # None
    /\ LET then == rolling.state
           newer == (live \ then.things) \cap MediaIds
       IN /\ live' = then.things
          /\ data' = then.data
          /\ versionsOf' = [t \in Things |-> IF t \in then.things THEN History(t) ELSE {}]
          /\ bin' = {i \in bin : i.thing \notin then.things} \cup
                    {[no |-> rolling.no, thing |-> m, data |-> data[m], versions |-> {}, at |-> now] : m \in newer}
          /\ cut' = cut \cup ((live \ then.things) \cap EntryIds)
          /\ late' = late \cup {i.thing : i \in {j \in bin : j.thing \in then.things /\ Overdue(j)}}
          /\ twice' = Twice(newer)
    /\ undo' = IF touched THEN None ELSE [at |-> now, state |-> Now]
    /\ rolling' = None
    /\ UNCHANGED <<now, written, files, snapshots, removing, purge, checked, bounds, touched>>

-----------------------------------------------------------------------------
(* purgeDeleted(): the items that are due, one after the other.              *)
StartPurge ==
    /\ due = {}
    /\ due' = {i \in bin : Overdue(i)}
    /\ due' # {}
    /\ UNCHANGED <<now, workspace, files, bin, snapshots, removing, rolling, doomed, freed, checked, bounds, history>>

(* The file goes unless it is in the library again; a refusal of the storage *)
(* is only logged.                                                           *)
SharedMutant(i) == FALSE

Shared(i) == i.thing \in live

Doom(i) ==
    /\ doomed = None
    /\ i.thing \in MediaIds
    /\ ~Shared(i)
    /\ doomed' = i
    /\ freed' = FALSE
    /\ UNCHANGED <<now, workspace, files, bin, snapshots, removing, rolling, due, checked, bounds, history>>

DeleteFile ==
    /\ doomed # None
    /\ ~freed
    /\ freed' = TRUE
    /\ files' \in {files, files \ {doomed.thing}}
    /\ UNCHANGED <<now, workspace, bin, snapshots, removing, rolling, due, doomed, checked, bounds, history>>

LeftMutant(i) == IF Shared(i) THEN bin ELSE bin \ {i}

Left(i) == bin \ {i}

(* The item goes; the pass gives up when someone else removed it meanwhile.  *)
Unlist(i) ==
    /\ IF doomed = None THEN i.thing \in EntryIds \/ Shared(i) ELSE doomed = i /\ freed
    /\ bin' = Left(i)
    /\ due' = IF i \in bin THEN due \ {i} ELSE {}
    /\ doomed' = None
    /\ freed' = FALSE
    /\ cut' = cut \cup ({i.thing} \cap EntryIds)
    /\ UNCHANGED <<now, workspace, files, snapshots, removing, rolling, checked, bounds, undo, touched, late, twice>>

-----------------------------------------------------------------------------
(* The next day.  daily() has run (it tries every hour), and no request      *)
(* takes days (a rollback's transaction has a limit of ten minutes).         *)
Tick ==
    /\ now < MaxDays
    /\ checked
    /\ rolling = None /\ \A c \in Removers : removing[c] = None
    /\ now' = now + 1
    /\ checked' = FALSE
    /\ UNCHANGED <<workspace, files, bin, snapshots, removing, rolling, purge, bounds, history>>

(* The process stops.                                                        *)
Stop ==
    /\ stops < MaxStops
    /\ stops' = stops + 1
    /\ removing' = [c \in Removers |-> None]
    /\ rolling' = None
    /\ due' = {}
    /\ doomed' = None
    /\ freed' = FALSE
    /\ UNCHANGED <<now, workspace, files, bin, snapshots, checked, ops, history>>

Purges == StartPurge \/ DeleteFile \/ \E i \in due : Doom(i) \/ Unlist(i)

StoreNext ==
    \/ \E t \in Things : Edit(t)
    \/ \E c \in Removers : CommitRemove(c) \/ \E t \in Things : StartRemove(c, t)
    \/ \E i \in bin : Restore(i)
    \/ Daily \/ Backup \/ CommitRollback
    \/ \E b \in backups : StartRollback(b)
    \/ Purges \/ Tick \/ Stop

StoreSpec == StoreInit /\ [][StoreNext]_storeVars

(* The purge runs every six hours; users and stops are free.                 *)
FairStoreSpec == StoreSpec /\ WF_storeVars(Purges)

-----------------------------------------------------------------------------
(* Type invariant: workspace, bin, snapshots and calls hold values of their  *)
(* types.                                                                    *)
StoreTypeOK ==
    /\ now \in 0..MaxDays
    /\ live \subseteq Things
    /\ data \in [Things -> Edits]
    /\ versionsOf \in [Things -> SUBSET Edits]
    /\ written \in [Things -> 0..MaxEdits]
    /\ files \subseteq MediaIds
    /\ bin \subseteq Items
    /\ backups \subseteq Snapshots
    /\ newest \in {None} \cup Snapshots
    /\ removing \in [Removers -> {None} \cup Removals]
    /\ rolling \in {None} \cup [no : 1..MaxOps, state : Contents]
    /\ due \subseteq Items
    /\ doomed \in {None} \cup Items
    /\ {freed, checked, touched} \subseteq BOOLEAN
    /\ ops \in 0..MaxOps
    /\ stops \in 0..MaxStops
    /\ undo \in {None} \cup [at : 0..MaxDays, state : Contents]
    /\ late \subseteq Things
    /\ twice \subseteq Things
    /\ cut \subseteq Things

(* Every file a kept snapshot names is still in storage (KEEP_DAYS is        *)
(* shorter than the bin's days), so any of them can be rolled back to.       *)
KeptSnapshotsStored ==
    \A b \in backups : (b.state.things \cap MediaIds) \ (late \cup twice) \subseteq files

(* A file in the library, or in the bin for less than its 30 days, is in     *)
(* storage: whatever was removed, restored, rolled back and purged, and      *)
(* wherever a purge was cut off.                                             *)
KeptThirtyDays ==
    \A m \in MediaIds \ (late \cup twice) :
        m \in live \/ (\E i \in bin : i.thing = m /\ ~Overdue(i)) => m \in files

(* A rollback can itself be undone: as long as snapshots are kept, one holds *)
(* exactly what the rollback replaced, unless something was written between  *)
(* that snapshot and the rollback.                                           *)
UndoKept ==
    undo # None /\ now <= undo.at + KeepDays =>
        \E b \in backups : b.state = undo.state

(* An entry in the workspace has its whole version history, however often it *)
(* was removed, restored and rolled back, unless it was cut by design.       *)
HistoryWhole ==
    \A e \in (live \cap EntryIds) \ cut : versionsOf[e] = 0..(written[e] - 1)

(* What is due is purged in the end, whatever is restored meanwhile.         *)
DuePurged == <>[](\A i \in bin : ~Overdue(i))
=============================================================================
