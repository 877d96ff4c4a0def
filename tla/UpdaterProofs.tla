--------------------------- MODULE UpdaterProofs ---------------------------
(***************************************************************************)
(* Proofs about Updater, for any releases, retention, number of tasks and  *)
(* events around them.                                                     *)
(***************************************************************************)
EXTENDS Updater, WellFoundedInduction, TLAPS

(* Each role has its steps, an upgrade a tag to go back to, and a backup    *)
(* that is being packed has been dumped.                                    *)
Saving == {"dump", "pack", "list", "prune"}
Booting == {"sync", "write", "record"}
Suits(role, step) == (role = "save" => step \in Saving) /\ (role = "boot" => step \in Booting)

RoleOK(t) ==
    /\ Suits(t.role, t.at)
    /\ t.role = "upgrade" => t.from \in Refs
    /\ t.at = "pack" => t.backup # Null

TasksOK == task \in [Slots -> {Null} \cup Tasks] /\ \A s \in Busy : RoleOK(task[s])

TInv == StateOK /\ TasksOK

-----------------------------------------------------------------------------
LEMMA MaxOfTwo ==
    ASSUME NEW m \in Nat, NEW n \in Nat
    PROVE  Max({m, n}) \in {m, n}
<1>1. \E x \in {m, n} : \A y \in {m, n} : x >= y
    BY SMT
<1> QED
    BY <1>1 DEF Max

LEMMA MaxOfVersions ==
    ASSUME NEW m \in Versions, NEW n \in Versions
    PROVE  Max({m, n}) \in Versions
BY MaxOfTwo, VersionsAssumption DEF Versions

LEMMA NewTask ==
    ASSUME NEW role \in {"upgrade", "save", "boot"}, NEW step \in Steps,
           NEW to \in Versions, NEW from \in Refs \cup {Null}
    PROVE  New(role, step, to, from) \in Tasks
<1>1. Empty \in Databases
    BY VersionsAssumption DEF Empty, Databases, Versions
<1> QED
    BY <1>1 DEF New, Tasks

LEMMA InitTypes == Init => TInv
<1> SUFFICES ASSUME Init PROVE TInv
    OBVIOUS
<1>0. 0 \in Versions
    BY VersionsAssumption DEF Versions
<1>1. StateOK
  <2>1. PICK start \in Starts : env = start.env /\ config = start.config /\ left = start.left
      BY DEF Init
  <2>2. env \in {0, Latest} /\ config \in {0, Custom} /\ left \in [Events -> Nat]
      BY <2>1, StartsAssumption
  <2> QED
      BY <1>0, <2>2 DEF Init, StateOK, Databases, States, Empty, Refs
<1>2. TasksOK
  <2>1. env # Latest => New("boot", "sync", env, Null) \in Tasks
      BY <1>1, NewTask DEF StateOK, Steps, Refs, Init
  <2>2. RoleOK(New("boot", "sync", env, Null))
      BY DEF New, RoleOK, Suits, Booting
  <2>3. \A r \in Slots : task[r] = Null \/ (env # Latest /\ task[r] = New("boot", "sync", env, Null))
      BY DEF Init
  <2>4. task \in [Slots -> {Null} \cup Tasks]
      BY <2>1 DEF Init
  <2> QED
      BY <2>2, <2>3, <2>4 DEF TasksOK, Busy, RoleOK
<1> QED
    BY <1>1, <1>2 DEF TInv

LEMMA FetchTypes ==
    ASSUME StateOK, Fetch
    PROVE  images' \subseteq Versions /\ latest' \in Versions \cup {Null}
BY NamesAssumption DEF StateOK, Fetch, Refs

LEMMA RecreateTypes ==
    ASSUME StateOK, Recreate
    PROVE  /\ images' \subseteq Versions /\ latest' \in Versions \cup {Null}
           /\ app' \in Versions /\ db' \in Databases
           /\ db'.work = db.work
<1>1. images' \subseteq Versions /\ latest' \in Versions \cup {Null}
    BY FetchTypes DEF Recreate, StateOK
<1>2. app' \in Versions
    BY NamesAssumption DEF Recreate, Fetch, Stored, StateOK, Refs
<1>3. Max({app', db.schema}) \in Versions
    BY <1>2, MaxOfVersions DEF StateOK, Databases
<1>4. \A v \in Versions : [db EXCEPT !.schema = v] \in Databases /\ [db EXCEPT !.schema = v].work = db.work
    BY DEF StateOK, Databases
<1>5. PICK v \in Versions : db' = [db EXCEPT !.schema = v]
    BY <1>3 DEF Recreate, StateOK, Databases
<1> QED
    BY <1>1, <1>2, <1>4, <1>5

LEMMA RestoredTypes ==
    ASSUME StateOK, NEW b \in Backups
    PROVE  Restored(b) \subseteq Databases
BY DEF StateOK, Restored, Backups, Databases

LEMMA RetainedTypes ==
    ASSUME NEW all
    PROVE  Retained(all) \subseteq all
BY DEF Retained

(* A task whose record is replaced, or that ends, leaves the others alone.  *)
LEMMA TaskSet ==
    ASSUME TasksOK, NEW s \in Slots, NEW t \in {Null} \cup Tasks,
           t # Null => RoleOK(t),
           task' = [task EXCEPT ![s] = t]
    PROVE  TasksOK'
<1>1. task' \in [Slots -> {Null} \cup Tasks]
    BY DEF TasksOK
<1>2. \A r \in Slots : task'[r] = IF r = s THEN t ELSE task[r]
    BY DEF TasksOK
<1>3. \A r \in Busy' : RoleOK(task'[r])
    BY <1>2 DEF TasksOK, Busy
<1> QED
    BY <1>1, <1>3 DEF TasksOK, RoleOK

(* The task at a step is one that has it.                                   *)
LEMMA TaskAt ==
    ASSUME TasksOK, NEW s \in Slots, NEW step, At(s, step)
    PROVE  /\ s \in Busy /\ task[s] \in Tasks /\ RoleOK(task[s]) /\ task[s].at = step
           /\ step \notin Saving => task[s].role # "save"
           /\ step \notin Booting => task[s].role # "boot"
           /\ task[s].role \in {"upgrade", "save", "boot"}
BY DEF TasksOK, At, Busy, RoleOK, Suits, Tasks

LEMMA TaskGoes ==
    ASSUME TasksOK, NEW s \in Busy, NEW step \in Steps, step # "pack", Suits(task[s].role, step), Goes(s, step)
    PROVE  TasksOK'
<1>1. s \in Slots /\ task[s] \in Tasks /\ RoleOK(task[s])
    BY DEF TasksOK, Busy
<1>2. [task[s] EXCEPT !.at = step] \in Tasks /\ RoleOK([task[s] EXCEPT !.at = step])
    BY <1>1 DEF Tasks, RoleOK
<1> QED
    BY <1>1, <1>2, TaskSet DEF Goes

LEMMA TaskEnds ==
    ASSUME TasksOK, NEW s \in Busy, Ends(s)
    PROVE  TasksOK'
BY TaskSet DEF Ends, Busy

LEMMA TaskEnded ==
    ASSUME TasksOK, NEW s \in Busy, NEW step \in Steps, step # "pack", Suits(task[s].role, step),
           Ended(s, step)
    PROVE  TasksOK'
<1>1. s \in Slots /\ task[s] \in Tasks /\ RoleOK(task[s])
    BY DEF TasksOK, Busy
<1>2. Empty \in Databases
    BY VersionsAssumption DEF Empty, Databases, Versions
<1>3. /\ [task[s] EXCEPT !.at = step, !.backup = Null, !.floor = Empty] \in Tasks
      /\ RoleOK([task[s] EXCEPT !.at = step, !.backup = Null, !.floor = Empty])
    BY <1>1, <1>2 DEF Tasks, RoleOK
<1> QED
    BY <1>1, <1>3, TaskSet DEF Ended

LEMMA TaskNoBackup ==
    ASSUME TasksOK, NEW s \in Busy, task[s].role # "boot", NoBackup(s)
    PROVE  TasksOK'
<1>1. s \in Slots /\ task[s] \in Tasks /\ RoleOK(task[s])
    BY DEF TasksOK, Busy
<1>2. /\ [task[s] EXCEPT !.at = "revert", !.backup = Null] \in Tasks
      /\ task[s].role # "save" => RoleOK([task[s] EXCEPT !.at = "revert", !.backup = Null])
    BY <1>1 DEF Tasks, Steps, RoleOK, Suits
<1> QED
    BY <1>1, <1>2, TaskSet, TaskEnds DEF NoBackup

(* Only a task's record, and what each step assigns, changes.              *)
LEMMA StepTypes ==
    ASSUME TInv, NEW s \in Slots, Step(s)
    PROVE  TInv'
<1> USE DEF TInv
<1>0. /\ s \in Busy => task[s] \in Tasks
      /\ \A is \in States : Says(is) => status' \in [is : States, to : Versions] /\ awake' \in BOOLEAN
    BY DEF TasksOK, Busy, Says, StateOK
<1>1. CASE Start(s)
  <2> USE <1>1
  <2>a. At(s, "asked")
      BY DEF Start
  <2>0. /\ s \in Busy /\ task[s] \in Tasks /\ RoleOK(task[s]) /\ task[s].at = "asked"
        /\ "asked" \notin Saving => task[s].role # "save"
        /\ "asked" \notin Booting => task[s].role # "boot"
      BY <2>a, TaskAt
  <2>4. Ref \in Refs
      BY DEF Ref, StateOK, Refs
  <2>1. /\ [task[s] EXCEPT !.at = "reclaim", !.from = Ref, !.floor = db] \in Tasks
        /\ RoleOK([task[s] EXCEPT !.at = "reclaim", !.from = Ref, !.floor = db])
      BY <2>0, <2>4 DEF StateOK, Tasks, Steps, RoleOK, Suits, Saving, Booting
  <2>2. TasksOK'
      BY <2>0, <2>1, TaskSet DEF Start
  <2>3. StateOK'
      BY <1>1, <1>0 DEF Start, At, StateOK, States, Tasks, site, store, files, told, self, history
  <2> QED
      BY <2>2, <2>3
<1>2. CASE Reclaim(s)
  <2> USE <1>2
  <2>a. At(s, "reclaim")
      BY DEF Reclaim
  <2>0. /\ s \in Busy /\ task[s] \in Tasks /\ RoleOK(task[s]) /\ task[s].at = "reclaim"
        /\ "reclaim" \notin Saving => task[s].role # "save"
        /\ "reclaim" \notin Booting => task[s].role # "boot"
      BY <2>a, TaskAt
  <2>1. TasksOK'
      BY <2>0, TaskGoes, TaskEnds, TaskEnded DEF Reclaim, Steps, Suits, Saving, Booting, Fails, Pruned
  <2>2. StateOK'
      BY <1>2, <1>0 DEF Reclaim, StateOK, At, States, Tasks, site, store, files, told, self, history, Fails, Pruned
  <2> QED
      BY <2>1, <2>2
<1>3. CASE Dump(s)
  <2> USE <1>3
  <2>a. At(s, "dump")
      BY DEF Dump
  <2>0. /\ s \in Busy /\ task[s] \in Tasks /\ RoleOK(task[s]) /\ task[s].at = "dump"
        /\ "dump" \notin Saving => task[s].role # "save"
        /\ "dump" \notin Booting => task[s].role # "boot"
      BY <2>a, TaskAt
  <2>1. ASSUME NEW size \in Sizes
        PROVE  LET b == [id |-> stamp + 1, db |-> db, size |-> size]
                   t == [task[s] EXCEPT !.at = "pack", !.backup = b]
               IN  t \in Tasks /\ RoleOK(t)
    <3> DEFINE b == [id |-> stamp + 1, db |-> db, size |-> size]
    <3>1. b \in Backups
        BY DEF StateOK, Backups
    <3> HIDE DEF b
    <3>2. [task[s] EXCEPT !.at = "pack", !.backup = b] \in Tasks
        BY <2>0, <3>1 DEF Tasks, Steps
    <3>3. RoleOK([task[s] EXCEPT !.at = "pack", !.backup = b])
        BY <2>0, <3>1, NullAssumption DEF Tasks, RoleOK, Suits, Saving, Booting
    <3> QED
        BY <3>2, <3>3 DEF b
  <2>2. TasksOK'
      BY <2>0, <2>1, TaskSet, TaskNoBackup DEF Dump, Booting
  <2>3. StateOK'
    <3>0. stamp' = stamp + 1 \/ stamp' = stamp
        BY <1>3 DEF Dump
    <3>1. /\ stamp' \in Nat
          /\ UNCHANGED <<env, app, db, images, latest, backups, config, synced, next, helper, left, history>>
      <4>1. UNCHANGED <<site, backups, files, self, left, history>>
          BY <1>3 DEF Dump
      <4> QED
          BY <4>1, <3>0 DEF StateOK, site, files, self
    <3>2. UNCHANGED told \/ Says("rolling_back")
        BY <1>3 DEF Dump, NoBackup
    <3>3. status' \in [is : States, to : Versions] /\ awake' \in BOOLEAN
        BY <3>2, <1>0 DEF States, told, StateOK
    <3> QED
        BY <3>1, <3>3 DEF StateOK, history
  <2> QED
      BY <2>2, <2>3
<1>4. CASE Pack(s)
  <2> USE <1>4
  <2>a. At(s, "pack")
      BY DEF Pack
  <2>0. /\ s \in Busy /\ task[s] \in Tasks /\ RoleOK(task[s]) /\ task[s].at = "pack"
        /\ "pack" \notin Saving => task[s].role # "save"
        /\ "pack" \notin Booting => task[s].role # "boot"
      BY <2>a, TaskAt
  <2>1. task[s].backup \in Backups
      BY <2>0 DEF RoleOK, Tasks
  <2>2. TasksOK'
      BY <2>0, TaskGoes, TaskNoBackup DEF Pack, Steps, Suits, Saving, Booting
  <2>3. backups' \subseteq Backups
      BY <1>4, <2>1 DEF Pack, StateOK
  <2>4. StateOK'
      BY <1>4, <1>0, <2>3 DEF Pack, NoBackup, StateOK, States, site, files, told, self, history
  <2> QED
      BY <2>2, <2>4
<1>5. CASE SyncRead(s)
  <2> USE <1>5
  <2>a. At(s, "sync")
      BY DEF SyncRead
  <2>0. /\ s \in Busy /\ task[s] \in Tasks /\ RoleOK(task[s]) /\ task[s].at = "sync"
        /\ "sync" \notin Saving => task[s].role # "save"
        /\ "sync" \notin Booting => task[s].role # "boot"
      BY <2>a, TaskAt
  <2>4. synced.hash \in Versions \cup {Null}
      BY DEF StateOK
  <2>1. ASSUME NEW plan \in {"write", "same", "leave"}
        PROVE  LET t == [task[s] EXCEPT !.at = "write", !.plan = plan, !.hash = synced.hash]
               IN  t \in Tasks /\ RoleOK(t)
    <3>1. [task[s] EXCEPT !.at = "write", !.plan = plan, !.hash = synced.hash] \in Tasks
        BY <2>0, <2>4 DEF Tasks, Steps
    <3>2. PICK t \in Tasks : t = [task[s] EXCEPT !.at = "write", !.plan = plan, !.hash = synced.hash]
        BY <3>1
    <3>3. t.at = "write" /\ t.role = task[s].role /\ t.from = task[s].from
        BY <2>0, <3>2 DEF Tasks
    <3>4. RoleOK(t)
        BY <2>0, <3>3 DEF RoleOK, Suits, Saving, Booting
    <3> QED
        BY <3>1, <3>2, <3>4
  <2>2. TasksOK'
      BY <1>5, <2>1, TaskSet DEF SyncRead, At, Busy
  <2>3. StateOK'
      BY <1>5 DEF SyncRead, StateOK, site, store, files, told, self, history
  <2> QED
      BY <2>2, <2>3
<1>6. CASE SyncWrite(s)
  <2> USE <1>6
  <2>a. At(s, "write")
      BY DEF SyncWrite
  <2>0. /\ s \in Busy /\ task[s] \in Tasks /\ RoleOK(task[s]) /\ task[s].at = "write"
        /\ "write" \notin Saving => task[s].role # "save"
        /\ "write" \notin Booting => task[s].role # "boot"
      BY <2>a, TaskAt
  <2>4. [task[s] EXCEPT !.at = "record", !.plan = "leave"] \in Tasks
      BY <2>0 DEF Tasks, Steps
  <2>5. PICK t \in Tasks : t = [task[s] EXCEPT !.at = "record", !.plan = "leave"]
      BY <2>4
  <2>6. t.at = "record" /\ t.role = task[s].role /\ t.from = task[s].from
      BY <2>0, <2>5 DEF Tasks
  <2>1. /\ [task[s] EXCEPT !.at = "record", !.plan = "leave"] \in Tasks
        /\ RoleOK([task[s] EXCEPT !.at = "record", !.plan = "leave"])
      BY <2>0, <2>5, <2>6 DEF RoleOK, Suits, Saving, Booting
  <2>2. TasksOK'
      BY <2>0, <2>1, TaskSet, TaskGoes DEF SyncWrite, Steps, Suits, Saving, Booting
  <2>3. StateOK'
      BY <1>6, <2>0 DEF SyncWrite, StateOK, site, store, files, told, self, history, Tasks
  <2> QED
      BY <2>2, <2>3
<1>7. CASE SyncRecord(s)
  <2> USE <1>7
  <2>a. At(s, "record")
      BY DEF SyncRecord
  <2>0. /\ s \in Busy /\ task[s] \in Tasks /\ RoleOK(task[s]) /\ task[s].at = "record"
        /\ "record" \notin Saving => task[s].role # "save"
        /\ "record" \notin Booting => task[s].role # "boot"
      BY <2>a, TaskAt
  <2>1. /\ [task[s] EXCEPT !.at = "env", !.plan = "-", !.hash = Null] \in Tasks
        /\ task[s].role # "boot" => RoleOK([task[s] EXCEPT !.at = "env", !.plan = "-", !.hash = Null])
      BY <2>0 DEF Tasks, Steps, RoleOK, Suits, Saving
  <2>2. TasksOK'
      BY <1>7, <2>0, <2>1, TaskSet, TaskEnds DEF SyncRecord, Synced
  <2>5. [version |-> task[s].to, hash |-> IF task[s].plan = "leave" THEN task[s].hash ELSE task[s].to]
             \in [version : Versions \cup {Null}, hash : Versions \cup {Null}]
      BY <2>0 DEF Tasks
  <2>6. Blank \in [version : Versions \cup {Null}, hash : Versions \cup {Null}]
      BY DEF Blank
  <2>3. synced' \in [version : Versions \cup {Null}, hash : Versions \cup {Null}] /\ unsaved' \in BOOLEAN
      BY <2>5, <2>6 DEF SyncRecord, StateOK
  <2>4. StateOK'
      BY <1>7, <2>3 DEF SyncRecord, StateOK, site, store, told, self
  <2> QED
      BY <2>2, <2>4
<1>8. CASE SetEnv(s)
  <2> USE <1>8
  <2>a. At(s, "env")
      BY DEF SetEnv
  <2>0. /\ s \in Busy /\ task[s] \in Tasks /\ RoleOK(task[s]) /\ task[s].at = "env"
        /\ "env" \notin Saving => task[s].role # "save"
        /\ "env" \notin Booting => task[s].role # "boot"
      BY <2>a, TaskAt
  <2>1. TasksOK'
      BY <2>0, TaskGoes, TaskEnds, TaskEnded DEF SetEnv, Steps, Suits, Saving, Booting, Tears, Written, Fails, Refs
  <2>2. StateOK'
      BY <1>8, <1>0 DEF SetEnv, StateOK, At, States, Tasks, site, store, files, told, self, history, Tears, Written, Fails, Refs
  <2> QED
      BY <2>1, <2>2
<1>9. CASE Pull(s)
  <2> USE <1>9
  <2>a. At(s, "pull")
      BY DEF Pull
  <2>0. /\ s \in Busy /\ task[s] \in Tasks /\ RoleOK(task[s]) /\ task[s].at = "pull"
        /\ "pull" \notin Saving => task[s].role # "save"
        /\ "pull" \notin Booting => task[s].role # "boot"
      BY <2>a, TaskAt
  <2>1. TasksOK'
      BY <2>0, TaskGoes, TaskEnds, TaskEnded DEF Pull, Steps, Suits, Saving, Booting, Fails
  <2>2. StateOK'
      BY <1>9, <1>0, FetchTypes DEF Pull, StateOK, At, States, Tasks, site, store, files, told, self, history, Fails
  <2> QED
      BY <2>1, <2>2
<1>10. CASE Up(s)
  <2> USE <1>10
  <2>a. At(s, "up")
      BY DEF Up
  <2>0. /\ s \in Busy /\ task[s] \in Tasks /\ RoleOK(task[s]) /\ task[s].at = "up"
        /\ "up" \notin Saving => task[s].role # "save"
        /\ "up" \notin Booting => task[s].role # "boot"
      BY <2>a, TaskAt
  <2>1. TasksOK'
      BY <2>0, TaskGoes, TaskEnds, TaskEnded DEF Up, Steps, Suits, Saving, Booting, Fails
  <2>2. StateOK'
      BY <1>10, <1>0, RecreateTypes DEF Up, StateOK, At, States, Tasks, site, store, files, told, self, history, Fails
  <2> QED
      BY <2>1, <2>2
<1>11. CASE Verify(s)
  <2> USE <1>11
  <2>a. At(s, "verify")
      BY DEF Verify
  <2>0. /\ s \in Busy /\ task[s] \in Tasks /\ RoleOK(task[s]) /\ task[s].at = "verify"
        /\ "verify" \notin Saving => task[s].role # "save"
        /\ "verify" \notin Booting => task[s].role # "boot"
      BY <2>a, TaskAt
  <2>1. TasksOK'
      BY <2>0, TaskGoes, TaskEnds, TaskEnded DEF Verify, Steps, Suits, Saving, Booting, Fails
  <2>2. StateOK'
      BY <1>11, <1>0 DEF Verify, StateOK, At, States, Tasks, site, store, files, told, self, history, Fails
  <2> QED
      BY <2>1, <2>2
<1>12. CASE Revert(s)
  <2> USE <1>12
  <2>a. At(s, "revert")
      BY DEF Revert
  <2>0. /\ s \in Busy /\ task[s] \in Tasks /\ RoleOK(task[s]) /\ task[s].at = "revert"
        /\ "revert" \notin Saving => task[s].role # "save"
        /\ "revert" \notin Booting => task[s].role # "boot"
      BY <2>a, TaskAt
  <2>1. TasksOK'
      BY <2>0, TaskGoes, TaskEnded DEF Revert, Lost, Steps, Suits, Saving, Booting
  <2>2. env' \in Refs \cup {Torn}
      BY <2>0 DEF Revert, Written, Tears, StateOK, RoleOK, Saving, Booting, Tasks
  <2>3. StateOK'
      BY <1>12, <1>0, <2>2 DEF Revert, Lost, StateOK, States, store, files, told, self, history
  <2> QED
      BY <2>1, <2>3
<1>13. CASE Repull(s)
  <2> USE <1>13
  <2>a. At(s, "repull")
      BY DEF Repull
  <2>0. /\ s \in Busy /\ task[s] \in Tasks /\ RoleOK(task[s]) /\ task[s].at = "repull"
        /\ "repull" \notin Saving => task[s].role # "save"
        /\ "repull" \notin Booting => task[s].role # "boot"
      BY <2>a, TaskAt
  <2>1. TasksOK'
      BY <2>0, TaskGoes, TaskEnds, TaskEnded DEF Repull, Steps, Suits, Saving, Booting
  <2>2. StateOK'
      BY <1>13, <1>0, FetchTypes DEF Repull, StateOK, At, States, Tasks, site, store, files, told, self, history
  <2> QED
      BY <2>1, <2>2
<1>14. CASE Reup(s, "reup", "recheck")
  <2> USE <1>14
  <2>a. At(s, "reup")
      BY DEF Reup
  <2>0. /\ s \in Busy /\ task[s] \in Tasks /\ RoleOK(task[s]) /\ task[s].at = "reup"
        /\ "reup" \notin Saving => task[s].role # "save"
        /\ "reup" \notin Booting => task[s].role # "boot"
      BY <2>a, TaskAt
  <2>1. TasksOK'
      BY <2>0, TaskGoes, TaskEnds, TaskEnded DEF Reup, Steps, Suits, Saving, Booting, Lost
  <2>2. StateOK'
      BY <1>14, <1>0, RecreateTypes DEF Reup, StateOK, At, States, Tasks, site, store, files, told, self, history, Lost
  <2> QED
      BY <2>1, <2>2
<1>15. CASE Recheck(s)
  <2> USE <1>15
  <2>a. At(s, "recheck")
      BY DEF Recheck
  <2>0. /\ s \in Busy /\ task[s] \in Tasks /\ RoleOK(task[s]) /\ task[s].at = "recheck"
        /\ "recheck" \notin Saving => task[s].role # "save"
        /\ "recheck" \notin Booting => task[s].role # "boot"
      BY <2>a, TaskAt
  <2>1. TasksOK'
      BY <2>0, TaskGoes, TaskEnds, TaskEnded DEF Recheck, Steps, Suits, Saving, Booting, Lost
  <2>2. StateOK'
      BY <1>15, <1>0 DEF Recheck, StateOK, At, States, Tasks, site, store, files, told, self, history, Lost
  <2> QED
      BY <2>1, <2>2
<1>16. CASE RestoreOld(s)
  <2> USE <1>16
  <2>a. At(s, "restore")
      BY DEF RestoreOld
  <2>0. /\ s \in Busy /\ task[s] \in Tasks /\ RoleOK(task[s]) /\ task[s].at = "restore"
        /\ "restore" \notin Saving => task[s].role # "save"
        /\ "restore" \notin Booting => task[s].role # "boot"
      BY <2>a, TaskAt
  <2>1. TasksOK'
      BY <2>0, TaskGoes DEF RestoreOld, Steps, Suits, Saving, Booting
  <2>2. db' \in Databases
      BY <1>16, RestoredTypes DEF RestoreOld, StateOK
  <2>3. StateOK'
      BY <1>16, <2>2 DEF RestoreOld, StateOK, store, files, told, self, history
  <2> QED
      BY <2>1, <2>3
<1>17. CASE Reup(s, "reup2", "recheck2")
  <2> USE <1>17
  <2>a. At(s, "reup2")
      BY DEF Reup
  <2>0. /\ s \in Busy /\ task[s] \in Tasks /\ RoleOK(task[s]) /\ task[s].at = "reup2"
        /\ "reup2" \notin Saving => task[s].role # "save"
        /\ "reup2" \notin Booting => task[s].role # "boot"
      BY <2>a, TaskAt
  <2>1. TasksOK'
      BY <2>0, TaskGoes, TaskEnds, TaskEnded DEF Reup, Steps, Suits, Saving, Booting, Lost
  <2>2. StateOK'
      BY <1>17, <1>0, RecreateTypes DEF Reup, StateOK, At, States, Tasks, site, store, files, told, self, history, Lost
  <2> QED
      BY <2>1, <2>2
<1>18. CASE Recheck2(s)
  <2> USE <1>18
  <2>a. At(s, "recheck2")
      BY DEF Recheck2
  <2>0. /\ s \in Busy /\ task[s] \in Tasks /\ RoleOK(task[s]) /\ task[s].at = "recheck2"
        /\ "recheck2" \notin Saving => task[s].role # "save"
        /\ "recheck2" \notin Booting => task[s].role # "boot"
      BY <2>a, TaskAt
  <2>1. TasksOK'
      BY <2>0, TaskGoes, TaskEnds, TaskEnded DEF Recheck2, Steps, Suits, Saving, Booting, Lost
  <2>2. StateOK'
      BY <1>18, <1>0 DEF Recheck2, StateOK, At, States, Tasks, site, store, files, told, self, history, Lost
  <2> QED
      BY <2>1, <2>2
<1>19. CASE Tidy(s, "won")
  <2> USE <1>19
  <2>a. At(s, "won")
      BY DEF Tidy
  <2>0. /\ s \in Busy /\ task[s] \in Tasks /\ RoleOK(task[s]) /\ task[s].at = "won"
        /\ "won" \notin Saving => task[s].role # "save"
        /\ "won" \notin Booting => task[s].role # "boot"
      BY <2>a, TaskAt
  <2>1. TasksOK'
      BY <2>0, TaskGoes, TaskEnds, TaskEnded DEF Tidy, Steps, Suits, Saving, Booting, Pruned
  <2>2. StateOK'
      BY <1>19, <1>0 DEF Tidy, StateOK, At, States, Tasks, site, store, files, told, self, history, Pruned
  <2> QED
      BY <2>1, <2>2
<1>20. CASE Tidy(s, "lost")
  <2> USE <1>20
  <2>a. At(s, "lost")
      BY DEF Tidy
  <2>0. /\ s \in Busy /\ task[s] \in Tasks /\ RoleOK(task[s]) /\ task[s].at = "lost"
        /\ "lost" \notin Saving => task[s].role # "save"
        /\ "lost" \notin Booting => task[s].role # "boot"
      BY <2>a, TaskAt
  <2>1. TasksOK'
      BY <2>0, TaskGoes, TaskEnds, TaskEnded DEF Tidy, Steps, Suits, Saving, Booting, Pruned
  <2>2. StateOK'
      BY <1>20, <1>0 DEF Tidy, StateOK, At, States, Tasks, site, store, files, told, self, history, Pruned
  <2> QED
      BY <2>1, <2>2
<1>21. CASE SelfUpdate(s)
  <2> USE <1>21
  <2>a. At(s, "self")
      BY DEF SelfUpdate
  <2>0. /\ s \in Busy /\ task[s] \in Tasks /\ RoleOK(task[s]) /\ task[s].at = "self"
        /\ "self" \notin Saving => task[s].role # "save"
        /\ "self" \notin Booting => task[s].role # "boot"
      BY <2>a, TaskAt
  <2>1. TasksOK'
      BY <2>0, TaskGoes, TaskEnds, TaskEnded DEF SelfUpdate, Steps, Suits, Saving, Booting, Tears, Refs
  <2>2. StateOK'
      BY <1>21, <1>0 DEF SelfUpdate, StateOK, At, States, Tasks, site, store, files, told, self, history, Tears, Refs
  <2> QED
      BY <2>1, <2>2
<1>22. CASE List(s)
  <2> USE <1>22
  <2>a. At(s, "list")
      BY DEF List
  <2>0. /\ s \in Busy /\ task[s] \in Tasks /\ RoleOK(task[s]) /\ task[s].at = "list"
        /\ "list" \notin Saving => task[s].role # "save"
        /\ "list" \notin Booting => task[s].role # "boot"
      BY <2>a, TaskAt
  <2>4. backups \ Retained(backups) \in SUBSET Backups
      BY DEF StateOK
  <2>5. ASSUME NEW doomed \in SUBSET Backups
        PROVE  /\ [task[s] EXCEPT !.at = "prune", !.doomed = doomed] \in Tasks
               /\ RoleOK([task[s] EXCEPT !.at = "prune", !.doomed = doomed])
    <3>1. [task[s] EXCEPT !.at = "prune", !.doomed = doomed] \in Tasks
        BY <2>0 DEF Tasks, Steps
    <3>2. PICK t \in Tasks : t = [task[s] EXCEPT !.at = "prune", !.doomed = doomed]
        BY <3>1
    <3>3. t.at = "prune" /\ t.role = task[s].role /\ t.from = task[s].from
        BY <2>0, <3>2 DEF Tasks
    <3> QED
        BY <2>0, <3>1, <3>2, <3>3 DEF RoleOK, Suits, Saving, Booting
  <2>1. /\ [task[s] EXCEPT !.at = "prune", !.doomed = backups \ Retained(backups)] \in Tasks
        /\ RoleOK([task[s] EXCEPT !.at = "prune", !.doomed = backups \ Retained(backups)])
      BY <2>4, <2>5
  <2>2. TasksOK'
      BY <2>0, <2>1, TaskSet, TaskNoBackup DEF List, Booting
  <2>3. StateOK'
      BY <1>22, <1>0 DEF List, NoBackup, StateOK, States, site, store, files, told, self, history
  <2> QED
      BY <2>2, <2>3
<1>23. CASE Prune(s)
  <2> USE <1>23
  <2>a. At(s, "prune")
      BY DEF Prune
  <2>0. /\ s \in Busy /\ task[s] \in Tasks /\ RoleOK(task[s]) /\ task[s].at = "prune"
        /\ "prune" \notin Saving => task[s].role # "save"
        /\ "prune" \notin Booting => task[s].role # "boot"
      BY <2>a, TaskAt
  <2>1. /\ [task[s] EXCEPT !.at = "sync", !.doomed = {}] \in Tasks
        /\ task[s].role # "save" => RoleOK([task[s] EXCEPT !.at = "sync", !.doomed = {}])
      BY <2>0 DEF Tasks, Steps, RoleOK, Suits, Saving, Booting
  <2>2. TasksOK'
      BY <1>23, <2>0, <2>1, TaskSet, TaskEnds DEF Prune
  <2>3. StateOK'
      BY <1>23 DEF Prune, StateOK, site, files, told, self
  <2> QED
      BY <2>2, <2>3
<1> QED
    BY <1>1, <1>2, <1>3, <1>4, <1>5, <1>6, <1>7, <1>8, <1>9, <1>10, <1>11, <1>12, <1>13, <1>14,
       <1>15, <1>16, <1>17, <1>18, <1>19, <1>20, <1>21, <1>22, <1>23 DEF Step

LEMMA BeginTypes ==
    ASSUME TInv, NEW s \in Slots, NEW t \in Tasks, RoleOK(t), Begins(s, t)
    PROVE  TasksOK' /\ clean' \subseteq Slots
<1>1. TasksOK'
    BY TaskSet DEF TInv, Begins
<1>2. clean' \subseteq Slots
    BY DEF Begins
<1> QED
    BY <1>1, <1>2

(* What a restart leaves of the tasks: the boot-time sync, if it is due.    *)
LEMMA Rebooted ==
    ASSUME Reboots
    PROVE  /\ task' = [r \in Slots |-> task'[r]]
           /\ \A r \in Slots : task'[r] # Null =>
                  env \in Versions /\ task'[r] = New("boot", "sync", env, synced.version)
BY DEF Reboots, Boots

LEMMA RebootTypes ==
    ASSUME TInv, Reboots
    PROVE  /\ TasksOK' /\ clean' = {} /\ awake' = FALSE /\ tangled' \in BOOLEAN /\ undercut' = FALSE
           /\ UNCHANGED <<site, store, files, status, next, lived, unsaved>>
<1>1. env \in Versions => New("boot", "sync", env, synced.version) \in Tasks
    BY NewTask DEF TInv, StateOK, Steps, Refs
<1>2. RoleOK(New("boot", "sync", env, synced.version))
    BY DEF New, RoleOK, Suits, Booting
<1>3. \A r \in Slots : task'[r] \in {Null} \cup Tasks
    BY <1>1, Rebooted
<1>4. task' \in [Slots -> {Null} \cup Tasks]
    BY <1>3, Rebooted
<1>5. \A r \in Busy' : RoleOK(task'[r])
    BY <1>2, Rebooted DEF Busy
<1>6. tangled' \in BOOLEAN
    BY DEF Reboots, TInv, StateOK
<1> QED
    BY <1>4, <1>5, <1>6 DEF TasksOK, Reboots, RoleOK

LEMMA SpendTypes ==
    ASSUME StateOK, NEW event \in Events, Spend(event)
    PROVE  left' \in [Events -> Nat]
BY DEF StateOK, Spend

LEMMA TypesKept == TInv /\ [Next]_vars => TInv'
<1> SUFFICES ASSUME TInv, [Next]_vars PROVE TInv'
    OBVIOUS
<1> USE DEF TInv
<1>1. ASSUME NEW s \in Slots, Step(s) PROVE TInv'
    BY <1>1, StepTypes
<1>2. ASSUME NEW s \in Slots, NEW v \in Versions, Ask(s, v) PROVE TInv'
  <2>0. Ref \in Refs
      BY DEF Ref, StateOK, Refs
  <2>1. New("upgrade", "asked", v, Ref) \in Tasks /\ RoleOK(New("upgrade", "asked", v, Ref))
      BY <2>0, NewTask DEF Steps, New, RoleOK, Suits
  <2>2. TasksOK' /\ clean' \subseteq Slots
      BY <1>2, <2>1, BeginTypes DEF Ask
  <2>3. left' \in [Events -> Nat]
      BY <1>2, SpendTypes DEF Ask, Events
  <2> QED
      BY <1>2, <2>2, <2>3 DEF Ask, StateOK, site, store, files, told, self
<1>3. ASSUME NEW s \in Slots, Save(s) PROVE TInv'
  <2>1. New("save", "dump", 0, Null) \in Tasks /\ RoleOK(New("save", "dump", 0, Null))
    <3>1. 0 \in Versions
        BY VersionsAssumption DEF Versions
    <3>2. New("save", "dump", 0, Null) \in Tasks
        BY <3>1, NewTask DEF Steps
    <3>3. New("save", "dump", 0, Null).role = "save" /\ New("save", "dump", 0, Null).at = "dump"
        BY DEF New
    <3> QED
        BY <3>2, <3>3 DEF RoleOK, Suits, Saving
  <2>2. TasksOK' /\ clean' \subseteq Slots
      BY <1>3, <2>1, BeginTypes DEF Save
  <2>3. left' \in [Events -> Nat]
      BY <1>3, SpendTypes DEF Save, Events
  <2> QED
      BY <1>3, <2>2, <2>3 DEF Save, StateOK, site, store, files, told, self
<1>4. ASSUME NEW b \in backups, Delete(b) PROVE TInv'
  <2>1. left' \in [Events -> Nat]
      BY <1>4, SpendTypes DEF Delete, Events
  <2> QED
      BY <1>4, <2>1 DEF Delete, StateOK, TasksOK, RoleOK, Busy, site, files, told, self
<1>5. ASSUME NEW b \in backups, Restore(b) PROVE TInv'
  <2>1. left' \in [Events -> Nat]
      BY <1>5, SpendTypes DEF Restore, Events
  <2> QED
      BY <1>5, <2>1, RestoredTypes DEF Restore, StateOK, TasksOK, RoleOK, Busy, store, files, told, self
<1>6. CASE Edit
  <2>1. left' \in [Events -> Nat]
      BY <1>6, SpendTypes DEF Edit, Events
  <2> QED
      BY <1>6, <2>1 DEF Edit, StateOK, TasksOK, RoleOK, Busy, site, store, told, self
<1>7. CASE Work
  <2>1. left' \in [Events -> Nat]
      BY <1>7, SpendTypes DEF Work, Events
  <2>2. db' \in Databases
      BY <1>7 DEF Work, StateOK, Databases
  <2> QED
      BY <1>7, <2>1, <2>2 DEF Work, StateOK, TasksOK, RoleOK, Busy, store, files, told, self, history
<1>8. CASE Replaced
    BY <1>8, RebootTypes DEF Replaced, StateOK, site, store, files
<1>9. CASE Crash
  <2>1. left' \in [Events -> Nat]
      BY <1>9, SpendTypes DEF Crash, Events
  <2> QED
      BY <1>9, <2>1, RebootTypes DEF Crash, StateOK, site, store, files
<1>10. CASE UNCHANGED vars
    BY <1>10 DEF vars, StateOK, TasksOK, RoleOK, Busy, site, store, files, told, self, history
<1> QED
    BY <1>1, <1>2, <1>3, <1>4, <1>5, <1>6, <1>7, <1>8, <1>9, <1>10 DEF Next

(* Everything keeps its shape, whatever releases, tasks and events there    *)
(* are.                                                                     *)
THEOREM TypeCorrect == Spec => []TypeOK
<1>1. TInv => TypeOK
    BY DEF TInv, TypeOK, TasksOK
<1> QED
    BY <1>1, InitTypes, TypesKept, PTL DEF Spec

-----------------------------------------------------------------------------
(* What becomes of the record of the task that takes a step; the others keep *)
(* theirs.                                                                  *)
LEMMA RecordGoes ==
    ASSUME TasksOK, NEW s \in Busy, NEW step \in Steps, Goes(s, step)
    PROVE  LET t == task'[s] u == task[s]
           IN  t # Null /\ t.at = step /\ t.role = u.role /\ t.to = u.to /\ t.from = u.from
               /\ t.backup = u.backup /\ t.floor = u.floor /\ t.doomed = u.doomed
               /\ t.plan = u.plan /\ t.hash = u.hash
<1>1. s \in Slots /\ task[s] \in Tasks
    BY DEF TasksOK, Busy
<1>2. task'[s] = [task[s] EXCEPT !.at = step]
    BY <1>1 DEF Goes, TasksOK
<1>3. [task[s] EXCEPT !.at = step] \in Tasks
    BY <1>1 DEF Tasks
<1>4. task'[s] # Null
    BY <1>2, <1>3, NullAssumption
<1> QED
    BY <1>1, <1>2, <1>4 DEF Tasks

LEMMA RecordEnded ==
    ASSUME TasksOK, NEW s \in Busy, NEW step \in Steps, Ended(s, step)
    PROVE  LET t == task'[s] u == task[s]
           IN  t.at = step /\ t.role = u.role /\ t.to = u.to /\ t.from = u.from /\ t.backup = Null
<1>1. s \in Slots /\ task[s] \in Tasks
    BY DEF TasksOK, Busy
<1>2. task'[s] = [task[s] EXCEPT !.at = step, !.backup = Null, !.floor = Empty]
    BY <1>1 DEF Ended, TasksOK
<1> QED
    BY <1>1, <1>2 DEF Tasks

LEMMA RecordNoBackup ==
    ASSUME TasksOK, NEW s \in Busy, NoBackup(s)
    PROVE  LET t == task'[s] u == task[s]
           IN  t = Null \/ (t.at = "revert" /\ t.role = u.role /\ t.to = u.to /\ t.from = u.from /\ t.backup = Null)
<1>1. s \in Slots /\ task[s] \in Tasks
    BY DEF TasksOK, Busy
<1>2. task'[s] = Null \/ task'[s] = [task[s] EXCEPT !.at = "revert", !.backup = Null]
    BY <1>1 DEF NoBackup, Ends, TasksOK
<1> QED
    BY <1>1, <1>2 DEF Tasks

\* What a step leaves of a task's record.
Follows(t, u, step) ==
    /\ t.at = step /\ t.role = u.role /\ t.to = u.to /\ t.from = u.from
    /\ t.backup = u.backup /\ t.floor = u.floor

LEMMA RecordStart ==
    ASSUME TasksOK, NEW s \in Slots, Start(s)
    PROVE  LET t == task'[s] u == task[s]
           IN  t.at = "reclaim" /\ t.role = u.role /\ t.to = u.to /\ t.from = Ref /\ t.floor = db
               /\ t.backup = u.backup
<1>1. task[s] \in Tasks /\ task'[s] = [task[s] EXCEPT !.at = "reclaim", !.from = Ref, !.floor = db]
    BY DEF Start, At, Busy, TasksOK
<1> QED
    BY <1>1 DEF Tasks

LEMMA RecordDump ==
    ASSUME TasksOK, NEW s \in Busy, NEW b,
           task' = [task EXCEPT ![s] = [@ EXCEPT !.at = "pack", !.backup = b]]
    PROVE  LET t == task'[s] u == task[s]
           IN  t.at = "pack" /\ t.role = u.role /\ t.to = u.to /\ t.from = u.from /\ t.floor = u.floor
               /\ t.backup = b
<1>1. task[s] \in Tasks /\ task'[s] = [task[s] EXCEPT !.at = "pack", !.backup = b]
    BY DEF Busy, TasksOK
<1>2. PICK u \in Tasks : u = task[s]
    BY <1>1
<1>3. PICK t : t = task'[s]
    OBVIOUS
<1>4. t = [u EXCEPT !.at = "pack", !.backup = b]
    BY <1>1, <1>2, <1>3
<1>5. t.at = "pack" /\ t.backup = b
    BY <1>4 DEF Tasks
<1>6. t.role = u.role /\ t.to = u.to /\ t.from = u.from /\ t.floor = u.floor
    BY <1>4 DEF Tasks
<1> QED
    BY <1>2, <1>3, <1>5, <1>6

LEMMA RecordRead ==
    ASSUME TasksOK, NEW s \in Slots, SyncRead(s)
    PROVE  Follows(task'[s], task[s], "write")
<1>1. task[s] \in Tasks
    BY DEF SyncRead, At, Busy, TasksOK
<1>2. PICK plan : task' = [task EXCEPT ![s] = [@ EXCEPT !.at = "write", !.plan = plan, !.hash = synced.hash]]
    BY DEF SyncRead
<1>3. task'[s] = [task[s] EXCEPT !.at = "write", !.plan = plan, !.hash = synced.hash]
    BY <1>2 DEF TasksOK
<1> QED
    BY <1>1, <1>3 DEF Tasks, Follows

LEMMA RecordWrite ==
    ASSUME TasksOK, NEW s \in Slots, SyncWrite(s)
    PROVE  Follows(task'[s], task[s], "record")
<1>1. task[s] \in Tasks
    BY DEF SyncWrite, At, Busy, TasksOK
<1>2. \/ task'[s] = [task[s] EXCEPT !.at = "record", !.plan = "leave"]
      \/ task'[s] = [task[s] EXCEPT !.at = "record"]
    BY DEF SyncWrite, Goes, TasksOK
<1> QED
    BY <1>1, <1>2 DEF Tasks, Follows

LEMMA RecordSynced ==
    ASSUME TasksOK, NEW s \in Busy, Synced(s)
    PROVE  task'[s] = Null \/ Follows(task'[s], task[s], "env")
<1>1. task[s] \in Tasks
    BY DEF Busy, TasksOK
<1>2. task'[s] = Null \/ task'[s] = [task[s] EXCEPT !.at = "env", !.plan = "-", !.hash = Null]
    BY DEF Synced, Ends, Busy, TasksOK
<1> QED
    BY <1>1, <1>2 DEF Tasks, Follows

LEMMA RecordList ==
    ASSUME TasksOK, NEW s \in Slots, List(s)
    PROVE  \/ NoBackup(s)
           \/ Follows(task'[s], task[s], "prune") /\ task'[s].doomed = backups \ Retained(backups)
<1>1. task[s] \in Tasks
    BY DEF List, At, Busy, TasksOK
<1>2. NoBackup(s) \/ task'[s] = [task[s] EXCEPT !.at = "prune", !.doomed = backups \ Retained(backups)]
    BY DEF List, TasksOK
<1> QED
    BY <1>1, <1>2 DEF Tasks, Follows

LEMMA RecordPrune ==
    ASSUME TasksOK, NEW s \in Slots, Prune(s)
    PROVE  task'[s] = Null \/ Follows(task'[s], task[s], "sync")
<1>1. task[s] \in Tasks
    BY DEF Prune, At, Busy, TasksOK
<1>2. task'[s] = Null \/ task'[s] = [task[s] EXCEPT !.at = "sync", !.doomed = {}]
    BY DEF Prune, Ends, TasksOK
<1> QED
    BY <1>1, <1>2 DEF Tasks, Follows

LEMMA OthersStay ==
    ASSUME TasksOK, NEW s \in Slots, Step(s)
    PROVE  s \in Busy /\ \A r \in Slots \ {s} : task'[r] = task[r]
<1>1. \E t : task' = [task EXCEPT ![s] = t]
    BY DEF Step, Start, Reclaim, Dump, Pack, List, Prune, SyncRead, SyncWrite, SyncRecord, Synced, SetEnv,
           Pull, Up, Verify, Revert, Repull, Reup, Recheck, RestoreOld, Recheck2, Tidy, SelfUpdate,
           Fails, Lost, NoBackup, Goes, Ended, Ends
<1>2. s \in Busy
    BY DEF Step, At, Start, Reclaim, Dump, Pack, List, Prune, SyncRead, SyncWrite, SyncRecord, SetEnv,
           Pull, Up, Verify, Revert, Repull, Reup, Recheck, RestoreOld, Recheck2, Tidy, SelfUpdate
<1> QED
    BY <1>1, <1>2 DEF TasksOK

(* Who comes to the steps the invariants tell apart, and what a record keeps. *)
Kept(t, u) == t.role = u.role /\ t.to = u.to /\ t.from = u.from /\ t.backup \in {u.backup, Null}

LEMMA Moves ==
    ASSUME TInv, NEW s \in Slots, Step(s),
           ~Start(s), ~Dump(s), ~SyncRead(s), ~SyncWrite(s), ~List(s)
    PROVE  task'[s] = Null \/ (/\ Kept(task'[s], task[s])
                              /\ task'[s].at \in Steps \ {"pack", "prune", "write", "record", "asked"})
<1> DEFINE Fine == task'[s] = Null \/ (/\ Kept(task'[s], task[s])
                              /\ task'[s].at \in Steps \ {"pack", "prune", "write", "record", "asked"})
<1> SUFFICES Fine
    OBVIOUS
<1> USE DEF TInv
<1>0. s \in Busy /\ task[s] \in Tasks /\ s \in Slots
    BY OthersStay DEF TasksOK, Busy
<1>1. ASSUME NEW step \in Steps \ {"pack", "prune", "write", "record", "asked"}, Goes(s, step) PROVE Fine
    BY <1>0, <1>1, RecordGoes DEF Kept
<1>2. ASSUME NEW step \in Steps \ {"pack", "prune", "write", "record", "asked"}, Ended(s, step) PROVE Fine
    BY <1>0, <1>2, RecordEnded DEF Kept
<1>3. Ends(s) => Fine
    BY <1>0 DEF Ends, TasksOK
<1>4. NoBackup(s) => Fine
    BY <1>0, RecordNoBackup DEF Kept, Steps
<1>5. Synced(s) => Fine
    BY <1>0, RecordSynced DEF Kept, Follows, Steps
<1>6. Prune(s) => Fine
    BY <1>0, RecordPrune DEF Kept, Follows, Steps
<1>7. Reclaim(s) \/ SetEnv(s) \/ Pull(s) \/ Up(s) \/ Repull(s) \/ RestoreOld(s) => Fine
    BY <1>1 DEF Reclaim, SetEnv, Pull, Up, Repull, RestoreOld, Fails, Steps
<1>8. Verify(s) \/ Revert(s) \/ Reup(s, "reup", "recheck") \/ Recheck(s) \/ Reup(s, "reup2", "recheck2")
        \/ Recheck2(s) => Fine
    BY <1>1, <1>2 DEF Verify, Revert, Reup, Recheck, Recheck2, Fails, Lost, Steps
<1>9. Pack(s) \/ SyncRecord(s) \/ Tidy(s, "won") \/ Tidy(s, "lost") \/ SelfUpdate(s) => Fine
    BY <1>1, <1>3, <1>4, <1>5 DEF Pack, SyncRecord, Tidy, SelfUpdate, Steps
<1> QED
    BY <1>6, <1>7, <1>8, <1>9 DEF Step

-----------------------------------------------------------------------------
(* Without a tangle one sync is under way at a time, and what it read still *)
(* holds: the files are known between syncs, if the last was recorded, and  *)
(* are the release's, or as they were, when a sync records them.            *)
Known == unsaved \/ config \in {Custom, synced.hash} \cup Shipped

Fresh(t) ==
    /\ t.plan \in {"write", "same", "leave"}
    /\ t.at = "write" =>
         /\ Known /\ t.hash = synced.hash
         /\ t.plan = "same" => config = t.to
         /\ t.plan = "write" => config # Custom
    /\ t.at = "record" =>
         IF t.plan = "leave" THEN Known /\ t.hash = synced.hash ELSE config = t.to

SyncOK ==
    ~tangled =>
        /\ \A s, r \in Syncing : s = r
        /\ Syncing = {} => Known
        /\ \A s \in Syncing : Fresh(task[s])

InSync == {"write", "record"}

LEMMA SyncElsewhere ==
    ASSUME TasksOK, SyncOK, NEW s \in Slots, s \notin Syncing,
           \A r \in Slots \ {s} : task'[r] = task[r],
           task'[s] = Null \/ task'[s].at \notin InSync,
           UNCHANGED <<files, tangled, unsaved>>
    PROVE  SyncOK'
<1>1. Syncing' = Syncing
    BY DEF Syncing, Busy, InSync
<1>2. \A r \in Syncing : task'[r] = task[r]
    BY DEF Syncing, Busy
<1>3. Known' = Known /\ \A r \in Syncing : Fresh(task[r])' = Fresh(task[r])
    BY <1>2 DEF Known, Fresh, files
<1> QED
    BY <1>1, <1>2, <1>3 DEF SyncOK, files

LEMMA InitSync == Init => SyncOK
<1> SUFFICES ASSUME Init PROVE SyncOK
    OBVIOUS
<1>1. \A r \in Slots : task[r] = Null \/ task[r].at = "sync"
    BY DEF Init, New
<1> QED
    BY <1>1 DEF Init, SyncOK, Syncing, Busy, Known

LEMMA StepSync ==
    ASSUME TInv, SyncOK, NEW s \in Slots, Step(s)
    PROVE  SyncOK'
<1> USE DEF TInv
<1>0. s \in Busy /\ task[s] \in Tasks /\ \A r \in Slots \ {s} : task'[r] = task[r]
    BY OthersStay DEF TasksOK, Busy
<1>1. CASE SyncRead(s)
  <2> SUFFICES ASSUME ~tangled' PROVE SyncOK'
      BY DEF SyncOK
  <2>1. Syncing = {} /\ Known /\ UNCHANGED <<files, unsaved>> /\ task[s].at = "sync"
      BY <1>1 DEF SyncRead, SyncOK, At
  <2>2. PICK plan \in {"write", "same", "leave"} :
          /\ plan = "same" => config = task[s].to
          /\ plan = "write" => config # task[s].to /\ Stock(s)
          /\ task' = [task EXCEPT ![s] =
                  [@ EXCEPT !.at = "write", !.plan = plan, !.hash = synced.hash]]
      BY <1>1 DEF SyncRead
  <2>3. plan = "write" => config # Custom
      BY <1>0, <2>1, <2>2, NamesAssumption, VersionsAssumption DEF Stock, StateOK, Tasks, Refs
  <2>4. task'[s] = [task[s] EXCEPT !.at = "write", !.plan = plan, !.hash = synced.hash]
      BY <2>2 DEF TasksOK
  <2>5. /\ task'[s].at = "write" /\ task'[s].plan = plan /\ task'[s].hash = synced.hash
        /\ task'[s].to = task[s].to
      BY <1>0, <2>4 DEF Tasks
  <2>6. Syncing' \subseteq {s}
      BY <1>0, <2>1 DEF Syncing, Busy
  <2>7. Known' /\ synced' = synced /\ config' = config
      BY <2>1 DEF Known, files
  <2>8. Fresh(task[s])'
      BY <2>2, <2>3, <2>5, <2>7 DEF Fresh
  <2> QED
      BY <2>6, <2>7, <2>8 DEF SyncOK
<1>2. CASE SyncWrite(s)
  <2> SUFFICES ASSUME ~tangled' PROVE SyncOK'
      BY DEF SyncOK
  <2>1. /\ s \in Syncing /\ Syncing \subseteq {s} /\ Fresh(task[s]) /\ task[s].at = "write"
        /\ synced' = synced /\ unsaved' = unsaved
      BY <1>0, <1>2 DEF SyncWrite, SyncOK, At, Syncing, history
  <2>2. CASE /\ config' = IF task[s].plan = "write" THEN task[s].to ELSE config
             /\ Goes(s, "record")
    <3>1. LET t == task'[s] u == task[s]
          IN  t # Null /\ t.at = "record" /\ t.plan = u.plan /\ t.hash = u.hash /\ t.to = u.to
        BY <1>0, <2>2, RecordGoes DEF Steps
    <3>2. Fresh(task[s])'
        BY <1>0, <2>1, <2>2, <3>1 DEF Fresh, Known, Tasks
    <3>3. Syncing' \subseteq {s} /\ s \in Syncing'
        BY <1>0, <2>1, <3>1 DEF Syncing, Busy
    <3> QED
        BY <3>2, <3>3 DEF SyncOK
  <2>3. CASE /\ task[s].plan = "write" /\ config' \in {config, Custom}
             /\ task' = [task EXCEPT ![s] = [@ EXCEPT !.at = "record", !.plan = "leave"]]
    <3>1. task'[s] = [task[s] EXCEPT !.at = "record", !.plan = "leave"]
        BY <2>3 DEF TasksOK
    <3>2. task'[s].at = "record" /\ task'[s].plan = "leave" /\ task'[s].hash = task[s].hash
        BY <1>0, <3>1 DEF Tasks
    <3>3. [task[s] EXCEPT !.at = "record", !.plan = "leave"] \in Tasks
        BY <1>0 DEF Tasks, Steps
    <3>4. Fresh(task[s])'
        BY <2>1, <2>3, <3>2 DEF Fresh, Known
    <3>5. Syncing' \subseteq {s} /\ s \in Syncing'
        BY <1>0, <2>1, <3>1, <3>2, <3>3, NullAssumption DEF Syncing, Busy
    <3> QED
        BY <3>4, <3>5 DEF SyncOK
  <2> QED
      BY <1>2, <2>2, <2>3 DEF SyncWrite
<1>3. CASE SyncRecord(s)
  <2> SUFFICES ASSUME ~tangled' PROVE SyncOK'
      BY DEF SyncOK
  <2>1. /\ s \in Syncing /\ Syncing \subseteq {s} /\ Fresh(task[s]) /\ task[s].at = "record"
        /\ config' = config
      BY <1>0, <1>3 DEF SyncRecord, SyncOK, At, Syncing
  <2>2. Known'
    <3>1. CASE unsaved' = TRUE
        BY <3>1 DEF Known
    <3>2. CASE /\ synced' = [version |-> task[s].to,
                             hash |-> IF task[s].plan = "leave" THEN task[s].hash ELSE task[s].to]
               /\ unsaved' = (unsaved /\ task[s].plan = "leave")
      <4>1. synced'.hash = IF task[s].plan = "leave" THEN task[s].hash ELSE task[s].to
          BY <3>2
      <4>2. CASE task[s].plan = "leave"
        <5>1. Known /\ synced'.hash = synced.hash /\ unsaved' = unsaved
            BY <2>1, <3>2, <4>1, <4>2 DEF Fresh, StateOK
        <5> QED
            BY <2>1, <5>1 DEF Known
      <4>3. CASE task[s].plan # "leave"
          BY <2>1, <4>1, <4>3 DEF Fresh, Known
      <4> QED
          BY <4>2, <4>3
    <3> QED
        BY <1>3, <3>1, <3>2 DEF SyncRecord
  <2>3. task'[s] = Null \/ task'[s].at \notin InSync
      BY <1>3, Moves DEF SyncRecord, Start, Dump, SyncRead, SyncWrite, List, At, InSync
  <2>4. Syncing' = {}
      BY <1>0, <2>1, <2>3 DEF Syncing, Busy, InSync
  <2> QED
      BY <2>2, <2>4 DEF SyncOK
<1>4. CASE ~SyncRead(s) /\ ~SyncWrite(s) /\ ~SyncRecord(s)
  <2>1. s \notin Syncing /\ UNCHANGED <<files, tangled, unsaved>>
      BY <1>4 DEF Step, At, Start, Reclaim, Dump, Pack, List, Prune, SetEnv,
                  Pull, Up, Verify, Revert, Repull, Reup, Recheck, RestoreOld, Recheck2, Tidy, SelfUpdate,
                  Syncing, history
  <2>2. Start(s) => task'[s].at = "reclaim"
      BY RecordStart
  <2>3. Dump(s) => task'[s] = Null \/ task'[s].at \in {"pack", "revert"}
    <3>1. ASSUME NEW size \in Sizes,
                 task' = [task EXCEPT ![s] =
                    [@ EXCEPT !.at = "pack", !.backup = [id |-> stamp + 1, db |-> db, size |-> size]]]
          PROVE  task'[s].at = "pack"
        BY <1>0, <3>1, RecordDump
    <3> QED
        BY <1>0, <3>1, RecordNoBackup DEF Dump
  <2>4. List(s) => task'[s] = Null \/ task'[s].at \in {"prune", "revert"}
      BY <1>0, RecordList, RecordNoBackup DEF Follows
  <2>5. task'[s] = Null \/ task'[s].at \notin InSync
      BY <1>4, <2>2, <2>3, <2>4, Moves DEF InSync
  <2> QED
      BY <1>0, <2>1, <2>5, SyncElsewhere
<1> QED
    BY <1>1, <1>2, <1>3, <1>4

LEMMA SyncStays ==
    ASSUME SyncOK, UNCHANGED <<task, config, synced, tangled, unsaved>>
    PROVE  SyncOK'
BY DEF SyncOK, Syncing, Busy, Known, Fresh

LEMMA SyncReboots ==
    ASSUME TInv, SyncOK, Reboots
    PROVE  SyncOK'
<1> SUFFICES ASSUME ~tangled' PROVE SyncOK'
    BY DEF SyncOK
<1>1. Known'
    BY DEF SyncOK, Reboots, Known, files
<1>2. New("boot", "sync", env, synced.version).at = "sync"
    BY DEF New
<1>3. Syncing' = {}
    BY <1>2, Rebooted DEF Syncing, Busy
<1> QED
    BY <1>1, <1>3 DEF SyncOK

LEMMA SyncBegins ==
    ASSUME TInv, SyncOK, NEW s \in Slots, NEW t \in Tasks, t.at \notin InSync, Begins(s, t),
           UNCHANGED <<files, tangled, unsaved>>
    PROVE  SyncOK'
<1>1. task[s] = Null
    BY DEF Begins, Busy
<1>2. task'[s] = t /\ \A r \in Slots \ {s} : task'[r] = task[r]
    BY DEF Begins, TInv, TasksOK
<1> QED
    BY <1>1, <1>2, SyncElsewhere DEF Syncing, Busy, TInv

LEMMA SyncKept == TInv /\ SyncOK /\ [Next]_vars => SyncOK'
<1> SUFFICES ASSUME TInv, SyncOK, [Next]_vars PROVE SyncOK'
    OBVIOUS
<1>1. ASSUME NEW s \in Slots, Step(s) PROVE SyncOK'
    BY <1>1, StepSync
<1>2. ASSUME NEW s \in Slots, NEW v \in Versions, Ask(s, v) PROVE SyncOK'
  <2>0. Ref \in Refs
      BY DEF Ref, TInv, StateOK, Refs
  <2>1. New("upgrade", "asked", v, Ref) \in Tasks /\ New("upgrade", "asked", v, Ref).at = "asked"
      BY <2>0, NewTask DEF Steps, New
  <2> QED
      BY <1>2, <2>1, SyncBegins DEF Ask, InSync
<1>3. ASSUME NEW s \in Slots, Save(s) PROVE SyncOK'
  <2>0. 0 \in Versions
      BY VersionsAssumption DEF Versions
  <2>1. New("save", "dump", 0, Null) \in Tasks
      BY <2>0, NewTask DEF Steps
  <2>2. New("save", "dump", 0, Null).at = "dump"
      BY DEF New
  <2> QED
      BY <1>3, <2>1, <2>2, SyncBegins DEF Save, InSync
<1>4. ASSUME NEW b \in backups, Delete(b) PROVE SyncOK'
    BY <1>4, SyncStays DEF Delete, files
<1>5. ASSUME NEW b \in backups, Restore(b) PROVE SyncOK'
    BY <1>5, SyncStays DEF Restore, files
<1>6. CASE Edit
    BY <1>6 DEF Edit, SyncOK, Known, Syncing, Busy
<1>7. CASE Work
    BY <1>7, SyncStays DEF Work, files, history
<1>8. CASE Replaced
    BY <1>8, SyncReboots DEF Replaced
<1>9. CASE Crash
    BY <1>9, SyncReboots DEF Crash
<1>10. CASE UNCHANGED vars
    BY <1>10, SyncStays DEF vars, files, history
<1> QED
    BY <1>1, <1>2, <1>3, <1>4, <1>5, <1>6, <1>7, <1>8, <1>9, <1>10 DEF Next

(* Deploy files as some release has them are never taken for customized ones *)
(* while the record of the last sync is whole.                              *)
THEOREM StockStaysKnown == Spec => []StockKnown
<1>1. SyncOK => StockKnown
    BY DEF SyncOK, Known, StockKnown
<1> QED
    BY <1>1, InitTypes, TypesKept, InitSync, SyncKept, PTL DEF Spec

(* Customized deploy files are never overwritten, but for an edit that falls *)
(* into a sync.                                                             *)
THEOREM CustomizedFilesKept == Spec => EditsKept
<1>1. ASSUME TInv, SyncOK, [Next]_vars
      PROVE  [config = Custom => config' = Custom \/ tangled]_vars
  <2> SUFFICES ASSUME config = Custom, ~tangled, config' # Custom, vars' # vars PROVE FALSE
      BY <1>1
  <2>1. PICK s \in Slots : SyncWrite(s)
    <3>1. ASSUME NEW s \in Slots, Step(s), ~SyncWrite(s) PROVE config' = config
        BY <3>1 DEF Step, Start, Reclaim, Dump, Pack, List, Prune, SyncRead, SyncRecord, SetEnv, Pull, Up, Verify,
                    Revert, Repull, Reup, Recheck, RestoreOld, Recheck2, Tidy, SelfUpdate, files
    <3>2. ASSUME NEW s \in Slots, NEW v \in Versions, Save(s) \/ Ask(s, v) PROVE config' = config
        BY <3>2 DEF Save, Ask, files
    <3>3. ASSUME NEW b \in backups, Delete(b) \/ Restore(b) PROVE config' = config
        BY <3>3 DEF Delete, Restore, files
    <3>4. Work \/ Replaced \/ Crash => config' = config
        BY DEF Work, Replaced, Crash, Reboots, files
    <3>5. Edit => config' = Custom
        BY DEF Edit
    <3> QED
      <4>1. Next /\ config' # config
          BY <1>1
      <4>2. \E s \in Slots : Step(s) \/ Save(s) \/ \E v \in Versions : Ask(s, v)
          BY <4>1, <3>3, <3>4, <3>5 DEF Next
      <4>3. PICK s \in Slots : Step(s) \/ Save(s) \/ \E v \in Versions : Ask(s, v)
          BY <4>2
      <4>4. CASE Step(s)
          BY <4>1, <4>4, <3>1
      <4>5. CASE Save(s) \/ \E v \in Versions : Ask(s, v)
        <5>1. PICK v \in Versions : Save(s) \/ Ask(s, v)
            BY <4>5, VersionsAssumption DEF Versions
        <5> QED
            BY <4>1, <5>1, <3>2
      <4> QED
          BY <4>3, <4>4, <4>5
  <2>2. s \in Syncing /\ task[s].at = "write" /\ task[s].plan = "write"
      BY <2>1 DEF SyncWrite, At, Syncing
  <2> QED
      BY <1>1, <2>2 DEF SyncOK, Fresh
<1> QED
    BY <1>1, InitTypes, TypesKept, InitSync, SyncKept, PTL DEF Spec, EditsKept

-----------------------------------------------------------------------------
(* Backups are numbered in the order they were begun.                       *)
StampOK ==
    /\ \A b \in backups : b.id <= stamp
    /\ \A s \in Busy : task[s].backup # Null => task[s].backup.id <= stamp

LEMMA StepStamp ==
    ASSUME TInv, StampOK, NEW s \in Slots, Step(s)
    PROVE  StampOK'
<1> USE DEF TInv
<1>0. s \in Busy /\ task[s] \in Tasks /\ \A r \in Slots \ {s} : task'[r] = task[r]
    BY OthersStay DEF TasksOK, Busy
<1>1. ASSUME NEW size \in Sizes, stamp' = stamp + 1, backups' = backups,
             task' = [task EXCEPT ![s] =
                  [@ EXCEPT !.at = "pack", !.backup = [id |-> stamp + 1, db |-> db, size |-> size]]]
      PROVE  StampOK'
  <2>1. PICK b : b = [id |-> stamp + 1, db |-> db, size |-> size]
      OBVIOUS
  <2>2. task'[s].backup = b /\ b.id = stamp + 1
      BY <1>0, <1>1, <2>1, RecordDump
  <2>3. \A n \in Nat : n <= stamp => n <= stamp'
      BY <1>1 DEF StateOK
  <2>4. \A c \in backups' : c.id <= stamp'
      BY <1>1, <2>3 DEF StampOK, StateOK, Backups
  <2>5. \A r \in Slots \ {s} : task[r] # Null /\ task[r].backup # Null => task[r].backup.id <= stamp'
      BY <2>3 DEF StampOK, Busy, TasksOK, Tasks, Backups
  <2>6. stamp + 1 <= stamp'
      BY <1>1 DEF StateOK
  <2> QED
      BY <1>0, <2>2, <2>4, <2>5, <2>6 DEF StampOK, Busy
<1>2. ASSUME stamp' = stamp, backups' \subseteq backups \cup ({task[s].backup} \ {Null}),
             task'[s] = Null \/ task'[s].backup \in {task[s].backup, Null}
      PROVE  StampOK'
  <2>1. \A b \in backups' : b.id <= stamp
      BY <1>0, <1>2 DEF StampOK
  <2>2. \A r \in Busy' : task'[r].backup # Null => r \in Busy /\ task'[r].backup = task[r].backup
      BY <1>0, <1>2 DEF Busy
  <2> QED
      BY <1>2, <2>1, <2>2 DEF StampOK
<1>3. CASE Dump(s)
  <2>1. CASE NoBackup(s) /\ UNCHANGED stamp
      BY <1>0, <1>2, <1>3, <2>1, RecordNoBackup DEF Dump
  <2> QED
      BY <1>1, <1>3, <2>1 DEF Dump
<1>4. CASE Pack(s)
  <2>1. task[s].backup # Null
      BY <1>0, <1>4 DEF Pack, At, TasksOK, RoleOK
  <2>2. backups' \subseteq backups \cup ({task[s].backup} \ {Null}) /\ stamp' = stamp
      BY <1>4, <2>1 DEF Pack
  <2>3. task'[s] = Null \/ task'[s].backup \in {task[s].backup, Null}
      BY <1>4, Moves DEF Pack, At, Start, Dump, SyncRead, SyncWrite, List, Kept
  <2> QED
      BY <1>2, <2>2, <2>3
<1>5. CASE ~Dump(s) /\ ~Pack(s)
  <2>1. stamp' = stamp /\ backups' \subseteq backups
      BY <1>5 DEF Step, Start, Reclaim, List, Prune, SyncRead, SyncWrite, SyncRecord, SetEnv, Pull, Up,
                  Verify, Revert, Repull, Reup, Recheck, RestoreOld, Recheck2, Tidy, SelfUpdate, store
  <2>2. task'[s] = Null \/ task'[s].backup \in {task[s].backup, Null}
      BY <1>0, <1>5, Moves, RecordStart, RecordRead, RecordWrite, RecordList, RecordNoBackup DEF Kept, Follows
  <2> QED
      BY <1>2, <2>1, <2>2
<1> QED
    BY <1>3, <1>4, <1>5

LEMMA StampBegins ==
    ASSUME TInv, StampOK, NEW s \in Slots, NEW t \in Tasks, t.backup = Null, Begins(s, t),
           UNCHANGED store
    PROVE  StampOK'
<1>1. task'[s] = t /\ \A r \in Slots \ {s} : task'[r] = task[r]
    BY DEF Begins, TInv, TasksOK
<1> QED
    BY <1>1 DEF StampOK, Busy, store

LEMMA StampReboots ==
    ASSUME StampOK, Reboots
    PROVE  StampOK'
<1>1. New("boot", "sync", env, synced.version).backup = Null
    BY DEF New
<1> QED
    BY <1>1, Rebooted DEF StampOK, Busy, Reboots, store

LEMMA StampKept == TInv /\ StampOK /\ [Next]_vars => StampOK'
<1> SUFFICES ASSUME TInv, StampOK, [Next]_vars PROVE StampOK'
    OBVIOUS
<1>1. ASSUME NEW s \in Slots, Step(s) PROVE StampOK'
    BY <1>1, StepStamp
<1>2. ASSUME NEW s \in Slots, NEW v \in Versions, Ask(s, v) PROVE StampOK'
  <2>0. Ref \in Refs
      BY DEF Ref, TInv, StateOK, Refs
  <2>1. New("upgrade", "asked", v, Ref) \in Tasks /\ New("upgrade", "asked", v, Ref).backup = Null
      BY <2>0, NewTask DEF Steps, New
  <2> QED
      BY <1>2, <2>1, StampBegins DEF Ask
<1>3. ASSUME NEW s \in Slots, Save(s) PROVE StampOK'
  <2>0. 0 \in Versions
      BY VersionsAssumption DEF Versions
  <2>1. New("save", "dump", 0, Null) \in Tasks
      BY <2>0, NewTask DEF Steps
  <2>2. New("save", "dump", 0, Null).backup = Null
      BY DEF New
  <2> QED
      BY <1>3, <2>1, <2>2, StampBegins DEF Save
<1>4. ASSUME NEW b \in backups, Delete(b) PROVE StampOK'
    BY <1>4 DEF Delete, StampOK, Busy
<1>5. ASSUME NEW b \in backups, Restore(b) PROVE StampOK'
    BY <1>5 DEF Restore, StampOK, Busy, store
<1>6. CASE Edit
    BY <1>6 DEF Edit, StampOK, Busy, store
<1>7. CASE Work
    BY <1>7 DEF Work, StampOK, Busy, store
<1>8. CASE Replaced
    BY <1>8, StampReboots DEF Replaced
<1>9. CASE Crash
    BY <1>9, StampReboots DEF Crash
<1>10. CASE UNCHANGED vars
    BY <1>10 DEF vars, StampOK, Busy, store
<1> QED
    BY <1>1, <1>2, <1>3, <1>4, <1>5, <1>6, <1>7, <1>8, <1>9, <1>10 DEF Next

(* Among backups with bounded numbers one is the newest.                    *)
LEMMA Newest ==
    ASSUME NEW n \in Nat, NEW all \in SUBSET Backups, \A b \in all : b.id <= n, all # {}
    PROVE  \E b \in all : \A c \in all : c.id <= b.id
<1> DEFINE ages == {n - b.id : b \in all}
<1>1. ages \subseteq Nat /\ ages # {}
    BY DEF Backups
<1>2. PICK least \in ages : \A y \in ages : ~(<<y, least>> \in OpToRel(<, Nat))
  <2> HIDE DEF ages
  <2> QED
      BY <1>1, NatLessThanWellFounded, WFMin
<1>5. \A y \in Nat : y < least => <<y, least>> \in OpToRel(<, Nat)
    BY <1>1, Zenon DEF OpToRel
<1>3. \A y \in ages : least <= y
  <2>1. \A y \in ages : ~(y < least)
      BY <1>1, <1>2, <1>5, Zenon
  <2> HIDE DEF ages
  <2> QED
      BY <1>1, <2>1
<1>4. PICK b \in all : least = n - b.id
    BY <1>2
<1>6. ASSUME NEW c \in all PROVE c.id <= b.id
  <2>1. n - c.id \in ages
      BY <1>6
  <2>2. n - b.id <= n - c.id
      BY <1>3, <1>4, <2>1
  <2> QED
      BY <2>2 DEF Backups
<1> QED
    BY <1>6

(* Unless somebody deleted one since, what is still to go has a newer one.  *)
DoomOK ==
    ~undercut => \A s \in Busy : task[s].at = "prune" =>
        \A b \in task[s].doomed : NewerThan(b, backups) # {}

(* With one more or a doomed one less, whatever had a newer one still has.  *)
LEMMA PruneStays ==
    ASSUME TInv, StampOK, DoomOK, NEW s \in Slots, Prune(s), ~undercut, NEW b \in Backups,
           NewerThan(b, backups) # {}
    PROVE  NewerThan(b, backups') # {}
<1> USE DEF TInv
<1>1. PICK c \in backups : c.id > b.id
    BY DEF NewerThan
<1>2. PICK top \in backups : \A d \in backups : d.id <= top.id
    BY <1>1, Newest DEF StampOK, StateOK
<1>3. top.id > b.id
    BY <1>1, <1>2 DEF StateOK, Backups
<1>4. NewerThan(top, backups) = {}
    BY <1>2 DEF NewerThan, StateOK, Backups
<1>5. top \notin task[s].doomed
    BY <1>4 DEF DoomOK, Prune, At
<1>6. top \in backups'
    BY <1>2, <1>5 DEF Prune
<1> QED
    BY <1>3, <1>6 DEF NewerThan

LEMMA StepDoom ==
    ASSUME TInv, StampOK, DoomOK, NEW s \in Slots, Step(s)
    PROVE  DoomOK'
<1> USE DEF TInv
<1>0. s \in Busy /\ task[s] \in Tasks /\ \A r \in Slots \ {s} : task'[r] = task[r]
    BY OthersStay DEF TasksOK, Busy
<1>1. ASSUME ~undercut, \A b \in Backups : NewerThan(b, backups) # {} => NewerThan(b, backups') # {},
             task'[s] = Null \/ task'[s].at # "prune"
      PROVE  DoomOK'
  <2>1. \A r \in Busy' : task'[r].at = "prune" =>
            r \in Busy /\ task'[r] = task[r] /\ task[r].doomed \subseteq Backups
      BY <1>0, <1>1 DEF Busy, TasksOK, Tasks
  <2> QED
      BY <1>1, <2>1 DEF DoomOK
<1>2. CASE Prune(s)
  <2>1. task'[s] = Null \/ task'[s].at # "prune"
      BY <1>0, <1>2, RecordPrune DEF Follows
  <2>2. CASE ~undercut
      BY <1>1, <1>2, <2>1, <2>2, PruneStays
  <2>3. CASE undercut /\ undercut' = FALSE
    <3>1. Pruning \subseteq {s}
        BY <1>2, <2>3 DEF Prune
    <3>2. Pruning' = {}
        BY <1>0, <2>1, <3>1 DEF Pruning, Busy
    <3> QED
        BY <3>2 DEF DoomOK, Pruning
  <2> QED
      BY <1>2, <2>2, <2>3 DEF Prune, DoomOK
<1>3. CASE List(s)
  <2>0. UNCHANGED <<backups, undercut>>
      BY <1>3 DEF List, store, history
  <2>1. CASE NoBackup(s)
      BY <1>0, <1>1, <2>0, <2>1, RecordNoBackup DEF DoomOK, NewerThan
  <2>2. CASE task'[s].doomed = backups \ Retained(backups)
    <3>1. \A b \in task'[s].doomed : NewerThan(b, backups) # {}
        BY <2>2 DEF Retained, NewerThan
    <3>2. \A r \in Busy' : r = s \/ (r \in Busy /\ task'[r] = task[r])
        BY <1>0 DEF Busy
    <3> QED
        BY <2>0, <3>1, <3>2 DEF DoomOK, NewerThan
  <2> QED
      BY <1>0, <1>3, <2>1, <2>2, RecordList
<1>4. CASE ~Prune(s) /\ ~List(s)
  <2>1. undercut' = undercut /\ backups \subseteq backups'
      BY <1>4 DEF Step, Start, Reclaim, Dump, Pack, SyncRead, SyncWrite, SyncRecord, SetEnv, Pull, Up,
                  Verify, Revert, Repull, Reup, Recheck, RestoreOld, Recheck2, Tidy, SelfUpdate, store, history
  <2>2. Dump(s) => task'[s] = Null \/ task'[s].at # "prune"
    <3>1. ASSUME NEW size \in Sizes,
                 task' = [task EXCEPT ![s] =
                    [@ EXCEPT !.at = "pack", !.backup = [id |-> stamp + 1, db |-> db, size |-> size]]]
          PROVE  task'[s].at = "pack"
        BY <1>0, <3>1, RecordDump
    <3> QED
        BY <1>0, <3>1, RecordNoBackup DEF Dump
  <2>3. task'[s] = Null \/ task'[s].at # "prune"
      BY <1>4, <2>2, Moves, RecordStart, RecordRead, RecordWrite DEF Follows
  <2>4. \A b \in Backups : NewerThan(b, backups) # {} => NewerThan(b, backups') # {}
      BY <2>1 DEF NewerThan
  <2> QED
      BY <1>1, <2>1, <2>3, <2>4 DEF DoomOK
<1> QED
    BY <1>2, <1>3, <1>4

LEMMA DoomBegins ==
    ASSUME TInv, DoomOK, NEW s \in Slots, NEW t \in Tasks, t.at # "prune", Begins(s, t),
           UNCHANGED <<store, undercut>>
    PROVE  DoomOK'
<1>1. task'[s] = t /\ \A r \in Slots \ {s} : task'[r] = task[r]
    BY DEF Begins, TInv, TasksOK
<1> QED
    BY <1>1 DEF DoomOK, Busy, store, NewerThan

LEMMA DoomReboots ==
    ASSUME DoomOK, Reboots
    PROVE  DoomOK'
<1>1. New("boot", "sync", env, synced.version).at = "sync"
    BY DEF New
<1> QED
    BY <1>1, Rebooted DEF DoomOK, Busy

LEMMA DoomKept == TInv /\ StampOK /\ DoomOK /\ [Next]_vars => DoomOK'
<1> SUFFICES ASSUME TInv, StampOK, DoomOK, [Next]_vars PROVE DoomOK'
    OBVIOUS
<1>1. ASSUME NEW s \in Slots, Step(s) PROVE DoomOK'
    BY <1>1, StepDoom
<1>2. ASSUME NEW s \in Slots, NEW v \in Versions, Ask(s, v) PROVE DoomOK'
  <2>0. Ref \in Refs
      BY DEF Ref, TInv, StateOK, Refs
  <2>1. New("upgrade", "asked", v, Ref) \in Tasks /\ New("upgrade", "asked", v, Ref).at = "asked"
      BY <2>0, NewTask DEF Steps, New
  <2> QED
      BY <1>2, <2>1, DoomBegins DEF Ask
<1>3. ASSUME NEW s \in Slots, Save(s) PROVE DoomOK'
  <2>0. 0 \in Versions
      BY VersionsAssumption DEF Versions
  <2>1. New("save", "dump", 0, Null) \in Tasks
      BY <2>0, NewTask DEF Steps
  <2>2. New("save", "dump", 0, Null).at = "dump"
      BY DEF New
  <2> QED
      BY <1>3, <2>1, <2>2, DoomBegins DEF Save
<1>4. ASSUME NEW b \in backups, Delete(b) PROVE DoomOK'
  <2>1. CASE Pruning = {}
      BY <1>4, <2>1 DEF Delete, DoomOK, Pruning, Busy
  <2>2. CASE undercut'
      BY <2>2 DEF DoomOK
  <2> QED
      BY <1>4, <2>1, <2>2 DEF Delete
<1>5. ASSUME NEW b \in backups, Restore(b) PROVE DoomOK'
    BY <1>5 DEF Restore, DoomOK, Busy, store, NewerThan
<1>6. CASE Edit
    BY <1>6 DEF Edit, DoomOK, Busy, store, NewerThan
<1>7. CASE Work
    BY <1>7 DEF Work, DoomOK, Busy, store, history, NewerThan
<1>8. CASE Replaced
    BY <1>8, DoomReboots DEF Replaced
<1>9. CASE Crash
    BY <1>9, DoomReboots DEF Crash
<1>10. CASE UNCHANGED vars
    BY <1>10 DEF vars, DoomOK, Busy, store, history, NewerThan
<1> QED
    BY <1>1, <1>2, <1>3, <1>4, <1>5, <1>6, <1>7, <1>8, <1>9, <1>10 DEF Next

LEMMA InitDoom == Init => StampOK /\ DoomOK
<1> SUFFICES ASSUME Init PROVE StampOK /\ DoomOK
    OBVIOUS
<1>1. \A r \in Busy : task[r].backup = Null /\ task[r].at = "sync"
    BY DEF Init, Busy, New
<1>2. backups = {}
    BY DEF Init
<1> QED
    BY <1>1, <1>2 DEF StampOK, DoomOK

(* A backup goes only by request, or when a newer one stays.                *)
THEOREM BackupsStay == Spec => BackupsKept
<1>1. ASSUME TInv, StampOK, DoomOK, [Next]_vars
      PROVE  [\A b \in backups :
                 \/ b \in backups' \/ NewerThan(b, backups') # {}
                 \/ left'["delete"] < left["delete"]
                 \/ undercut]_vars
  <2> SUFFICES ASSUME NEW b \in backups, b \notin backups', ~(left'["delete"] < left["delete"]), ~undercut
               PROVE  NewerThan(b, backups') # {}
      BY <1>1
  <2>1. ASSUME NEW s \in Slots, Prune(s) PROVE NewerThan(b, backups') # {}
    <3>1. b \in task[s].doomed /\ b \in Backups
        BY <1>1, <2>1 DEF Prune, TInv, StateOK
    <3>2. NewerThan(b, backups) # {}
        BY <1>1, <2>1, <3>1 DEF Prune, At, DoomOK
    <3> QED
        BY <1>1, <2>1, <3>1, <3>2, PruneStays
  <2>2. ASSUME NEW s \in Slots, Step(s), ~Prune(s) PROVE backups \subseteq backups'
      BY <2>2 DEF Step, Start, Reclaim, Dump, Pack, List, SyncRead, SyncWrite, SyncRecord, SetEnv, Pull, Up, Verify,
                  Revert, Repull, Reup, Recheck, RestoreOld, Recheck2, Tidy, SelfUpdate, store
  <2>3. ASSUME NEW s \in Slots, NEW v \in Versions, Save(s) \/ Ask(s, v) PROVE backups' = backups
      BY <2>3 DEF Save, Ask, store
  <2>4. ASSUME NEW c \in backups, Delete(c) PROVE FALSE
    <3>1. left' = [left EXCEPT !["delete"] = left["delete"] - 1]
        BY <2>4 DEF Delete, Spend
    <3>2. left["delete"] \in Nat /\ left'["delete"] = left["delete"] - 1
        BY <1>1, <3>1 DEF TInv, StateOK, Events
    <3> QED
        BY <3>2
  <2>5. ASSUME NEW c \in backups, Restore(c) PROVE backups' = backups
      BY <2>5 DEF Restore, store
  <2>6. Edit \/ Work \/ Replaced \/ Crash \/ UNCHANGED vars => backups' = backups
      BY DEF Edit, Work, Replaced, Crash, Reboots, vars, store
  <2>7. \E s \in Slots : Step(s) \/ Save(s) \/ \E v \in Versions : Ask(s, v)
      BY <1>1, <2>4, <2>5, <2>6 DEF Next
  <2>8. PICK s \in Slots : Step(s) \/ Save(s) \/ \E v \in Versions : Ask(s, v)
      BY <2>7
  <2>9. CASE Step(s)
      BY <2>1, <2>2, <2>9
  <2>10. CASE Save(s) \/ \E v \in Versions : Ask(s, v)
    <3>1. PICK v \in Versions : Save(s) \/ Ask(s, v)
        BY <2>10, VersionsAssumption DEF Versions
    <3> QED
        BY <2>3, <3>1
  <2> QED
      BY <2>8, <2>9, <2>10
<1> QED
    BY <1>1, InitTypes, TypesKept, InitDoom, StampKept, DoomKept, PTL DEF Spec, BackupsKept

-----------------------------------------------------------------------------
(* An upgrade nothing has interfered with is alone, and what the site holds *)
(* fits the step it is at.                                                  *)
Picking == {"list", "prune"}
Returning == {"repull", "reup", "recheck", "restore", "reup2", "recheck2"}

\* The old image is there, and on the way to a backup it is the one that runs.
ImageFits(t) ==
    t.from \in Versions =>
        /\ t.at \in {"reclaim", "dump", "pack"} \cup Picking \cup Changing => t.from \in images
        /\ t.at = "reclaim" => app = t.from

\* The backup is of the database as it was, and the newest while others are picked.
BackupFits(t) ==
    /\ t.at \in {"reclaim", "dump"} => db.schema = t.floor.schema /\ db.work >= t.floor.work
    /\ t.at \in {"asked", "reclaim", "dump"} => t.backup = Null
    /\ t.backup # Null => t.backup.db.schema = t.floor.schema /\ t.backup.db.work >= t.floor.work
    /\ t.at = "pack" => t.backup.id = stamp /\ \A b \in backups : b.id < stamp
    /\ t.at = "list" => NewerThan(t.backup, backups) = {}
    /\ t.at = "prune" => t.backup \notin t.doomed
    /\ t.at \in Picking \cup Taking => t.backup # Null
    /\ t.at \in Picking \cup Changing /\ t.backup # Null => t.backup \in backups

\* .env and the containers are where the step has brought them.
TagFits(t) ==
    /\ t.at \in {"pull", "up"} => env \in {t.to, Torn}
    /\ t.at = "verify" => env = t.to /\ app = t.to
    /\ t.at \in {"won", "self"} =>
         status.is = "success" /\ env = t.to /\ app = t.to /\ Runs(app, db.schema) /\ t.to \in lived
    /\ t.at \in Returning => env \in {t.from, Torn}
    /\ t.at \in {"recheck", "recheck2"} => env = t.from /\ app = Named(env)
    /\ t.at = "lost" =>
         /\ status.is \in {"rolled_back", "failed"}
         /\ status.is = "rolled_back" => env = t.from /\ app = Named(env) /\ Runs(app, db.schema)

Fits(t) == ImageFits(t) /\ BackupFits(t) /\ TagFits(t)

CleanOK ==
    \A s \in clean :
        /\ \A r \in Busy : r = s
        /\ task[s] # Null /\ task[s].role = "upgrade" => Fits(task[s])

(* A step keeps its task's role, and no task becomes clean by it.           *)
LEMMA RoleStays ==
    ASSUME TInv, NEW s \in Slots, Step(s)
    PROVE  (task'[s] = Null \/ task'[s].role = task[s].role) /\ clean' \subseteq clean
<1>0. s \in Busy
    BY OthersStay DEF TInv
<1>1. clean' \subseteq clean
    BY DEF Step, Start, Reclaim, Dump, Pack, List, Prune, SyncRead, SyncWrite, SyncRecord, SetEnv, Pull, Up,
           Verify, Revert, Repull, Reup, Recheck, RestoreOld, Recheck2, Tidy, SelfUpdate, history
<1>2. Dump(s) => task'[s] = Null \/ task'[s].role = task[s].role
  <2>1. ASSUME NEW size \in Sizes,
               task' = [task EXCEPT ![s] =
                  [@ EXCEPT !.at = "pack", !.backup = [id |-> stamp + 1, db |-> db, size |-> size]]]
        PROVE  task'[s].role = task[s].role
      BY <1>0, <2>1, RecordDump DEF TInv
  <2> QED
      BY <1>0, <2>1, RecordNoBackup DEF Dump, TInv
<1>3. List(s) => task'[s] = Null \/ task'[s].role = task[s].role
    BY <1>0, RecordList, RecordNoBackup DEF Follows, TInv
<1> QED
    BY <1>0, <1>1, <1>2, <1>3, Moves, RecordStart, RecordRead, RecordWrite DEF Kept, Follows, TInv

LEMMA CleanStep ==
    ASSUME TInv, CleanOK, NEW s \in Slots, Step(s),
           s \in clean' /\ task[s].role = "upgrade" /\ Fits(task[s]) /\ task'[s] # Null => Fits(task[s])'
    PROVE  CleanOK'
<1>1. s \in Busy /\ \A r \in Slots \ {s} : task'[r] = task[r]
    BY OthersStay DEF TInv
<1>2. Busy' \subseteq Busy
    BY <1>1 DEF Busy
<1>3. \A r \in clean' : r \in clean /\ r = s /\ \A q \in Busy : q = s
    BY <1>1, RoleStays DEF CleanOK
<1>4. s \in clean' /\ task'[s] # Null /\ task'[s].role = "upgrade" => Fits(task[s])'
    BY <1>1, <1>3, RoleStays DEF CleanOK, Busy
<1> QED
    BY <1>2, <1>3, <1>4 DEF CleanOK

LEMMA StepClean ==
    ASSUME TInv, StampOK, CleanOK, NEW s \in Slots, Step(s)
    PROVE  CleanOK'
<1> USE DEF TInv
<1> DEFINE Fine == Fits(task[s])'
<1> SUFFICES ASSUME s \in clean', task[s].role = "upgrade", Fits(task[s]), task'[s] # Null
             PROVE  Fine
    BY CleanStep
<1>0. s \in Busy /\ task[s] \in Tasks /\ RoleOK(task[s])
    BY OthersStay DEF TasksOK, Busy
<1>1. ASSUME NEW step \in Steps, Goes(s, step)
      PROVE  Follows(task'[s], task[s], step) /\ task'[s].doomed = task[s].doomed
    BY <1>0, <1>1, RecordGoes DEF Follows
<1>2. ASSUME NEW step \in Steps, Ended(s, step)
      PROVE  LET t == task'[s] u == task[s]
             IN  t.at = step /\ t.to = u.to /\ t.from = u.from /\ t.backup = Null
    BY <1>0, <1>2, RecordEnded
<1>3. NoBackup(s) =>
          LET t == task'[s] u == task[s]
          IN  t.at = "revert" /\ t.from = u.from /\ t.backup = Null
    BY <1>0, RecordNoBackup
<1>4. CASE Reclaim(s)
  <2>0. task[s].at = "reclaim"
      BY <1>4 DEF Reclaim, At
  <2>1. CASE Goes(s, "dump")
    <3>1. Follows(task'[s], task[s], "dump") /\ task'[s].doomed = task[s].doomed
        BY <2>1, <1>1 DEF Steps
    <3> QED
        BY <1>4, <1>0, <2>0, <2>1, <3>1 DEF Reclaim, Follows, Fits, ImageFits, BackupFits, TagFits, Picking, Changing, Taking, Returning, site, store, told, history, Pruned
  <2>2. CASE Fails(s)
    <3>1. Follows(task'[s], task[s], "revert") /\ task'[s].doomed = task[s].doomed
        BY <2>2, <1>1 DEF Steps, Fails
    <3> QED
        BY <1>4, <1>0, <2>0, <2>2, <3>1 DEF Reclaim, Follows, Fits, ImageFits, BackupFits, TagFits, Picking, Changing, Taking, Returning, site, store, told, history, Pruned, Fails, Says
  <2> QED
      BY <1>4, <2>1, <2>2 DEF Reclaim
<1>5. CASE SetEnv(s)
  <2>0. task[s].at = "env"
      BY <1>5 DEF SetEnv, At
  <2>1. CASE env' = Written(task[s].to) /\ Goes(s, "pull")
    <3>1. Follows(task'[s], task[s], "pull") /\ task'[s].doomed = task[s].doomed
        BY <2>1, <1>1 DEF Steps
    <3> QED
        BY <1>5, <1>0, <2>0, <2>1, <3>1 DEF SetEnv, Follows, Fits, ImageFits, BackupFits, TagFits, Picking, Changing, Taking, Returning, site, store, told, history, Written
  <2>2. CASE Fails(s)
    <3>1. Follows(task'[s], task[s], "revert") /\ task'[s].doomed = task[s].doomed
        BY <2>2, <1>1 DEF Steps, Fails
    <3> QED
        BY <1>5, <1>0, <2>0, <2>2, <3>1 DEF SetEnv, Follows, Fits, ImageFits, BackupFits, TagFits, Picking, Changing, Taking, Returning, site, store, told, history, Fails, Says, Tears
  <2> QED
      BY <1>5, <2>1, <2>2 DEF SetEnv
<1>6. CASE Pull(s)
  <2>0. task[s].at = "pull"
      BY <1>6 DEF Pull, At
  <2>3. images \subseteq images' /\ UNCHANGED <<env, app, db, store>>
      BY <1>6 DEF Pull, Fetch
  <2>1. CASE Goes(s, "up")
    <3>1. Follows(task'[s], task[s], "up") /\ task'[s].doomed = task[s].doomed
        BY <2>1, <1>1 DEF Steps
    <3> QED
        BY <1>6, <1>0, <2>0, <2>1, <3>1 DEF Pull, Follows, Fits, ImageFits, BackupFits, TagFits, Picking, Changing, Taking, Returning, site, store, told, history, Fetch
  <2>2. CASE Fails(s)
    <3>1. Follows(task'[s], task[s], "revert") /\ task'[s].doomed = task[s].doomed
        BY <2>2, <1>1 DEF Steps, Fails
    <3> QED
        BY <2>0, <2>3, <3>1 DEF Follows, Fits, ImageFits, BackupFits, TagFits, Picking, Changing, Taking, Returning, store
  <2> QED
      BY <1>6, <2>1, <2>2 DEF Pull
<1>7. CASE Up(s)
  <2>0. task[s].at = "up"
      BY <1>7 DEF Up, At
  <2>1. CASE Recreate /\ Goes(s, "verify") /\ UNCHANGED told
    <3>1. Follows(task'[s], task[s], "verify") /\ task'[s].doomed = task[s].doomed
        BY <2>1, <1>1 DEF Steps
    <3>2. env \in {task[s].to, Torn} /\ task[s].to # Latest
        BY <1>0, <2>0, NamesAssumption DEF Fits, TagFits, Tasks
    <3>3. /\ env' = task[s].to /\ app' = task[s].to
          /\ images \subseteq images' /\ UNCHANGED store
        BY <1>7, <2>1, <3>2 DEF Up, Recreate, Fetch
    <3> QED
        BY <2>0, <3>1, <3>3 DEF Follows, Fits, ImageFits, BackupFits, TagFits, Picking, Changing, Taking, Returning, store
  <2>2. CASE Recreate /\ Fails(s)
    <3>1. Follows(task'[s], task[s], "revert") /\ task'[s].doomed = task[s].doomed
        BY <2>2, <1>1 DEF Steps, Fails
    <3> QED
        BY <1>7, <1>0, <2>0, <2>2, <3>1 DEF Up, Follows, Fits, ImageFits, BackupFits, TagFits, Picking, Changing, Taking, Returning, site, store, told, history, Recreate, Fetch, Says, Fails
  <2>3. CASE UNCHANGED <<app, db, images, latest>> /\ Fails(s)
    <3>1. Follows(task'[s], task[s], "revert") /\ task'[s].doomed = task[s].doomed
        BY <2>3, <1>1 DEF Steps, Fails
    <3> QED
        BY <1>7, <1>0, <2>0, <2>3, <3>1 DEF Up, Follows, Fits, ImageFits, BackupFits, TagFits, Picking, Changing, Taking, Returning, site, store, told, history, Says, Fails
  <2> QED
      BY <1>7, <2>1, <2>2, <2>3 DEF Up
<1>8. CASE Verify(s)
  <2>0. task[s].at = "verify"
      BY <1>8 DEF Verify, At
  <2>1. CASE Runs(app, db.schema) /\ Ended(s, "won") /\ Says("success") /\ lived' = lived \cup {app}
    <3>1. LET t == task'[s] u == task[s]
          IN  t.at = "won" /\ t.to = u.to /\ t.from = u.from /\ t.backup = Null
        BY <2>1, <1>2 DEF Steps
    <3> QED
        BY <1>8, <1>0, <2>0, <2>1, <3>1 DEF Verify, Follows, Fits, ImageFits, BackupFits, TagFits, Picking, Changing, Taking, Returning, site, store, told, history, Says
  <2>2. CASE Fails(s)
    <3>1. Follows(task'[s], task[s], "revert") /\ task'[s].doomed = task[s].doomed
        BY <2>2, <1>1 DEF Steps, Fails
    <3> QED
        BY <1>8, <1>0, <2>0, <2>2, <3>1 DEF Verify, Follows, Fits, ImageFits, BackupFits, TagFits, Picking, Changing, Taking, Returning, site, store, told, history, Fails, Says
  <2> QED
      BY <1>8, <2>1, <2>2 DEF Verify
<1>9. CASE Revert(s)
  <2>0. task[s].at = "revert"
      BY <1>9 DEF Revert, At
  <2>1. CASE env' = Written(task[s].from) /\ Goes(s, "repull")
    <3>1. Follows(task'[s], task[s], "repull") /\ task'[s].doomed = task[s].doomed
        BY <2>1, <1>1 DEF Steps
    <3> QED
        BY <1>9, <1>0, <2>0, <2>1, <3>1 DEF Revert, Follows, Fits, ImageFits, BackupFits, TagFits, Picking, Changing, Taking, Returning, site, store, told, history, Written
  <2>2. CASE Lost(s, "failed")
    <3>1. LET t == task'[s] u == task[s]
          IN  t.at = "lost" /\ t.to = u.to /\ t.from = u.from /\ t.backup = Null
        BY <2>2, <1>2 DEF Steps, Lost
    <3> QED
        BY <1>9, <1>0, <2>0, <2>2, <3>1 DEF Revert, Follows, Fits, ImageFits, BackupFits, TagFits, Picking, Changing, Taking, Returning, site, store, told, history, Lost, Says
  <2> QED
      BY <1>9, <2>1, <2>2 DEF Revert
<1>10. CASE Repull(s)
  <2>0. task[s].at = "repull"
      BY <1>10 DEF Repull, At
  <2>1. CASE Goes(s, "reup")
    <3>1. Follows(task'[s], task[s], "reup") /\ task'[s].doomed = task[s].doomed
        BY <2>1, <1>1 DEF Steps
    <3> QED
        BY <1>10, <1>0, <2>0, <2>1, <3>1 DEF Repull, Follows, Fits, ImageFits, BackupFits, TagFits, Picking, Changing, Taking, Returning, site, store, told, history, Fetch
  <2> QED
      BY <1>10, <2>1 DEF Repull
<1>11. CASE Reup(s, "reup", "recheck")
  <2>0. task[s].at = "reup"
      BY <1>11 DEF Reup, At
  <2>1. CASE Recreate /\ Goes(s, "recheck") /\ UNCHANGED told
    <3>1. Follows(task'[s], task[s], "recheck") /\ task'[s].doomed = task[s].doomed
        BY <2>1, <1>1 DEF Steps
    <3> QED
        BY <1>11, <1>0, <2>0, <2>1, <3>1 DEF Reup, Follows, Fits, ImageFits, BackupFits, TagFits, Picking, Changing, Taking, Returning, site, store, told, history, Recreate, Fetch, Named
  <2>2. CASE UNCHANGED <<app, db, images, latest>> /\ Lost(s, "failed")
    <3>1. LET t == task'[s] u == task[s]
          IN  t.at = "lost" /\ t.to = u.to /\ t.from = u.from /\ t.backup = Null
        BY <2>2, <1>2 DEF Steps, Lost
    <3> QED
        BY <1>11, <1>0, <2>0, <2>2, <3>1 DEF Reup, Follows, Fits, ImageFits, BackupFits, TagFits, Picking, Changing, Taking, Returning, site, store, told, history, Lost, Says
  <2> QED
      BY <1>11, <2>1, <2>2 DEF Reup
<1>12. CASE Reup(s, "reup2", "recheck2")
  <2>0. task[s].at = "reup2"
      BY <1>12 DEF Reup, At
  <2>1. CASE Recreate /\ Goes(s, "recheck2") /\ UNCHANGED told
    <3>1. Follows(task'[s], task[s], "recheck2") /\ task'[s].doomed = task[s].doomed
        BY <2>1, <1>1 DEF Steps
    <3> QED
        BY <1>12, <1>0, <2>0, <2>1, <3>1 DEF Reup, Follows, Fits, ImageFits, BackupFits, TagFits, Picking, Changing, Taking, Returning, site, store, told, history, Recreate, Fetch, Named
  <2>2. CASE UNCHANGED <<app, db, images, latest>> /\ Lost(s, "failed")
    <3>1. LET t == task'[s] u == task[s]
          IN  t.at = "lost" /\ t.to = u.to /\ t.from = u.from /\ t.backup = Null
        BY <2>2, <1>2 DEF Steps, Lost
    <3> QED
        BY <1>12, <1>0, <2>0, <2>2, <3>1 DEF Reup, Follows, Fits, ImageFits, BackupFits, TagFits, Picking, Changing, Taking, Returning, site, store, told, history, Lost, Says
  <2> QED
      BY <1>12, <2>1, <2>2 DEF Reup
<1>13. CASE Recheck(s)
  <2>0. task[s].at = "recheck"
      BY <1>13 DEF Recheck, At
  <2>1. CASE Runs(app, db.schema) /\ Lost(s, "rolled_back")
    <3>1. LET t == task'[s] u == task[s]
          IN  t.at = "lost" /\ t.to = u.to /\ t.from = u.from /\ t.backup = Null
        BY <2>1, <1>2 DEF Steps, Lost
    <3> QED
        BY <1>13, <1>0, <2>0, <2>1, <3>1 DEF Recheck, Follows, Fits, ImageFits, BackupFits, TagFits, Picking, Changing, Taking, Returning, site, store, told, history, Lost, Says, Named
  <2>2. CASE Lost(s, "failed")
    <3>1. LET t == task'[s] u == task[s]
          IN  t.at = "lost" /\ t.to = u.to /\ t.from = u.from /\ t.backup = Null
        BY <2>2, <1>2 DEF Steps, Lost
    <3> QED
        BY <1>13, <1>0, <2>0, <2>2, <3>1 DEF Recheck, Follows, Fits, ImageFits, BackupFits, TagFits, Picking, Changing, Taking, Returning, site, store, told, history, Lost, Says
  <2>3. CASE Goes(s, "restore") /\ UNCHANGED told
    <3>1. Follows(task'[s], task[s], "restore") /\ task'[s].doomed = task[s].doomed
        BY <2>3, <1>1 DEF Steps
    <3> QED
        BY <1>13, <1>0, <2>0, <2>3, <3>1 DEF Recheck, Follows, Fits, ImageFits, BackupFits, TagFits, Picking, Changing, Taking, Returning, site, store, told, history
  <2> QED
      BY <1>13, <2>1, <2>2, <2>3 DEF Recheck
<1>14. CASE RestoreOld(s)
  <2>0. task[s].at = "restore"
      BY <1>14 DEF RestoreOld, At
  <2>1. CASE Goes(s, "reup2")
    <3>1. Follows(task'[s], task[s], "reup2") /\ task'[s].doomed = task[s].doomed
        BY <2>1, <1>1 DEF Steps
    <3> QED
        BY <1>14, <1>0, <2>0, <2>1, <3>1 DEF RestoreOld, Follows, Fits, ImageFits, BackupFits, TagFits, Picking, Changing, Taking, Returning, site, store, told, history
  <2> QED
      BY <1>14, <2>1 DEF RestoreOld
<1>15. CASE Recheck2(s)
  <2>0. task[s].at = "recheck2"
      BY <1>15 DEF Recheck2, At
  <2>1. CASE Runs(app, db.schema) /\ Lost(s, "rolled_back")
    <3>1. LET t == task'[s] u == task[s]
          IN  t.at = "lost" /\ t.to = u.to /\ t.from = u.from /\ t.backup = Null
        BY <2>1, <1>2 DEF Steps, Lost
    <3> QED
        BY <1>15, <1>0, <2>0, <2>1, <3>1 DEF Recheck2, Follows, Fits, ImageFits, BackupFits, TagFits, Picking, Changing, Taking, Returning, site, store, told, history, Lost, Says, Named
  <2>2. CASE Lost(s, "failed")
    <3>1. LET t == task'[s] u == task[s]
          IN  t.at = "lost" /\ t.to = u.to /\ t.from = u.from /\ t.backup = Null
        BY <2>2, <1>2 DEF Steps, Lost
    <3> QED
        BY <1>15, <1>0, <2>0, <2>2, <3>1 DEF Recheck2, Follows, Fits, ImageFits, BackupFits, TagFits, Picking, Changing, Taking, Returning, site, store, told, history, Lost, Says
  <2> QED
      BY <1>15, <2>1, <2>2 DEF Recheck2
<1>16. CASE Tidy(s, "won")
  <2>0. task[s].at = "won"
      BY <1>16 DEF Tidy, At
  <2>1. CASE Goes(s, "self")
    <3>1. Follows(task'[s], task[s], "self") /\ task'[s].doomed = task[s].doomed
        BY <2>1, <1>1 DEF Steps
    <3> QED
        BY <1>16, <1>0, <2>0, <2>1, <3>1 DEF Tidy, Follows, Fits, ImageFits, BackupFits, TagFits, Picking, Changing, Taking, Returning, site, store, told, history
  <2> QED
      BY <1>16, <2>1 DEF Tidy
<1>17. CASE Tidy(s, "lost") \/ SelfUpdate(s)
    BY <1>0, <1>17 DEF Tidy, SelfUpdate, Ends, Busy, TasksOK
<1>18. CASE Start(s)
  <2>1. /\ task'[s].at = "reclaim" /\ task'[s].from = Ref /\ task'[s].floor = db
        /\ task'[s].backup = task[s].backup
      BY <1>18, RecordStart
  <2>2. Pinned /\ UNCHANGED <<site, store>> /\ task[s].at = "asked"
    <3>1. clean' = IF Pinned THEN clean ELSE clean \ {s}
        BY <1>18 DEF Start
    <3> QED
        BY <1>18, <3>1 DEF Start, At
  <2>3. Ref \in Versions => app = Ref /\ Ref \in images
      BY <2>2, NamesAssumption DEF Ref, Pinned
  <2>4. db.work >= db.work
      BY DEF StateOK, Databases
  <2> QED
      BY <2>1, <2>2, <2>3, <2>4 DEF Fits, ImageFits, BackupFits, TagFits, Picking, Changing, Taking, Returning, site, store
<1>19. CASE Dump(s)
  <2>0. task[s].at = "dump" /\ UNCHANGED <<site, backups>>
      BY <1>19 DEF Dump, At
  <2>1. CASE NoBackup(s)
      BY <1>3, <2>0, <2>1 DEF Fits, ImageFits, BackupFits, TagFits, Picking, Changing, Taking, Returning, site
  <2>2. ASSUME NEW size \in Sizes, stamp' = stamp + 1,
               task' = [task EXCEPT ![s] =
                    [@ EXCEPT !.at = "pack", !.backup = [id |-> stamp + 1, db |-> db, size |-> size]]]
        PROVE  Fine
    <3>1. PICK b : b = [id |-> stamp + 1, db |-> db, size |-> size]
        OBVIOUS
    <3>2. /\ task'[s].at = "pack" /\ task'[s].backup = b
          /\ task'[s].from = task[s].from /\ task'[s].floor = task[s].floor
        BY <1>0, <2>2, <3>1, RecordDump
    <3>3. b.id = stamp' /\ b.db = db
        BY <2>2, <3>1
    <3>4. \A c \in backups' : c.id < stamp'
      <4>1. \A c \in backups : c.id \in Nat /\ c.id <= stamp
          BY DEF StampOK, StateOK, Backups
      <4> QED
          BY <2>0, <2>2, <4>1 DEF StateOK
    <3> QED
        BY <2>0, <3>2, <3>3, <3>4 DEF Fits, ImageFits, BackupFits, TagFits, Picking, Changing, Taking, Returning, site
  <2> QED
      BY <1>19, <2>1, <2>2 DEF Dump
<1>20. CASE Pack(s)
  <2>0. task[s].at = "pack" /\ UNCHANGED <<site, stamp>>
      BY <1>20 DEF Pack, At
  <2>1. CASE NoBackup(s) /\ UNCHANGED backups
      BY <1>3, <2>0, <2>1 DEF Fits, ImageFits, BackupFits, TagFits, Picking, Changing, Taking, Returning, site
  <2>2. CASE backups' = backups \cup {task[s].backup} /\ Goes(s, "list")
    <3>1. Follows(task'[s], task[s], "list")
        BY <2>2, <1>1 DEF Steps
    <3>2. task[s].backup \in Backups
        BY <1>0, <2>0 DEF RoleOK, Tasks
    <3>3. task[s].backup.id = stamp /\ \A b \in backups : b.id < stamp
        BY <2>0 DEF Fits, BackupFits
    <3>4. NewerThan(task[s].backup, backups') = {}
        BY <2>2, <3>2, <3>3 DEF NewerThan, StateOK, Backups
    <3> QED
        BY <2>0, <2>2, <3>1, <3>2, <3>4, NullAssumption DEF Follows, Fits, ImageFits, BackupFits, TagFits, Picking, Changing, Taking, Returning, site
  <2> QED
      BY <1>20, <2>1, <2>2 DEF Pack
<1>21. CASE List(s)
  <2>0. task[s].at = "list" /\ UNCHANGED <<site, store>>
      BY <1>21 DEF List, At
  <2>1. CASE NoBackup(s)
      BY <1>3, <2>0, <2>1 DEF Fits, ImageFits, BackupFits, TagFits, Picking, Changing, Taking, Returning, site
  <2>2. CASE Follows(task'[s], task[s], "prune") /\ task'[s].doomed = backups \ Retained(backups)
    <3>1. task[s].backup \in Retained(backups)
        BY <2>0 DEF Fits, BackupFits, Picking, Retained
    <3> QED
        BY <2>0, <2>2, <3>1 DEF Follows, Fits, ImageFits, BackupFits, TagFits, Picking, Changing, Taking, Returning, site, store
  <2> QED
      BY <1>21, <2>1, <2>2, RecordList
<1>22. CASE Prune(s)
  <2>1. task[s].at = "prune" /\ UNCHANGED site
      BY <1>22 DEF Prune, At
  <2>2. Follows(task'[s], task[s], "sync")
      BY <1>0, <1>22, RecordPrune
  <2>3. task[s].backup \in backups'
      BY <1>22, <2>1 DEF Prune, Fits, BackupFits, Picking
  <2> QED
      BY <2>1, <2>2, <2>3 DEF Follows, Fits, ImageFits, BackupFits, TagFits, Picking, Changing, Taking, Returning, site
<1>23. CASE SyncRead(s) \/ SyncWrite(s) \/ SyncRecord(s)
  <2>1. UNCHANGED <<site, store>> /\ task[s].at \in Booting
      BY <1>23 DEF SyncRead, SyncWrite, SyncRecord, At, Booting
  <2>2. \E step \in {"write", "record", "env"} : Follows(task'[s], task[s], step)
      BY <1>0, <1>23, RecordRead, RecordWrite, RecordSynced DEF SyncRecord
  <2> QED
      BY <2>1, <2>2 DEF Follows, Booting, Fits, ImageFits, BackupFits, TagFits, Picking, Changing, Taking, Returning, site, store
<1> QED
    BY <1>4, <1>5, <1>6, <1>7, <1>8, <1>9, <1>10, <1>11, <1>12, <1>13, <1>14, <1>15, <1>16, <1>17, <1>18, <1>19, <1>20, <1>21, <1>22, <1>23 DEF Step

LEMMA CleanBegins ==
    ASSUME TasksOK, NEW s \in Slots, NEW t \in Tasks, Begins(s, t),
           t.role # "upgrade" \/ (t.at = "asked" /\ t.backup = Null)
    PROVE  CleanOK'
<1>1. \A r \in Slots : task'[r] = IF r = s THEN t ELSE task[r]
    BY DEF TasksOK, Begins
<1>2. \A r \in clean' : r = s /\ Busy = {}
    BY DEF Begins
<1>3. Busy = {} => \A r \in Busy' : r = s
    BY <1>1 DEF Busy
<1>4. task'[s].role = "upgrade" => Fits(task[s])'
    BY <1>1 DEF Fits, ImageFits, BackupFits, TagFits, Picking, Changing, Taking, Returning
<1> QED
    BY <1>2, <1>3, <1>4 DEF CleanOK

LEMMA CleanStays ==
    ASSUME CleanOK, UNCHANGED <<site, store, told, task, clean, lived>>
    PROVE  CleanOK'
BY DEF CleanOK, Fits, ImageFits, BackupFits, TagFits, Named, Busy, site, store, told

LEMMA CleanKept == TInv /\ StampOK /\ CleanOK /\ [Next]_vars => CleanOK'
<1> SUFFICES ASSUME TInv, StampOK, CleanOK, [Next]_vars PROVE CleanOK'
    OBVIOUS
<1>1. ASSUME NEW s \in Slots, Step(s) PROVE CleanOK'
    BY <1>1, StepClean
<1>2. ASSUME NEW s \in Slots, NEW v \in Versions, Ask(s, v) PROVE CleanOK'
  <2>0. Ref \in Refs
      BY DEF Ref, TInv, StateOK, Refs
  <2>1. /\ New("upgrade", "asked", v, Ref) \in Tasks
        /\ New("upgrade", "asked", v, Ref).at = "asked" /\ New("upgrade", "asked", v, Ref).backup = Null
      BY <2>0, NewTask DEF Steps, New
  <2> QED
      BY <1>2, <2>1, CleanBegins DEF Ask, TInv
<1>3. ASSUME NEW s \in Slots, Save(s) PROVE CleanOK'
  <2>0. 0 \in Versions
      BY VersionsAssumption DEF Versions
  <2>1. New("save", "dump", 0, Null) \in Tasks
      BY <2>0, NewTask DEF Steps
  <2>2. New("save", "dump", 0, Null).role = "save"
      BY DEF New
  <2> QED
      BY <1>3, <2>1, <2>2, CleanBegins DEF Save, TInv
<1>4. ASSUME NEW b \in backups, Delete(b) PROVE CleanOK'
    BY <1>4 DEF Delete, CleanOK
<1>5. ASSUME NEW b \in backups, Restore(b) PROVE CleanOK'
    BY <1>5 DEF Restore, CleanOK
<1>6. CASE Edit
    BY <1>6, CleanStays DEF Edit
<1>7. CASE Work
  <2>1. /\ db'.schema = db.schema /\ db'.work = db.work + 1 /\ db.work \in Nat
        /\ UNCHANGED <<env, app, images, latest, store, told, task, clean, lived>>
      BY <1>7 DEF Work, TInv, StateOK, Databases, history
  <2>2. \A t \in Tasks : Fits(t) => Fits(t)'
    <3> SUFFICES ASSUME NEW t \in Tasks, Fits(t) PROVE Fits(t)'
        OBVIOUS
    <3>1. t.floor.work \in Nat
        BY DEF Tasks, Databases
    <3>2. db.work >= t.floor.work => db'.work >= t.floor.work
        BY <2>1, <3>1
    <3> QED
        BY <2>1, <3>2 DEF Fits, ImageFits, BackupFits, TagFits, Named, store, told
  <2>3. \A r \in Busy : task[r] \in Tasks
      BY DEF TInv, TasksOK, Busy
  <2>4. \A r \in Busy : Fits(task[r]) => Fits(task[r])'
      BY <2>1, <2>2, <2>3 DEF Fits, ImageFits, BackupFits, TagFits, Named
  <2>5. \A r \in clean : r \in Slots
      BY DEF TInv, StateOK
  <2> QED
      BY <2>1, <2>4, <2>5 DEF CleanOK, Busy
<1>8. CASE Replaced
    BY <1>8 DEF Replaced, Reboots, CleanOK
<1>9. CASE Crash
    BY <1>9 DEF Crash, Reboots, CleanOK
<1>10. CASE UNCHANGED vars
    BY <1>10, CleanStays DEF vars, history
<1> QED
    BY <1>1, <1>2, <1>3, <1>4, <1>5, <1>6, <1>7, <1>8, <1>9, <1>10 DEF Next

LEMMA InitClean == Init => CleanOK
BY DEF Init, CleanOK

(* An upgrade nothing interferes with finds what its rollback needs: the    *)
(* image of a pinned tag, and the backup.                                   *)
THEOREM RollbackAlwaysReady == Spec => []RollbackReady
<1>1. CleanOK => RollbackReady
  <2> SUFFICES ASSUME CleanOK, NEW s \in clean \cap Upgrading, task[s].at \in Changing
               PROVE  LET t == task[s]
                      IN  /\ t.from \in Versions => t.from \in images
                          /\ t.backup = Null => t.at \notin Taking
                          /\ t.backup # Null =>
                               /\ t.backup \in backups
                               /\ t.backup.db.work >= t.floor.work
                               /\ t.from \in Versions /\ Runs(t.from, t.floor.schema) =>
                                    Runs(t.from, t.backup.db.schema)
      BY DEF RollbackReady
  <2>1. Fits(task[s])
      BY DEF CleanOK, Upgrading, Busy
  <2> QED
      BY <2>1 DEF Fits, ImageFits, BackupFits
<1> QED
    BY <1>1, InitTypes, TypesKept, InitDoom, StampKept, DoomKept, InitClean, CleanKept, PTL DEF Spec

(* The outcome an upgrade tells is the true one, however its steps fail.    *)
THEOREM OutcomeAlwaysTrue == Spec => []OutcomeTrue
<1>1. CleanOK => OutcomeTrue
  <2> SUFFICES ASSUME CleanOK, NEW s \in clean \cap Upgrading
               PROVE  /\ task[s].at \in {"won", "self"} =>
                           status.is = "success" /\ {env, app} = {task[s].to} /\ Runs(app, db.schema)
                      /\ task[s].at = "lost" =>
                           /\ status.is \in {"rolled_back", "failed"}
                           /\ status.is = "rolled_back" =>
                                env = task[s].from /\ app = Named(env) /\ Runs(app, db.schema)
      BY DEF OutcomeTrue
  <2>1. Fits(task[s])
      BY DEF CleanOK, Upgrading, Busy
  <2> QED
      BY <2>1 DEF Fits, TagFits
<1> QED
    BY <1>1, InitTypes, TypesKept, InitDoom, StampKept, DoomKept, InitClean, CleanKept, PTL DEF Spec

(* The updater only moves to a release that has run here, unless another    *)
(* task was under way as well.                                              *)
THEOREM FollowsSuccess == Spec => UpdaterFollows
<1>1. ASSUME TInv, CleanOK, [Next]_vars
      PROVE  [next' # next => next' \in lived \/ \E s \in Slots \ clean : At(s, "self")]_vars
  <2> SUFFICES ASSUME next' # next PROVE next' \in lived \/ \E s \in Slots \ clean : At(s, "self")
      BY <1>1
  <2>1. ASSUME NEW s \in Slots, Step(s), ~SelfUpdate(s) PROVE next' = next
      BY <2>1 DEF Step, Start, Reclaim, Dump, Pack, List, Prune, SyncRead, SyncWrite, SyncRecord, SetEnv, Pull, Up,
                  Verify, Revert, Repull, Reup, Recheck, RestoreOld, Recheck2, Tidy, self
  <2>2. ASSUME NEW s \in Slots, NEW v \in Versions, Save(s) \/ Ask(s, v) PROVE next' = next
      BY <2>2 DEF Save, Ask, self
  <2>3. ASSUME NEW b \in backups, Delete(b) \/ Restore(b) PROVE next' = next
      BY <2>3 DEF Delete, Restore, self
  <2>4. Edit \/ Work \/ Replaced \/ Crash \/ UNCHANGED vars => next' = next
      BY DEF Edit, Work, Replaced, Crash, Reboots, vars, self
  <2>5. PICK s \in Slots : Step(s) \/ Save(s) \/ \E v \in Versions : Ask(s, v)
      BY <1>1, <2>3, <2>4 DEF Next
  <2>6. CASE Save(s) \/ \E v \in Versions : Ask(s, v)
    <3>1. PICK v \in Versions : Save(s) \/ Ask(s, v)
        BY <2>6, VersionsAssumption DEF Versions
    <3> QED
        BY <2>2, <3>1
  <2>7. CASE SelfUpdate(s)
    <3>1. At(s, "self") /\ next' = task[s].to
        BY <2>7 DEF SelfUpdate, self
    <3>2. task[s].role = "upgrade" /\ s \in Busy
        BY <1>1, <3>1, TaskAt DEF TInv, Saving, Booting
    <3>3. s \in clean => task[s].to \in lived
        BY <1>1, <3>1, <3>2 DEF CleanOK, Fits, TagFits, At, Busy
    <3> QED
        BY <3>1, <3>3
  <2> QED
      BY <2>1, <2>5, <2>6, <2>7
<1> QED
    BY <1>1, InitTypes, TypesKept, InitDoom, StampKept, DoomKept, InitClean, CleanKept, PTL DEF Spec, UpdaterFollows
=============================================================================
