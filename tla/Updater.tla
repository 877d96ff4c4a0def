------------------------------ MODULE Updater ------------------------------
(***************************************************************************)
(* The updater sidecar of a docker-compose install (deploy/updater):       *)
(* one-click upgrades with their rollback, full backups with retention,    *)
(* restores, the sync of the release's deploy files, and the updater's     *)
(* replacement of itself.  A task is one request, or the boot-time sync,   *)
(* and each of its steps is what it does between two awaits that matter.   *)
(* A version stands for its api and studio images, which go together.      *)
(***************************************************************************)
EXTENDS Naturals, FiniteSets, FiniteSetsExt

CONSTANTS
    Slots,          \* tasks under way at a time (a bound)
    Last,           \* the newest release; 0 is the one installed
    Bad,            \* releases whose API never becomes healthy
    Breaking,       \* releases whose migration an older API cannot run on
    Shipped,        \* releases whose deploy files are in KNOWN_STOCK
    Keep,           \* BACKUP_KEEP
    Sizes, Cap,     \* sizes of a backup, and BACKUP_MAX_GB
    Starts,         \* installs to start from: tag, deploy files, and how often each
                    \* outside event may happen (bounds)
    Patient,        \* does nobody ask for an upgrade while a task is under way (a bound)?
    Latest,         \* the tag `:latest', which install.sh writes unless it is told otherwise
    Torn,           \* an .env cut short by a failed write
    Custom,         \* deploy files no release has: edited, cut short, or of a later commit
    Null

Versions == 0..Last
Refs == Versions \cup {Latest}
Events == {"ask", "save", "delete", "restore", "edit", "work", "crash"}

ASSUME VersionsAssumption == Last \in Nat /\ Bad \cup Breaking \cup Shipped \subseteq Versions
ASSUME StoreAssumption == Keep \in Nat /\ Cap \in Nat /\ Sizes \subseteq Nat
ASSUME NamesAssumption ==
    /\ Versions \cap {Latest, Torn, Custom, Null} = {}
    /\ Latest \notin {Torn, Null} /\ Torn # Null /\ Custom \notin {Latest, Null}
    /\ Patient \in BOOLEAN
\* What install.sh leaves: a pinned or unpinned tag, deploy files of the main branch.
ASSUME StartsAssumption ==
    Starts \subseteq [env : {0, Latest}, config : {0, Custom}, left : [Events -> Nat]]

VARIABLES
    env,        \* the tag .env names, or Torn
    app,        \* the version of the api and studio containers
    db,         \* the newest release that migrated it, and the work stored in it
    images,     \* the releases in the local image store under their own tag
    latest,     \* the release stored under :latest, or Null
    backups,    \* the backups listed
    stamp,      \* the number of the newest backup begun
    config,     \* the release the deploy files are from, or Custom
    synced,     \* config-sync.json: the release synced to, the file written
    status,     \* upgrade-status.json
    awake,      \* does the process hold it in memory (job)?
    next,       \* the tag .env names for the updater
    helper,     \* is the helper container about to recreate the updater?
    task,       \* the tasks under way
    left,       \* the bounds left
    lived,      \* history variable: versions that answered healthy to an upgrade
    clean,      \* history variable: tasks that nothing else has interfered with
    tangled,    \* history variable: did a sync ever overlap with another, a
                \* stop or somebody's edit?
    unsaved,    \* history variable: was the last sync not recorded, nor one since?
    undercut    \* history variable: was a backup deleted by somebody since others that
                \* still are to go were picked?

site == <<env, app, db, images, latest>>
store == <<backups, stamp>>
files == <<config, synced>>
told == <<status, awake>>
self == <<next, helper>>
history == <<lived, clean, tangled, unsaved, undercut>>
vars == <<site, store, files, told, self, task, left, history>>

Databases == [schema : Versions, work : Nat]
Backups == [id : Nat, db : Databases, size : Sizes]
Steps == {"asked", "reclaim", "dump", "pack", "list", "prune", "sync", "write", "record", "env", "pull",
          "up", "verify", "revert", "repull", "reup", "recheck", "restore", "reup2", "recheck2", "won",
          "lost", "self"}
Tasks == [role : {"upgrade", "save", "boot"}, at : Steps, to : Versions, from : Refs \cup {Null},
          backup : {Null} \cup Backups, doomed : SUBSET Backups, floor : Databases,
          plan : {"-", "write", "same", "leave"}, hash : Versions \cup {Null}]
ASSUME NullAssumption == Null \notin Backups \cup Tasks
States == {"idle", "running", "rolling_back", "success", "rolled_back", "failed"}

Busy == {s \in Slots : task[s] # Null}
At(s, step) == s \in Busy /\ task[s].at = step
Upgrading == {s \in Busy : task[s].role = "upgrade"}

\* Can this release's API start on a database migrated up to `schema`?
Runs(v, schema) == v \notin Bad /\ \A b \in Breaking : v >= b \/ schema < b

\* currentImages(): a key that is missing from .env stands for :latest.
Ref == IF env = Torn THEN Latest ELSE env

\* What a tag is the name of in the local image store.
Named(ref) == IF ref = Latest THEN latest ELSE ref
Stored(ref) == IF ref = Latest THEN latest # Null ELSE ref \in images

\* writeEnvKeys(): the other keys of a torn .env do not come back.
Written(ref) == IF env = Torn THEN Torn ELSE ref
Tears == env' \in {env, Torn}

-----------------------------------------------------------------------------
\* Slots are alike: a task takes the first one free.
First == CHOOSE s \in Slots : TRUE

Empty == [schema |-> 0, work |-> 0]

New(role, step, to, from) ==
    [role |-> role, at |-> step, to |-> to, from |-> from, backup |-> Null, doomed |-> {},
     floor |-> Empty, plan |-> "-", hash |-> Null]

\* The boot-time sync goes by the pinned tag of .env; FLOWCMS_VERSION is empty
\* (docker-compose.prod.yml), unless the operator adds it to .env.
Boots(due) ==
    task' = [r \in Slots |-> IF r = First /\ due THEN New("boot", "sync", env, synced.version) ELSE Null]

\* The site installed, no sync recorded; and the updater boots.
Init ==
    /\ \E start \in Starts : env = start.env /\ config = start.config /\ left = start.left
    /\ app = 0 /\ db = Empty
    /\ images = {0} \cap {env} /\ latest = IF env = Latest THEN 0 ELSE Null
    /\ backups = {} /\ stamp = 0
    /\ synced = [version |-> Null, hash |-> Null]
    /\ status = [is |-> "idle", to |-> 0] /\ awake = FALSE
    /\ next = env /\ helper = FALSE
    /\ task = [r \in Slots |-> IF r = First /\ env # Latest THEN New("boot", "sync", env, Null) ELSE Null]
    /\ lived = {0} /\ clean = {} /\ tangled = FALSE /\ unsaved = TRUE /\ undercut = FALSE

Spend(event) == left[event] > 0 /\ left' = [left EXCEPT ![event] = @ - 1]
Goes(s, step) == task' = [task EXCEPT ![s] = [@ EXCEPT !.at = step]]
Ended(s, step) == task' = [task EXCEPT ![s] = [@ EXCEPT !.at = step, !.backup = Null, !.floor = Empty]]
Ends(s) == task' = [task EXCEPT ![s] = Null]
Says(is) == status' = [status EXCEPT !.is = is] /\ awake' = TRUE

\* A task begins while others may be under way; clean are those that were and stay alone.
Begins(s, t) ==
    /\ Busy # Slots /\ s = CHOOSE r \in Slots : task[r] = Null
    /\ task' = [task EXCEPT ![s] = t]
    /\ clean' = IF Busy = {} THEN {s} ELSE {}

-----------------------------------------------------------------------------
(* Asking for an upgrade: the guard on `job`, then, after .env was read,   *)
(* the status and the first step of the pipeline.                          *)
Ask(s, v) ==
    /\ ~(awake /\ status.is = "running")
    /\ Patient => Busy = {} /\ ~helper
    /\ Spend("ask")
    /\ Begins(s, New("upgrade", "asked", v, Ref))
    /\ UNCHANGED <<site, store, files, told, self, lived, tangled, unsaved, undercut>>

\* Does a pinned tag name what runs, from the local store?
Pinned == env \in Versions => env = app /\ env \in images

Start(s) ==
    /\ At(s, "asked")
    /\ task' = [task EXCEPT ![s] = [@ EXCEPT !.at = "reclaim", !.from = Ref, !.floor = db]]
    /\ status' = [is |-> "running", to |-> task[s].to] /\ awake' = TRUE
    /\ clean' = IF Pinned THEN clean ELSE clean \ {s}
    /\ UNCHANGED <<site, store, files, self, left, lived, tangled, unsaved, undercut>>

\* A step of the pipeline throws: rollback() begins.
Fails(s) == Goes(s, "revert") /\ Says("rolling_back")

\* docker image prune -a keeps what a container uses; it may fail.
Pruned ==
    \/ images' = images \cap {app} /\ latest' = IF latest = app THEN latest ELSE Null
    \/ UNCHANGED <<images, latest>>

Reclaim(s) ==
    /\ At(s, "reclaim")
    /\ Pruned
    /\ \/ Goes(s, "dump") /\ UNCHANGED told
       \/ Fails(s)      \* too little space left
    /\ UNCHANGED <<env, app, db, store, files, self, left, history>>

-----------------------------------------------------------------------------
(* Backups, for an upgrade or asked for by an administrator.               *)
Save(s) ==
    /\ Spend("save")
    /\ Begins(s, New("save", "dump", 0, Null))
    /\ UNCHANGED <<site, store, files, told, self, lived, tangled, unsaved, undercut>>

\* createBackup() throws.
NoBackup(s) ==
    IF task[s].role = "save"
    THEN Ends(s) /\ UNCHANGED told
    ELSE /\ task' = [task EXCEPT ![s] = [@ EXCEPT !.at = "revert", !.backup = Null]]
         /\ Says("rolling_back")

Dump(s) ==
    /\ At(s, "dump")
    /\ \/ \E size \in Sizes :
            /\ stamp' = stamp + 1
            /\ task' = [task EXCEPT ![s] =
                    [@ EXCEPT !.at = "pack",
                              !.backup = [id |-> stamp + 1, db |-> db, size |-> size]]]
            /\ UNCHANGED told
       \/ NoBackup(s) /\ UNCHANGED stamp
    /\ UNCHANGED <<site, backups, files, self, left, history>>

Pack(s) ==
    /\ At(s, "pack")
    /\ \/ backups' = backups \cup {task[s].backup} /\ Goes(s, "list") /\ UNCHANGED told
       \/ NoBackup(s) /\ UNCHANGED backups
    /\ UNCHANGED <<site, stamp, files, self, left, history>>

NewerThan(b, all) == {c \in all : c.id > b.id}

\* pruneBackups() keeps the newest, and the others while they fit both limits.
Retained(all) ==
    {b \in all :
        LET newer == NewerThan(b, all)
        IN  \/ newer = {}
            \/ /\ Cardinality(newer) < Keep
               /\ b.size + MapThenSumSet(LAMBDA c : c.size, newer) <= Cap}

Pruning == {s \in Busy : task[s].at = "prune"}

\* It picks from what it lists, and then deletes what it picked, as far as it can.
List(s) ==
    /\ At(s, "list")
    /\ \/ /\ task' = [task EXCEPT ![s] = [@ EXCEPT !.at = "prune", !.doomed = backups \ Retained(backups)]]
          /\ UNCHANGED told
       \/ NoBackup(s)
    /\ UNCHANGED <<site, store, files, self, left, history>>

Prune(s) ==
    /\ At(s, "prune")
    /\ \E gone \in SUBSET task[s].doomed : backups' = backups \ gone
    /\ IF task[s].role = "save"
       THEN Ends(s)
       ELSE task' = [task EXCEPT ![s] = [@ EXCEPT !.at = "sync", !.doomed = {}]]
    /\ undercut' = (undercut /\ Pruning # {s})
    /\ UNCHANGED <<site, stamp, files, told, self, left, lived, clean, tangled, unsaved>>

\* An administrator deletes a backup.
Delete(b) ==
    /\ Spend("delete")
    /\ backups' = backups \ {b}
    /\ clean' = {}
    /\ undercut' = (Pruning # {})
    /\ UNCHANGED <<site, stamp, files, told, self, task, lived, tangled, unsaved>>

\* What comes back of a backup.  createBackup() waits for the end of pg_dump, and
\* not until the last of the dump is in the file: so it may be a part, without the work.
Restored(b) ==
    {b.db} \cup {[schema |-> v, work |-> 0] : v \in {b.db.schema, db.schema}}

\* A restore asked for by an administrator; the studio never asks for .env back.
Restore(b) ==
    /\ Spend("restore")
    /\ db' \in Restored(b)
    /\ clean' = {}
    /\ UNCHANGED <<env, app, images, latest, store, files, told, self, task, lived, tangled, unsaved, undercut>>

-----------------------------------------------------------------------------
(* The deploy files follow the release: read and decide, write, record.    *)
Syncing == {s \in Busy : task[s].at \in {"write", "record"}}

Stock(s) == config \in Shipped \cup {synced.hash, task[s].from}

\* What the sync will do; a release's file that cannot be had is left alone.
SyncRead(s) ==
    /\ At(s, "sync")
    /\ \E plan \in {"write", "same", "leave"} :
         /\ plan = "same" => config = task[s].to
         /\ plan = "write" => config # task[s].to /\ Stock(s)
         /\ task' = [task EXCEPT ![s] =
                 [@ EXCEPT !.at = "write", !.plan = plan, !.hash = synced.hash]]
    /\ tangled' = (tangled \/ Syncing # {})
    /\ UNCHANGED <<site, store, files, told, self, left, lived, clean, unsaved, undercut>>

\* A write that fails may have cut the file short; the hash stays what it was.
SyncWrite(s) ==
    /\ At(s, "write")
    /\ \/ /\ config' = IF task[s].plan = "write" THEN task[s].to ELSE config
          /\ Goes(s, "record")
       \/ /\ task[s].plan = "write"
          /\ config' \in {config, Custom}
          /\ task' = [task EXCEPT ![s] = [@ EXCEPT !.at = "record", !.plan = "leave"]]
    /\ UNCHANGED <<site, store, synced, told, self, left, history>>

Synced(s) ==
    IF task[s].role = "boot"
    THEN Ends(s)
    ELSE task' = [task EXCEPT ![s] = [@ EXCEPT !.at = "env", !.plan = "-", !.hash = Null]]

Blank == [version |-> Null, hash |-> Null]

SyncForgetsMutant(s) ==
    /\ At(s, "record")
    /\ synced' = [version |-> task[s].to, hash |-> task[s].hash]
    /\ unsaved' = (unsaved /\ task[s].plan = "leave")
    /\ Synced(s)
    /\ UNCHANGED <<site, store, config, told, self, left, lived, clean, tangled, undercut>>

\* What was done is recorded, or that fails, and leaves the record before or none.
SyncRecord(s) ==
    /\ At(s, "record")
    /\ \/ /\ synced' = [version |-> task[s].to,
                        hash |-> IF task[s].plan = "leave" THEN task[s].hash ELSE task[s].to]
          /\ unsaved' = (unsaved /\ task[s].plan = "leave")
       \/ synced' \in {synced, Blank} /\ unsaved' = TRUE
    /\ Synced(s)
    /\ UNCHANGED <<site, store, config, told, self, left, lived, clean, tangled, undercut>>

\* The operator edits the deploy files.
Edit ==
    /\ Spend("edit")
    /\ config' = Custom
    /\ tangled' = (tangled \/ Syncing # {})
    /\ UNCHANGED <<site, store, synced, told, self, task, lived, clean, unsaved, undercut>>

-----------------------------------------------------------------------------
(* The new version: .env, the images, the containers, their health.        *)
SetEnv(s) ==
    /\ At(s, "env")
    /\ \/ env' = Written(task[s].to) /\ Goes(s, "pull") /\ UNCHANGED told
       \/ Tears /\ Fails(s)
    /\ UNCHANGED <<app, db, images, latest, store, files, self, left, history>>

\* compose pulls, and starts, what .env names by now; of :latest the registry
\* has any release.  It refuses a torn .env.
Fetch ==
    /\ env # Torn
    /\ IF env = Latest
       THEN latest' \in Versions /\ UNCHANGED images
       ELSE images' = images \cup {env} /\ UNCHANGED latest

Pull(s) ==
    /\ At(s, "pull")
    /\ \/ Fetch /\ Goes(s, "up") /\ UNCHANGED told
       \/ /\ UNCHANGED <<images, latest>>
          /\ IF task[s].to \in images THEN Goes(s, "up") /\ UNCHANGED told ELSE Fails(s)
    /\ UNCHANGED <<env, app, db, store, files, self, left, history>>

RecreateMutant ==
    /\ env \in Versions
    /\ images' = {env} /\ latest' = Null
    /\ app' = env
    /\ db' = [db EXCEPT !.schema = Max({env, @})]

\* The containers are recreated from the local store, what it lacks is pulled;
\* the API migrates the database as it boots, which a bad release may or may
\* not get to.
Recreate ==
    /\ env # Torn
    /\ IF Stored(env) THEN UNCHANGED <<images, latest>> ELSE Fetch
    /\ app' = IF env = Latest THEN latest' ELSE env
    /\ db' \in {[db EXCEPT !.schema = v] :
                v \in {Max({app', db.schema})} \cup (IF app' \in Bad THEN {db.schema} ELSE {})}

Up(s) ==
    /\ At(s, "up")
    /\ \/ Recreate /\ Goes(s, "verify") /\ UNCHANGED told
       \/ Recreate /\ Fails(s)
       \/ UNCHANGED <<app, db, images, latest>> /\ Fails(s)
    /\ UNCHANGED <<env, store, files, self, left, history>>

\* A healthy API may still be too slow for HEALTH_TIMEOUT.
Verify(s) ==
    /\ At(s, "verify")
    /\ \/ /\ Runs(app, db.schema)
          /\ Ended(s, "won") /\ Says("success")
          /\ lived' = lived \cup {app}
       \/ Fails(s) /\ UNCHANGED lived
    /\ UNCHANGED <<site, store, files, self, left, clean, tangled, unsaved, undercut>>

-----------------------------------------------------------------------------
(* rollback(): the old tag, and if what it names does not run, the old     *)
(* database.                                                               *)
RevertMutant(s) ==
    /\ At(s, "revert")
    /\ Goes(s, "repull")
    /\ UNCHANGED <<site, store, files, told, self, left, history>>

LostMutant(s, outcome) == Ended(s, "lost") /\ UNCHANGED told

Lost(s, outcome) == Ended(s, "lost") /\ Says(outcome)

Revert(s) ==
    /\ At(s, "revert")
    /\ \/ env' = Written(task[s].from) /\ Goes(s, "repull") /\ UNCHANGED told
       \/ Tears /\ Lost(s, "failed")
    /\ UNCHANGED <<app, db, images, latest, store, files, self, left, history>>

Repull(s) ==
    /\ At(s, "repull")
    /\ Fetch \/ UNCHANGED <<images, latest>>
    /\ Goes(s, "reup")
    /\ UNCHANGED <<env, app, db, store, files, told, self, left, history>>

Reup(s, step, then) ==
    /\ At(s, step)
    /\ \/ Recreate /\ Goes(s, then) /\ UNCHANGED told
       \/ UNCHANGED <<app, db, images, latest>> /\ Lost(s, "failed")
    /\ UNCHANGED <<env, store, files, self, left, history>>

Recheck(s) ==
    /\ At(s, "recheck")
    /\ \/ Runs(app, db.schema) /\ Lost(s, "rolled_back")
       \/ IF task[s].backup = Null THEN Lost(s, "failed") ELSE Goes(s, "restore") /\ UNCHANGED told
    /\ UNCHANGED <<site, store, files, self, left, history>>

RestoreOld(s) ==
    /\ At(s, "restore")
    /\ db' \in {db} \cup UNION {Restored(b) : b \in backups \cap {task[s].backup}}
    /\ Goes(s, "reup2")
    /\ UNCHANGED <<env, app, images, latest, store, files, told, self, left, history>>

Recheck2(s) ==
    /\ At(s, "recheck2")
    /\ \/ Runs(app, db.schema) /\ Lost(s, "rolled_back")
       \/ Lost(s, "failed")
    /\ UNCHANGED <<site, store, files, self, left, history>>

-----------------------------------------------------------------------------
(* After either outcome unused images go; after a success the updater is   *)
(* replaced, by a helper container that first sleeps a few seconds.        *)
Tidy(s, step) ==
    /\ At(s, step)
    /\ Pruned
    /\ IF step = "won" THEN Goes(s, "self") ELSE Ends(s)
    /\ UNCHANGED <<env, app, db, store, files, told, self, left, history>>

\* Nothing comes of it for the same version, when its image cannot be had, or
\* when .env cannot be written.
SelfUpdate(s) ==
    /\ At(s, "self")
    /\ \/ Tears /\ UNCHANGED self
       \/ next' = task[s].to /\ task[s].to # next /\ helper' \in BOOLEAN /\ UNCHANGED env
    /\ Ends(s)
    /\ UNCHANGED <<app, db, images, latest, store, files, told, left, history>>

\* The updater's process starts anew: its tasks are gone, and the boot-time
\* sync runs unless it has for this release or the status says `running'.
Reboots ==
    /\ awake' = FALSE
    /\ Boots(env \in Versions /\ synced.version # env /\ status.is # "running")
    /\ clean' = {}
    /\ tangled' = (tangled \/ Syncing # {})
    /\ undercut' = FALSE
    /\ UNCHANGED <<site, store, files, status, next, lived, unsaved>>

Replaced == helper /\ helper' = FALSE /\ Reboots /\ UNCHANGED left
Crash == Spend("crash") /\ Reboots /\ UNCHANGED helper

\* People work on the site while it runs.
Work ==
    /\ Runs(app, db.schema)
    /\ Spend("work")
    /\ db' = [db EXCEPT !.work = @ + 1]
    /\ UNCHANGED <<env, app, images, latest, store, files, told, self, task, history>>

-----------------------------------------------------------------------------
Step(s) ==
    \/ Start(s) \/ Reclaim(s) \/ Dump(s) \/ Pack(s) \/ List(s) \/ Prune(s)
    \/ SyncRead(s) \/ SyncWrite(s) \/ SyncRecord(s)
    \/ SetEnv(s) \/ Pull(s) \/ Up(s) \/ Verify(s)
    \/ Revert(s) \/ Repull(s) \/ Reup(s, "reup", "recheck") \/ Recheck(s)
    \/ RestoreOld(s) \/ Reup(s, "reup2", "recheck2") \/ Recheck2(s)
    \/ Tidy(s, "won") \/ Tidy(s, "lost") \/ SelfUpdate(s)

Next ==
    \/ \E s \in Slots : Step(s) \/ Save(s) \/ \E v \in Versions : Ask(s, v)
    \/ \E b \in backups : Delete(b)
    \/ \E b \in backups : Restore(b)
    \/ Edit \/ Work \/ Replaced \/ Crash

Spec == Init /\ [][Next]_vars
\* Every awaited command of a task ends, and the helper's sleep does.
FairSpec == Spec /\ \A s \in Slots : WF_vars(Step(s)) /\ WF_vars(Replaced)

-----------------------------------------------------------------------------
\* The shapes of what the site stores and of the updater's own records.
StateOK ==
    /\ env \in Refs \cup {Torn} /\ app \in Versions /\ db \in Databases
    /\ images \subseteq Versions /\ latest \in Versions \cup {Null}
    /\ backups \subseteq Backups /\ stamp \in Nat
    /\ config \in Versions \cup {Custom}
    /\ synced \in [version : Versions \cup {Null}, hash : Versions \cup {Null}]
    /\ status \in [is : States, to : Versions] /\ awake \in BOOLEAN
    /\ next \in Refs /\ helper \in BOOLEAN
    /\ left \in [Events -> Nat]
    /\ lived \subseteq Versions /\ clean \subseteq Slots
    /\ tangled \in BOOLEAN /\ unsaved \in BOOLEAN /\ undercut \in BOOLEAN

TypeOK == StateOK /\ task \in [Slots -> {Null} \cup Tasks]

\* What a rollback needs is there from the first change to its end.  The old
\* version's image is still stored, so that it does not depend on a registry, if
\* .env named it by its own tag (of :latest the rollback pulls whatever that is
\* by then).  The backup is still listed, and was begun when the database held
\* all it held as the upgrade was asked for and the old version ran on it if it
\* did before; of what it restores see Restored
\* (runUpgrade: backup before change, reclaimDisk last; pruneBackups).
Taking == {"sync", "write", "record", "env", "pull", "up", "verify"}
Changing == Taking \cup {"revert", "repull", "reup", "recheck", "restore", "reup2", "recheck2"}

RollbackReady ==
    \A s \in clean \cap Upgrading : task[s].at \in Changing =>
        LET t == task[s]
        IN  /\ t.from \in Versions => t.from \in images
            /\ t.backup = Null => t.at \notin Taking
            /\ t.backup # Null =>
                 /\ t.backup \in backups
                 /\ t.backup.db.work >= t.floor.work
                 /\ t.from \in Versions /\ Runs(t.from, t.floor.schema) => Runs(t.from, t.backup.db.schema)

\* The outcome told is the true one: after `success' the new version runs and is
\* what a restart brings back; after `rolled_back' .env names the old tag again,
\* and what this names runs.  `failed' says nothing of either
\* (runUpgrade's last steps, rollback()).
OutcomeTrue ==
    \A s \in clean \cap Upgrading :
        /\ task[s].at \in {"won", "self"} =>
             status.is = "success" /\ {env, app} = {task[s].to} /\ Runs(app, db.schema)
        /\ task[s].at = "lost" =>
             /\ status.is \in {"rolled_back", "failed"}
             /\ status.is = "rolled_back" =>
                  env = task[s].from /\ app = Named(env) /\ Runs(app, db.schema)

\* The updater only moves to a release that has run here, never to one that was
\* rolled back, unless another task was under way (selfUpdateUpdater is for a
\* success).
UpdaterFollows ==
    [][next' # next => next' \in lived \/ \E s \in Slots \ clean : At(s, "self")]_vars

\* Deploy files as a release has them are never taken for customized ones, which
\* no later sync would touch again, once a sync has recorded them and until the
\* record of one is lost; a file its own sync cut short is as good as customized
\* (the hashes in config-sync.json; RELEASE-RULES.md, 2).
StockKnown ==
    ~tangled /\ ~unsaved /\ Syncing = {} => config \in {Custom, synced.hash} \cup Shipped

\* Customized deploy files are never overwritten, but for an edit that falls
\* between a sync's read and its write (syncDeployConfigs).
EditsKept == [][config = Custom => config' = Custom \/ tangled]_vars

\* A backup goes without being deleted by somebody only when a newer one stays,
\* unless somebody deletes one between a listing and its deletions
\* (pruneBackups after every backup).
BackupsKept ==
    [][\A b \in backups :
         \/ b \in backups' \/ NewerThan(b, backups') # {}
         \/ left'["delete"] < left["delete"]
         \/ undercut]_vars

\* An upgrade that was begun comes to an end the studio can show, however its
\* steps and those of its rollback fail, while the process may still stop but has
\* not (runUpgrade, rollback).
UpgradeSettles ==
    status.is \in {"running", "rolling_back"} ~>
        status.is \in {"success", "rolled_back", "failed"} \/ left["crash"] = 0
=============================================================================
