# Flow CMS: a TLA+ model of the core, with checked properties and proofs

Flow CMS is a headless CMS: a NestJS API (`src/apps/api`) over Postgres (Prisma,
`src/packages/db`), a Next.js studio (`src/apps/studio`), and a few small
packages. Redis is optional; with it, jobs and webhooks run on BullMQ and
several API instances may run side by side. Without it one process does
everything in memory.

The code is written as sequences of awaited statements. Hardly anything runs in
a transaction: a handler reads a row, decides on that copy, and later writes the
row by its id. What can go wrong is therefore rarely inside one handler. It is in
what another call, a restart or a second instance does between two of its
statements, and that is what the modules here describe.

Paths below are relative to the repository root, `api/` standing for
`src/apps/api/src/` and `studio/` for `src/apps/studio/`.

## 1. Inventory

| Component | State it keeps | Operations | Interacts with | Hard behaviour |
|---|---|---|---|---|
| Content entries (`api/content/content-entries.service.ts`) | `ContentEntry` row: data, draft overlay, status, dates; `ContentReview` | update, publish, unpublish, approve/discard draft, review, restore a version | versions, relation index, webhooks, cache | every operation is read, decide, write by id; overlapping calls; stops between two writes |
| Slugs, versions, relation index (same file; `api/content/relation-sync.service.ts`) | slug of the row, `ContentVersion`, `EntryRelation` | create, quick-create, snapshot, prune, rebuild | every save | four writes of one save, each a step of its own; no unique index |
| Scheduled publishing (`api/content/content-scheduler.service.ts`) | `running` flag, Redis lease, the entries | one pass a minute per instance | entries, webhooks | several instances, lease expiry, users changing an entry under a pass |
| Editor and preview (`studio/templates/EditorPage`, `studio/app/preview`, `studio/lib/previewSync.ts`) | two tabs' drafts, save state, autosave timer, the channel between them | typing, autosave, toolbar, in-place editing | entries | answers, timers and messages in any order; two tabs on one entry |
| Background jobs (`api/jobs`) | `Job` row, in-memory queue and slots, or BullMQ | enqueue, pump, run, progress, finish, boot sweep | content, asset and SEO handlers, notifications | restarts, lost locks, progress writes out of order |
| Webhooks (`api/webhooks`) | `Webhook` and `WebhookDelivery` rows, queue or timers | dispatch, deliver, retry, edit, remove | every part that fires events | retries against edits and removal, restarts, answers that cannot be recorded |
| Backups, bin, media files (`api/backups`, `api/assets`, `remove()`/`restoreDeleted()`) | `WorkspaceBackup`, `DeletedItem`, files in storage | snapshot, prune, roll back, delete, restore, purge | entries, media | the lifetimes of three things that name one file; stops inside the purge |
| SEO audit, drip, polite fetching (`api/seo`) | audit rows, run and control keys in the cache, the gate of a host | audit run with pause, cancel, retries, sampling; drip; rate adaptation | jobs, cache, the customer's site | answers in any order; refusals while slots are reserved; runs stopped and restarted |
| Updater (`deploy/updater/server.mjs`, a sidecar of docker-compose installs) | `.env`, `upgrade-status.json` and its copy in memory, backups, deploy files and `config-sync.json`, image store, containers | upgrade with rollback, backup, prune, restore, sync of deploy files, its own replacement | Docker, the API's migrations, the studio's upgrade page | dozens of awaited commands, each of which may fail; requests not serialized; the updater recreated under its own work |
| Read cache (`api/cache`) | Redis keys or a bounded map | wrap, set, delete by prefix | dashboards, SEO, delivery | a fill that started before an invalidation |
| Accounts, setup (`api/auth`, `api/setup`) | users, sessions, one-time codes | sign in, lock out, 2FA, reset, claim | every request | two uses of one thing at a time |
| AI budget (`api/ee/ai-budgets`) | process-local reservations, usage rows | reserve, release | AI features | spending read before reservations are added |
| Import, users, roles, integrations, analytics, mail, the rest of the studio, CLI, images and install scripts | rows edited one at a time, or none | CRUD, I/O, rendering | | little state of their own |

What makes each modelled component correct:

- **Entries.** A live page changes only by publishing; nothing goes live that
  nobody with publish rights has signed off; a staged edit is not lost; only
  approvals of the current cycle count.
- **Saves.** One entry per quick-created name; slugs apart; index and newest
  version those of the stored body; the recent history is there.
- **Scheduling.** What is due is published; only what is due is; its webhook
  fires once; the version kept is what went live.
- **Editing.** What the toolbar calls saved is stored; no edit of either tab is
  lost; a sign-off falls only with a change of what was signed off.
- **Jobs.** No job is lost or run twice; its outcome is the true one, and is
  what the user is told; every job ends.
- **Webhooks.** Attempts are bounded; what was accepted is not sent again; a
  removed hook stops; every delivery ends.
- **Backups and bin.** A deleted item and its file stay 30 days; every kept
  snapshot can be rolled back to, and the rollback undone; what is due goes.
- **SEO.** The customer's site is left alone when it asks to be; no page of a run
  is lost or done twice; what changed is fetched again; every run ends.
- **Updater.** A rollback has its backup at every step, and the image of a pinned
  tag; the outcome told is the true one; pruning leaves a newest backup; customized
  deploy files stay, others are recognized; an upgrade ends.

`PROJECT.json` lists every component with what is modelled of it, and every
hazard with its line and the properties that cover it.

## 2. Plan

Modules in order of importance.

| Module | About | Status |
|---|---|---|
| `EntryLifecycle`, `MCEntryLifecycle`, `EntryLifecycleProofs` | one entry under overlapping calls | done |
| `EntrySaves`, `MCEntrySaves`, `ContentProofs` | slugs, versions and relation index of overlapping saves | done |
| `JobRunner`, `JobBoard`, `MCJobRunner`, `JobRunnerProofs` | jobs, and the abstract board they implement | done |
| `WebhookDelivery`, `MCWebhookDelivery`, `WebhookDeliveryProofs` | fan-out, retries and recording | done |
| `ContentScheduler`, `MCContentScheduler`, `ContentSchedulerProofs` | passes of several instances | done |
| `LiveEditing`, `LiveEditingProofs` | the editor and preview tabs over the server's row | done |
| `ContentStore`, `MCContentStore`, `ContentProofs` | bin, media files, purge, snapshots, rollback | done |
| `PoliteGate`, `SiteAudit`, `MCSiteAudit`, `SiteAuditProofs` | the rate gate; audit runs and the drip over it | done |
| `Updater`, `MCUpdater`, `UpdaterProofs` | upgrades, backups, deploy files | done |
| `AccountAuth`, `SetupClaim` | one-time codes, lock-out, sessions; the first administrator | left |
| `AiBudget`, `ReadCache` | reservations; fills against invalidations | left |

Compositions. `SiteAudit` extends `PoliteGate`, so that every request of a run or
of the drip goes through the gate with its holds and rates. `ContentStore` holds
entries, media, bin, purge and snapshots in one state, because its properties are
about their lifetimes against each other. `LiveEditing` puts both tabs over the
server's row. `JobRunner` contains the batch handlers it drives and implements
`JobBoard`. `EntrySaves` and `EntryLifecycle` divide the same handlers: the row's
status and overlay in the one, what follows the row's write in the other.

The safety and action properties of all passing runs are proved (section 5). Worth
proving next: that `WebhookDelivery` and `ContentStore` implement abstract
specifications as `JobRunner` does `JobBoard` (a delivery is waiting, sent or over;
a thing is there, in the bin or gone), and whatever the modules still left promise.

## 3. The modules

### EntryLifecycle

One `ContentEntry` row (`entry`), its reviews, the bodies kept as versions
(`history`), and the calls in flight (`req`). A handler that reads and later
writes is two actions: its first action copies the row into a record together
with what it has decided (`Begin`), and the write action changes the row by id
as the code does, using the copy where the code uses `existing`. Refused calls
change nothing and are not represented.

| Action | Code |
|---|---|
| `Update`, `Stage`, `Save`, `Finish` | `update()`: decide, stage into `draftData` or save in place, then clear sign-offs and store a version |
| `Publish`, `Promote`, `SetStatus`, `WriteStatus` | `publish()`: promote the overlay or set the status |
| `Unpublish`, `Fold` | `unpublish()` |
| `ApproveDraft`, `Approve`, `DiscardDraft`, `Discard` | the overlay's two-step publishing |
| `RecordReview`, `UpsertReview`, `SendBack`, `CountReviews`, `Flip` | `recordReview()` |
| `Restore`, `RestoreLive`, `RestoreDraft`, `RestoreSave` | restoring a version |
| `Abandon` | the process stops between two statements |

Abstractions: a body is a model value; `scheduledAt` is only whether a date is
set; publish dates are ticks of a clock; clearing the old sign-offs and storing the
version, two awaits after the write, are the one step `Finish`. History variables:
`signedOff` (the overlays approved, as the approving calls had read them), `blind`
(an overlay an approval was recorded over although the call had read another),
`cycle` (who has approved since the entry last entered review) and `leftover` (the
call that moved it there has yet to come to its end, or stopped before).

### EntrySaves

What a save leaves behind the row: its slug, its versions and the index of its
relations. `Create`, `QuickCreate` and `Update` check the slug; `Write` and
`QuickInsert` (which looks again under the lock of the name) store the row;
`Sync` or `SyncFails` rebuild the index; `ReadLast`, `Version` and `Prune` are the
statements of `snapshot()`: it merges an autosave into the version it read, or adds
the next number and then prunes, each an await of its own. A failed prune is
swallowed (`PruneFails`); any other query that throws ends the call where it was
(`Throws`), the merge into a version pruned meanwhile among them. `End` answers.
`Close` is the ten minutes after which an autosave is no longer merged into, `Crash`
ends all calls.

A body is the number of the save that stored it, and the index names the body it
was built from: relations are a function of the body. Slugs are model values;
deriving them from a title, duplicating entries, reverse relations and the
versions of staged edits are left out. `rough` (entries whose last saves
overlapped or broke off) and `clashed` (a slug written while another call had
checked the same one) are history variables.

### JobRunner and JobBoard

`JobRunner` holds the `Job` rows, the queue, the slots with their `runJob()`
calls, and the process itself (`phase`). `enqueue()` is `CreateRow` then `Push`;
a run is `Take`, `Begin`, any number of `WorkItem` and `Land` (a progress write
that reaches the row), `Return` or `Throw`, `Finish` and `Notify`. `Crash`
drops the queue and all runs; `Boot`, `Registered` and the not awaited `Sweep`
follow. With `Durable` the queue survives and `Stall` is BullMQ's own recovery,
modelled from how the code uses it (marked external). `Parallel` is how many
items a handler works on at once: 1 for content, 3 for images.

Writes fail as well. A boot sweep that throws is logged and not repeated
(`SweepFails`); a `queue.add()` that throws leaves the row (`PushFails`); a read or
an update in `runJob()` that nothing catches ends the BullMQ worker's turn
(`GivesUp`), and in-process is an unhandled rejection, which stops the process
(`Crash`). The history variable `stranded` holds the rows such a step left to nobody:
in-process only a failed sweep does, and the next boot's sweep reaches them.

`JobBoard` is what a user may rely on: a job appears, runs, ends with one
outcome, and a restart may interrupt it. `JobRunner` in-process implements it
under the mapping in its last section, checked in `job_in_process` and proved.

### WebhookDelivery

The `Webhook` rows (enabled, deleted), what `dispatch()` still has to queue
(`fan`), and one task per event and hook. An attempt is `Turn` (the BullMQ worker
reads the hook again; in-process the timer simply fires), `Post`, `Record`
and `Settle`; `RecordFails` is the delivery row that cannot be written, `TurnFails`
the hook that cannot be read: BullMQ counts an attempt, and no request was sent.
`update()` finds the hook (`Update`) and writes it later (`Write`), so it may
write `enabled` on a row that `Remove` marked in between. Not modelled: `test()`
and `resend()`, which send once by hand, signing, and the address check.

### ContentScheduler

Instances, their `running` flags, one Redis lease, the passes under way and the
entries. A pass is `Tick`, `Lock`, `Read` and then, for every due entry on its
own, `Write`, `Version` and `Fire`; `WriteFails` is a query that throws, which ends
`publishDue()` and releases the flag while the other entries go on: the row's write
(58), after which a later pass takes the entry up again, or the read of the last
version (64), after which the entry is live and neither its version nor its webhook
ever come. Users
schedule, withdraw, edit and publish meanwhile, each as one step. Time is
abstract: a date comes, the lease expires, a tick happens.

`Prompt` is an assumption about the deployment and not about the code: a pass is
over before its 55 s lease and before its instance's next tick. History
variables: `blind` (Redis has failed a call, and `tryAcquire()` then lets the pass
go on without a lease) and `meddled` (a user has acted while a pass was under way);
`booked`, `published` and `fired` count.

### LiveEditing

The editor tab (`doc`, `save`, `timer`, and `shown`, the state its toolbar goes
by), the preview tab (`preview`, `editing`, `dirty`), the channel each way, the
handlers under way (`call`) and the entry on the server (`row`). A handler is a
list of requests (`Script`), sent one after the other; `Serve` is the server's
part of one, `Answer` the handler's continuation, `Refuse` an approval the server
turns down; one request of a run may fail. `Timer` is the 1.5 s autosave.
`EditorHears` and `PreviewHears` take messages from the channel.

Opening the preview saves (`open`), and then the preview greets the editor and loads
the entry with a request of its own: until that is answered (`LoadAnswer`) it has no
entry, and drops the draft the editor sends in reply. Leaving edit mode loads the
entry again (`revert`), and so does a discard.

What an entry holds is the set of edits it contains, so that a save which
overwrites another shows. The server's handlers are atomic here; what happens
inside them is `EntryLifecycle`'s subject. History variables: `thrown` (edits the
user discarded), `hurried` (the user did not wait for one tab to settle before
using a button or the other tab), `slow` (the timer ran out before a request
was answered), `missed` (the preview finished loading without the editor's text, and
no message is on its way to bring it) and `overtook` (such a preview was edited in
place). Not modelled: new entries, the review and schedule buttons, slug check and
versions panel, and site-mode editing.

### ContentStore

Entries with their versions, media with their files, the bin, the snapshots, and
the calls that move things between them. `Edit` creates or edits; `StartRemove` and
`CommitRemove` are `remove()`, which reads before its transaction; `Restore` is
`restoreDeleted()`. `Daily` and `Backup` take a snapshot and prune; `StartRollback`
takes the undo snapshot, `CommitRollback` is the transaction. `StartPurge`, `Doom`,
`DeleteFile` and `Unlist` are the purge, item by item: the check that no one else has
the file, its deletion (which the storage may refuse) and the item's. `Stop` ends
whatever is under way; `Tick` is the next day. The snapshots kept are a set
(`backups`), and `newest` is the last one made, which pruning spares.

Assumed of time: `daily()` runs every day (it tries every hour), and no request
lasts into the next. A snapshot is read in one step. Replacing a file in place,
and the slug and the extra version a restore makes, are left out; versions of
entries that a rollback takes away are lost by design (the comment at
`api/backups/backups.service.ts:13`). History variables: `late` (things that came
back, by a restore or a rollback, when the 30 days of one of their items were over),
`twice` (in the bin from two days, through two overlapping removals), `cut` (entries
that lost versions by design), `undo` and `touched`. Rollbacks are in `late` because
of this sequence: a medium removed twice by overlapping calls has two items, a purge
finds the older one due, a rollback takes both out of the bin, the medium is removed
again, and the purge, still holding the older item, deletes the file.

### PoliteGate and SiteAudit

`PoliteGate` is the gate of one host (`api/seo/polite.ts`) as operators on its
variables: slots, holds (`pausedFor`), the rate in use, how it halves, climbs
and is spread over what the host advertises, the learned ceiling and its copy in
the workspace. Times are the ticks left.

`SiteAudit` extends it with a run over the pages of one type, its runners, and
the drip: a run plans (`reuse`, `planned`), re-checks pages from stored facts,
fetches the rest in rounds with refused pages retried, and a large type is
sampled and filled in from the sample, unless that proves nothing. Users pause,
resume and cancel through the control key; pages change; the process restarts.
`facts` and `due` are the row of a page and whether `needsFetch()` holds of it.

One host, one rate setting and one run at a time; the fetch order is any; the slot
of the prefix probe, a workspace without a site, and the analysis of a page are left
out. A type is sampled above `SampleOver` pages, and a run asked to sample above
`SampleSize` (`Over`). Plain refusals of a run's requests are not bounded (`Counts`),
so that a site may refuse for ever; what is bounded with `MaxEvents` are runs, drips,
orders, changes, restarts and the other odd answers. `Remember` is the write of a
learned ceiling, which no call waits for: it may be lost, or land out of order. The two
decimals it is rounded to are finer than a rate of the model.
History variables: `stale` (pages that changed after their facts were read),
`crossed` (while those were on their way to the row), `shared` (pages two audits
were at), `early` (a request whose slot was reserved before the refusal),
`overruled` (the run went on after it had decided to stop) and `refused` (the
lowest refused rate).

### Updater

The sidecar's tasks (`task`): upgrades, backups asked for, and the boot-time sync,
each at one of its steps, with what it has read (the tag it came from, its backup,
the hash it compared with). Around them stand what they change: `.env` (`env`), the
containers (`app`), the database (`db`: the newest release that migrated it and the
work stored in it), the image store (`images`, `latest`), the backups, the deploy
files (`config`, `synced`) and the status (`status`, and `awake`, whether the process
holds it in memory).

| Action | Code |
|---|---|
| `Ask`, `Start` | `startUpgrade()`: the check on `job`, and what follows `await currentImages()` |
| `Reclaim`, `Dump`, `Pack`, `SetEnv`, `Pull`, `Up`, `Verify` | the steps of `runUpgrade()`, each of which may throw |
| `Save`, `Delete`, `Restore` | backups on request, which share `Dump`, `Pack`, `List` and `Prune` |
| `List`, `Prune` | `pruneBackups()`: what it lists and picks (`Retained`), and its deletions, each of which may fail |
| `SyncRead`, `SyncWrite`, `SyncRecord`, `Edit` | `syncDeployConfigs()`, whose write may fail half-way and whose record may fail unnoticed, and an operator's edit |
| `Revert`, `Repull`, `Reup`, `Recheck`, `RestoreOld`, `Recheck2` | `rollback()`, where writing `.env` and starting the containers may throw too |
| `Tidy`, `SelfUpdate`, `Replaced` | the `finally` of `runUpgrade()`, and the helper that recreates the updater |
| `Crash`, `Replaced` (both `Reboots`) | the process starts anew: tasks are gone, the boot-time sync may run |

There are two kinds of install. `install.sh` writes `:latest` unless it is told a tag,
so `.env` names either a release by its own tag or `Latest`; the local store has one
image under each name (`Named`, `Stored`). A release's own tag is that release for
ever. Of `:latest` the registry has any release (`Fetch`): a rollback to it pulls
whatever that is by then, also when the upgrade failed before it had changed anything,
and may so upgrade the site. Neither kind begins with a recorded sync: `install.sh`
writes no `config-sync.json`.

A write of `.env` that fails may cut the file short (`Torn`). Compose then refuses it,
the tags read as `:latest`, and writing them again does not bring the other keys back.
A dump may be cut short as well, because `createBackup()` waits for the end of
`pg_dump` and not of the file it is piped into (`Restored`).

A version stands for its two images. `Bad` releases never become healthy, and a
`Breaking` one migrates the database so that older releases do not start on it;
the API migrates as it boots (`docker-entrypoint.sh`). The two managed files are
one. An upgrade always names its version (the studio does), and `FLOWCMS_VERSION` is
empty (`docker-compose.prod.yml`). Left out: the media archive, restoring `.env` (the
studio never asks for it), Caddy's reload, writes of the status file that fail just
before a stop, and deploy files that are missing or cannot be read.

History variables: `clean` (tasks nothing else has interfered with, neither a task, a
deletion, a restore nor a stop, and that did not begin with a pinned tag other than
what runs), `tangled` (a sync overlapped with another, an edit or a stop), `unsaved`
(the last sync was not recorded), `undercut` (a backup was deleted between a listing
and its deletions) and `lived` (versions that answered healthy). `Patient` says that
nobody asks for an upgrade while something is under way; it only bounds the run, and
no theorem assumes it.

## 4. The runs

Deadlock is not checked anywhere: with bounded calls, restarts and edits every
system here may legitimately come to rest.

| Run | Shows | Bounds |
|---|---|---|
| `entry` | under overlap and stops: an edit of a live entry is staged, an approval covers what was approved, a call lifts and promotes only what it saw cleared, a review counts its own cycle's sign-offs | 2 calls at a time, 5 calls, 1 editor, 2 reviewers, quorum 2, 2 bodies |
| `saves` | one entry per name, slugs apart, index and history as stored, however saves overlap | 2 entries, 2 calls at a time, 3 saves, 2 names, retention 2, 1 failure or stop |
| `job_in_process` | no job lost, repeated or misreported; every job ends; only a boot sweep that fails leaves a job to nobody; refines `JobBoard` | 2 jobs of 2 items, 2 slots, 2 restarts |
| `job_bull` | a batch is started once, and once more per lost lock | 1 job of 2 items, 2 slots, 2 restarts |
| `webhook_bull` | nothing accepted is sent again, removal stops, all deliveries end | 1 hook, 3 attempts, 2 restarts, 3 edits |
| `scheduler` | each schedule fires once, only due entries go live, and no failing write, crash or failing Redis stops what is due | 2 instances, 2 passes at a time, 2 entries, 2 user calls, 1 failure, 1 crash |
| `editor` | saved means stored, no edit lost, approval kept, all work reaches the server | 2 edits, 2 buttons, 2 handlers at a time, 1 failed request |
| `store` | files, snapshots, undo and history outlast removals, rollbacks, purges and stops; what is due goes | 1 entry, 1 medium, 2 removals at a time, 3 requests, 2 edits, 1 stop, 4 days (snapshots 1, bin 3) |
| `seo` | holds kept, refused rates not reached again, no page lost, stale pages fetched, verdicts kept, every run ends | 2 pages, 2 runners and the drip, sample of 1, 1 retry round, 3 events and refusals without end, rates 1 and 2 |
| `updater` | a rollback has what it needs, outcomes are true and come, files nobody edited are known as such | releases 0 to 2 (2 bad and breaking), 2 tasks at a time, 2 backups kept, and one of five starts: a pinned tag with 2 upgrades and 1 stop; the same with 1 upgrade, 1 edit and 1 stop; `:latest` with deploy files of a later commit, 2 upgrades and 1 stop; 1 upgrade with 1 backup, 1 restore and 1 piece of work; 1 upgrade with 2 backups and 1 deletion |
| `editor_resave` | an approved overlay saved again unchanged keeps its approval (a violation) | as `editor` |
| `editor_slow` | what the toolbar calls saved is not, when a save is slow (a violation) | as `editor` |

The last two runs expect their violations, listed under "findings" in `PROJECT.json`.
`editor_resave` is about a comment: `studio/templates/EditorPage/index.tsx:582` says
that a save of unchanged text "would re-stage the draft and clear its approval on the
server" (`ResaveUnapproves`), while `update()` answers such a save without touching
the entry (`api/content/content-entries.service.ts:1036`). The approval stays.
`editor_slow` drops the assumption that requests are answered before the autosave
timer runs out. `autosave` then returns at once because a save is under way, and
nothing sets the timer again, so an edit typed meanwhile is neither stored nor shown
as unsaved (`SavedShown`; `studio/templates/EditorPage/index.tsx:653`).

What the passing runs assume, and what happens otherwise. Each line is a change of
the run's configuration under which TLC finds the named property violated.

- `job_in_process` with `Parallel = 3`: `OutcomeTruthful` (progress writes of
  images land out of order and a failed item is forgotten). With `Durable`:
  `NoneStuck` (a restart between the row and the queue leaves a row nobody runs;
  BullMQ does not know it and there is no sweep).
- `webhook_bull` without `Durable`: `DeletedHookStops` (without Redis a removed
  hook is sent to until its retries are spent).
- `scheduler` without `Prompt`: `FiredOnce` (a pass outlives its lease and
  another instance publishes the same entries).
- `updater` without `Patient`: `UpgradeSettles`. An upgrade begun in the seconds after
  another has succeeded is killed when the helper recreates the updater, and nothing
  resumes it, rolls it back or ends its status (`deploy/updater/server.mjs:455`). A stop
  of the updater for another reason leaves an upgrade the same way, which is why
  `UpgradeSettles` speaks of upgrades before one. Without `Patient` two requests may
  also pass the check on the status, because each reads the images before it sets the
  status (608), and two upgrades run; neither is `clean` then.

Some properties except by name what the code does not promise, through the history
variables of section 3: the exception is explored, and only excused where it
happens.

- `ApprovedDraftSignedOff`: the overlay an approval was recorded over although the call
  had read another (`blind`; `approveDraft()` reads and later marks the row by id).
- `LiveEditsStaged`: a save that read the entry before it went live writes into the live
  body.
- `CycleQuorum`: a review is counted between the write that moves an entry into review
  and the deletion of the older sign-offs, or after a stop there (`leftover`).
- `NoneStuck`, `EveryJobEnds`: rows a failed boot sweep left (`stranded`).
- `Settled`: an entry whose last saves overlapped or broke off, until a save has run
  alone. `SlugsUnique`: a slug two calls checked before either wrote it.
- `SavedIsStored`, `NothingLost`: a hurried user, a slow request and a failed one, and in
  `NothingLost` `overtook`. Open the preview, and type while it loads: it drops the
  draft the editor sends (`studio/app/preview/PreviewClient.tsx:396`) and then
  shows the older row. An edit in place from there sends its own draft, which replaces
  the newer text in the editor, and the autosave stores that.
- `KeptThirtyDays`: media that came back late or were removed twice; `UndoKept`: writes
  between the undo snapshot and the rollback; `HistoryWhole`: entries cut by design.
- `Accounted`: runs that were stopped, or that went on after deciding to;
  `StaleRefetched`: a page that changes while its facts are on their way;
  `VerdictSurvives`: a page two audits are at; `HoldHonoured`: requests whose slot was
  reserved before the refusal.
- `FiredOnce`: a Redis that failed; `PublishesOnlyDue` and `VersionIsWhatWentLive`: that
  and users who act during a pass (an entry withdrawn then is published, an edit goes
  live while the version holds the older body).
- `RollbackReady`, `OutcomeTrue`: an upgrade beside which something else was done (a
  backup asked for meanwhile may prune the upgrade's own), the image of an unpinned
  tag, and the outcome `failed`, which says nothing of what runs.
- `StockKnown`: until a sync has been recorded and after a record was lost, syncs that
  were not alone, and a file its own sync cut short; `EditsKept`: an edit that falls
  into a sync. `BackupsKept`: a backup deleted between a listing and its deletions.
  `UpdaterFollows`: another task under way with the upgrade.

Hazards seen while reading that have no property, beside those in `PROJECT.json`:
- an APPROVED entry can be edited in place without publish rights and then be
  published, which the comment at `api/content/content-entries.service.ts:1255`
  denies; a live entry with an overlay that becomes a draft by a plain status
  change (1073) keeps the overlay, although it is then edited in place;
  `remove()` (1396) puts what it read into the bin; a save that repeats the status it
  read puts back an entry that was sent back for changes meanwhile (1073);
- two saves at a time may store one version number twice (247): which of the two
  is the newest is then undefined;
- the boot sweep (`api/jobs/jobs.service.ts:79`) is not awaited, so it may fail a
  job enqueued after the boot;
- a value computed before an invalidation is cached after it
  (`api/cache/cache.service.ts:50`) until its lifetime ends;
- owners are counted before one leaves, and a reset link is verified before the
  password it is bound to changes (`api/auth/auth.service.ts:195`, 388), what a
  workspace has spent is read before its reservations are added
  (`api/ee/ai-budgets/ai-budgets.service.ts:92`), and two first-run claims meet in
  a serializable transaction (`api/setup/setup.service.ts:50`);
- in the studio, a click while a save is under way may send a second save of the
  same entry (`studio/templates/EditorPage/index.tsx:636`), and a save that lands
  after Discard brings the overlay back (596).

Why the bounds are enough. The entry rules involve one row, one call that is
late and one that overtakes it, so two calls in flight and five calls in all
reach every pair of handlers after every state of the entry; three saves give a
version to prune, one to merge into and one that overtakes, and a retention of
two tells the newest from a kept one (two authors, 20 million states, were run
once and gave nothing new). A job needs a second one to compete for slots and be
swept with it, and two items to have a partial outcome. Deliveries meet only
through their hook's row, so one hook suffices; three attempts give a first, a
middle and a last one. Two instances are what a lease is for; a third could only
repeat the second. Two edits tell an older save from a newer one. In the store
things meet only through the snapshots, so one of each kind suffices, and the
five days 0 to 4 see a snapshot and an item of the bin expire. Two pages are a sample and a
rest, and each may be in flight, refused or answered while the other is; three
events are a refusal, an order and a restart. The updater needs a release
that works, one that does not and one to fall back to; two upgrades give a stop
of the first, or a success of it, before the second; three backups (two asked for, and
the upgrade's) are one more than is kept. Two restarts give a job a boot sweep that
fails and one that reaches what it left.

The symmetry sets are over reviewers, requests, slots, entries, names and
authors, which no definition tells apart, and are used only in runs without
liveness properties.

Fairness. `JobRunner`: a process that runs goes on, one that stopped is started
again, an item does not hang (image calls have a 60 s ceiling). Crashes, failed
items and new jobs have none. `WebhookDelivery`: requests time out after 10 s,
timers fire and workers take their turn; nothing obliges users, failures or
crashes. `ContentScheduler`: timers fire, queries are answered, the lease
expires (it is a key with a lifetime). `LiveEditing`: timers run out, messages
arrive, requests are answered or fail. `ContentStore`: the purge runs (every six
hours); users and stops have none. `SiteAudit`: a run's own steps and requests
go on (requests time out, holds are bounded); orders, changes and restarts have
none. `Updater`: every awaited command of a task ends (the code waits for it, with
a time limit where it polls) and the helper's sleep does; requests and stops have
none. `EntryLifecycle` and `EntrySaves` have no liveness property: nobody is
obliged to call.

Every property of a passing run has a mutant in `PROJECT.json`: a plausible bug
in one handler, defined beside it as `...Mutant`, under which the run finds the
property violated.

## 5. What is proved

The theorems hold for every value of the constants: any number of bodies,
actors, overlapping calls, entries, jobs, slots, items, pages, restarts.

`EntryLifecycleProofs`:

- `TypeCorrect`: the type invariant.
- `CallsAlwaysJustified`: `CallsJustified`. The inductive invariant is
  `IInv == TypeOK /\ CallsJustified`. Neither part suffices alone: the write of
  a promotion is well typed only because the call that will do it saw an overlay.
- `LiftsOnlyWhatItSawCleared` (with the gate licensed) and
  `PromotesOnlyWhatItChecked`: action properties that follow from `IInv`. A step
  changes the row only by a write of the one call that acts, and what that call
  read is what `CallsJustified` records.
- `EditsOfALiveEntryAreStaged`: `LiveEditsStaged`, from `IInv` too. A write that changes
  what a live entry serves is a promotion, a restored version, or a save decided on a
  row that was not live.
- `ApprovalsAreSignOffs` and `FlipsOnCurrentApprovals`: `ApprovedDraftSignedOff` and
  `CycleQuorum`, from `EInv == IInv /\ ApprovedDraftSignedOff /\ Counted`. `Counted` says
  that the approvals on file are those of the current cycle, unless `leftover`.

None of these assumes anything of how calls overlap or where the process stops.

`ContentProofs`, about `EntrySaves`, one invariant `IInv` for five theorems:

- `TypeCorrect`, from `TypeOK` and `CallsOK` (a call saves an entry that is there
  or makes one, and what it stored has a number).
- `OneEntryPerName` and `SlugsStayUnique`: `OnePerName`, `SlugsUnique`. What is
  needed besides is `Checked` (a call no other was beside may still write its
  slug) and `Paired` (of two that were beside each other both know).
- `RecentIsKept`: `RecentKept`. `HistoryOK` says that ids are rows of their own,
  that pending calls name bodies of their own (`OwnBodies`, `Fresh`), that the
  version a call has read is still there or has been overtaken (`LastOK`), that a
  version as new as the one a pruning call counts from is still there
  (`PruneOK`), and that the newest numbers are all there (`Recent`): a number may
  be stored twice, but none of the newest is ever missing, so a prune leaves the
  retention's worth.
- `AlwaysSettled`: `Settled`. `Alone` and `Whole` say that a call which has met
  no other is alone at its entry and has done there what its step says;
  `AtRest` is `Settled` for entries with no call that has saved.

`ContentProofs`, about `ContentStore`:

- `StoreTypeCorrect`, and that the newest snapshot is never pruned (`BInv`).
- `HistoryStaysWhole`: `HistoryWhole`. `VInv` says that nothing is anywhere before it
  was created (`KnownThings`, `BlankUnknown`), and that an entry not cut is in the
  workspace with all its versions or in the bin with all of them, in one item
  (`VersionsKept`).
- `FilesStayThirtyDays` and `SnapshotsStayWhole`: `KeptThirtyDays`,
  `KeptSnapshotsStored`. `FInv` says what holds a file: a medium of a kept snapshot, or
  of the rollback under way, is in the workspace or in the bin since the snapshot's
  day or later (`SnapshotsHeld`, `RollbackHeld`), what a removal has read is there or
  went into the bin today (`RemovalsHeld`), and what the purge works on is overdue and
  unwanted (`DueTold`, `DoomedUnwanted`). The argument is about days: an item young
  enough to be held for a kept snapshot is never overdue, because the bin outlives
  the snapshots by more than a day (`BinOutlivesSnapshots`: `KeepDays + 1 < BinDays`;
  a snapshot may outlast its days by one until `daily()` has run).
- `RollbacksCanBeUndone`: `UndoKept`, from `UInv`: the undo snapshot of a rollback under
  way is of today and what it is about to replace, and that of one that is done is at
  least as young as the rollback.

`JobRunnerProofs`:

- `TypeCorrect`, with and without Redis. The type invariant is not inductive: a
  step that updates one field of a row needs the row to exist. `TInv` adds that
  every queued, added, locked or running job has a row.
- `NoJobLost`, `BatchesOnce` and `ImplementsBoard`, without Redis
  (`ASSUME ~Durable`). The invariant is `PInv`: `TInv`, an idle process holds
  nothing (`Idle`), an id is in at most one place of being added, waiting and
  running (`OnePlace`), a row's status fits that place (`RowsFit`), and
  `NoneStuck`. One step of the runner is one step of the board or none.
- `OutcomesAreTruthful`, in both modes, for handlers that work on one item at a time
  (`ASSUME Parallel = 1`, as the content handlers do): `OutcomeTruthful`. `OInv` says
  how a handler's counters, the tally of its items, the progress write on its way and
  the row stand to each other at each step; with one item at a time at most one such
  write is out.
- `ToldIsTheRow`, in both modes: `ToldMatchesRow`, from `AInv`: a job never taken back
  is in one place (being enqueued, queued once, run by one slot, or told).
- `StartsAreBounded`, in both modes (`ASSUME IsFiniteSet(Slots)`): `RunsBounded`, which
  `BatchesOnce` states in-process without that assumption. `BInv` counts: the starts a
  job had, the slots about to start it and its place in the queue are at most one more
  than the times BullMQ took it back.

`WebhookDeliveryProofs`:

- `TypeCorrect` and `SendsBounded`, with and without BullMQ. The invariant is
  `IInv`: the types, `Accounted` (how the attempts made, the requests sent and
  the times BullMQ took the delivery back add up, at every step of an attempt)
  and `Untried` (a delivery not queued yet has not been tried). Types need the
  accounting: that a counted failure stays within `MaxAttempts` is part of it.
- `DeletedStops`, with BullMQ (`ASSUME Durable`): `DeletedHookStops`. `LInv` adds
  that a request sent late for a deleted hook was the one its worker had already
  prepared, and that no later turn prepares another.
- `AcceptedOnce`, with and without BullMQ: `SentOnce`. `HInv` adds that what an endpoint
  has accepted stays in the hands of the attempt that sent it until that is over, its
  worker dies or the answer cannot be recorded.

`ContentSchedulerProofs`:

- `TypeCorrect`, in every deployment.
- `FiredOnceWithRedis` (`ASSUME Redis, Prompt`) and `FiredOnceAlone`
  (`ASSUME Prompt`, one instance): `FiredOnce`, whatever users do. The invariant
  `FInv` says that a pass has entries to publish only after it read them
  (`Fresh`), and that every webhook fired, every publication past its row write
  and every one still to come has a booking of its own (`Claims`). A step keeps it
  only while no two passes are past the lease (`Single`); what makes that so is
  `Held` (who is past the lease holds it) in the one case, and `Alone` (one pass
  at a time) in the other.
- `DueOnly` and `VersionWentLive`: `PublishesOnlyDue` and `VersionIsWhatWentLive`,
  from `Current`: what a pass has read is still so when it writes.

  All but the second hold until Redis fails (`Guarded`), and the last two until a
  user acts during a pass (`Undisturbed`).

`LiveEditingProofs`:

- `TypeCorrect`, and `ApprovalOnlyFallsWithAChange` (`ApprovalKept`), which needs no
  patience of the user. The invariant adds to the types that every handler is on its
  script (`OnScript`) and that a preview edited in place is open.
- `SavedMeansStored` and `EditsSurvive`: `SavedIsStored`, `NothingLost`. The invariant is
  `EInv`: types in full (`Parts`), no overlay on a draft (`Plain`) and, while the user
  keeps to the pace those properties ask for, `Sound`: at most one handler is under way,
  save an autosave beside a reload or the preview's load (`PairsOK`); the channel is
  empty or holds one message of four shapes, and a preview that is open, loaded and has
  not `missed` it shows all that is to be kept (`ChannelOK`); the editor lacks only edits that are on
  their way to it (`LiveOK`, `DirtyOK`); each handler holds what its step says
  (`HandlersOK`); and with no timer armed the server has what the editor shows, or a
  request is bringing it (`StoredOK`).

`SiteAuditProofs`, one invariant `IInv` for six theorems, in parts:

- `GateInv`: the gate's types, and how rate, ceiling and stored ceiling stand to
  the lowest refused rate; `NeverProbes` (`NeverProbesPast`) follows.
- `WorkInv`: what each worker holds; no wait ends before the hold, `HoldAlwaysHonoured`
  (`HoldHonoured`); two audits of a page are known as such (`Together`), from
  which `VerdictsSurvive` (`VerdictSurvives`).
- `RowsInv`: rows against what has changed since; `StaleIsRefetched` (`StaleRefetched`).
- `RunInv`: the pages of a run are parted (`Parted`); `AllAccounted` (`Accounted`).
- `TypeCorrect` needs the run's parts as well (`RunOK`, `RestOK`).

`UpdaterProofs`, on top of the types (`TInv`, which adds what steps a task of each role
has and that a backup being packed has been dumped):

- `RollbackAlwaysReady` and `OutcomeAlwaysTrue`, from `CleanOK`: a clean upgrade is
  alone, and of each of its steps `ImageFits`, `BackupFits` and `TagFits` say how the
  image store, the backups and the database, and `.env` and containers stand to what it
  remembers, with pinned and unpinned tags and with writes that fail.
- `FollowsSuccess` (`UpdaterFollows`), from `CleanOK`: after its success a clean
  upgrade's version has answered healthy.
- `BackupsStay` (`BackupsKept`), from `StampOK` (backups are numbered in the order they
  were begun), `Newest` (a bounded set of backups has a newest one, by well-foundedness)
  and `DoomOK` (what a prune has picked has a newer one that stays).
- `StockStaysKnown` and `CustomizedFilesKept`, from `SyncOK`: without a tangle one
  sync is under way, what it read still holds, and the files are known between syncs if
  the last was recorded.

`Prompt` is the assumption of section 3; what happens without it is in section 4. The
other assumptions named above choose a configuration (`Durable` or not, `Redis`,
`Licensed`, `Parallel = 1`) or say that there are finitely many slots, and those of the
modules are that sizes are natural numbers, rates and times in their order, and `Null`
is none of the values it stands beside.

`CallsJustified`, `VersionIsWhatWentLive`, the attempts' bound, `BackupsKept`,
`UpdaterFollows` and `EditsKept` are proved and not among the properties of a run, nor
are the type invariants.

Out of the prover's reach and left to TLC: liveness under fairness
(`EveryJobEnds`, `EveryDeliveryEnds`, `DueIsPublished`, `WorkSettles`,
`DuePurged`, `RunEnds`, `UpgradeSettles`), `ENABLED`, and induction over data, hence what a
recursive definition computes for every input. The modules have no recursive
operators, which the prover cannot use. Nothing else is only
model-checked: every invariant and every action property of a passing run is stated by
a theorem, some under the assumptions named above.

## 6. What is not modelled, and why

- Accounts, the first-run claim, the AI budget and the read cache: not yet; they
  are the rows left in section 2.
- Field validation, slug derivation, query building, the HTML and SEO analysis,
  and GraphQL: functions of one input without state, covered by the
  repository's unit tests.
- The rest of the studio, which is most of the repository's lines: rendering, and
  calls to the API that are inputs of the modules. Likewise the CLI, the client,
  the install scripts, and of the updater its media archives, downloads and reloads.
- Integrations, analytics, mail, AI providers: network I/O whose result is one
  row or none.
- Postgres, Redis, BullMQ and the object storage themselves: a statement is one
  atomic step, a lease is taken by one caller, a file is there or not, and
  BullMQ's recovery is the external `Stall` action.
