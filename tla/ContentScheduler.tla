--------------------------- MODULE ContentScheduler ---------------------------
(***************************************************************************)
(* Scheduled publishing (content-scheduler.service.ts).  Every minute each *)
(* instance runs a pass: it takes a Redis lease shorter than the minute,   *)
(* reads the entries that are due and publishes them in parallel, each in  *)
(* three steps: the row, the version and activity rows, the webhook.  What *)
(* the writes need was read once, at the start.  Time is abstract: an      *)
(* entry's date comes, a lease expires, a tick happens.                    *)
(***************************************************************************)
EXTENDS Naturals

CONSTANTS
    Instances,      \* API processes
    Passes,         \* slots for passes under way (a bound)
    Entries,
    Redis,          \* is REDIS_URL set?  Without it there is one instance
    Prompt,         \* is a pass over before its lease, and before the next tick?
    MaxCalls,       \* bound: user calls in one behaviour
    MaxFailures,    \* bound: entries whose publication throws
    MaxCrashes,     \* bound: crashes
    Null

ASSUME SwitchesAssumption == {Redis, Prompt} \subseteq BOOLEAN
ASSUME BoundsAssumption == {MaxCalls, MaxFailures, MaxCrashes} \subseteq Nat

VARIABLES
    row,        \* the ContentEntry rows
    running,    \* per instance: its single-flight flag
    lease,      \* is lock:sched:content-publish held?
    pass,       \* the pass in each slot, or Null
    calls, failures, crashes,
    blind,      \* history variable: has Redis ever failed a call to tryAcquire()?
    meddled,    \* history variable: has a user acted while a pass was under way?
    booked,     \* history variable: how often each entry was scheduled
    published,  \* history variable: rows the scheduler has published
    fired       \* history variable: content.published webhooks it has fired

vars == <<row, running, lease, pass, calls, failures, crashes, blind, meddled, booked, published,
          fired>>
upsets == <<blind, meddled>>
bounds == <<calls, failures, crashes, upsets>>
counts == <<booked, published, fired>>

-----------------------------------------------------------------------------
(* at: scheduledAt is NULL, still to come, or past; body: which edit it holds. *)
Rows == [status : {"DRAFT", "SCHEDULED", "PUBLISHED"},
         at : {"none", "future", "past"},
         body : 0..MaxCalls]

Items == {"none", "row", "version", "webhook", "done"}

PassRecords == [by : Instances,
                stage : {"lock", "read", "work"},
                item : [Entries -> Items],
                body : [Entries -> 0..MaxCalls],
                threw : BOOLEAN]

ASSUME NullAssumption == Null \notin PassRecords

Due(e) == row[e].status = "SCHEDULED" /\ row[e].at = "past"

Init ==
    /\ row = [e \in Entries |-> [status |-> "DRAFT", at |-> "none", body |-> 0]]
    /\ running = [i \in Instances |-> FALSE]
    /\ lease = FALSE
    /\ pass = [p \in Passes |-> Null]
    /\ calls = 0
    /\ failures = 0
    /\ crashes = 0
    /\ blind = FALSE
    /\ meddled = FALSE
    /\ booked = [e \in Entries |-> 0]
    /\ published = [e \in Entries |-> 0]
    /\ fired = [e \in Entries |-> 0]

Working(p) == pass[p] # Null /\ pass[p].stage # "lock"

-----------------------------------------------------------------------------
(* What users do to an entry meanwhile.  A withdrawn entry keeps its date.   *)
Call(e, new) ==
    /\ calls < MaxCalls
    /\ calls' = calls + 1
    /\ meddled' = (meddled \/ \E p \in Passes : Working(p))
    /\ row' = [row EXCEPT ![e] = new]
    /\ UNCHANGED <<running, lease, pass, failures, crashes, blind, published, fired>>

Schedule(e) ==
    /\ \E at \in {"future", row[e].at} :
          Call(e, [row[e] EXCEPT !.status = "SCHEDULED", !.at = at])
    /\ booked' = [booked EXCEPT ![e] = @ + 1]

Withdraw(e) ==
    /\ row[e].status # "DRAFT"
    /\ Call(e, [row[e] EXCEPT !.status = "DRAFT"])
    /\ UNCHANGED booked

Edit(e) ==
    /\ row[e].status # "PUBLISHED"
    /\ Call(e, [row[e] EXCEPT !.body = calls + 1])
    /\ UNCHANGED booked

PublishNow(e) ==
    /\ Call(e, [row[e] EXCEPT !.status = "PUBLISHED", !.at = "none"])
    /\ UNCHANGED booked

DateComes(e) ==
    /\ row[e].at = "future"
    /\ row' = [row EXCEPT ![e].at = "past"]
    /\ UNCHANGED <<running, lease, pass, bounds, counts>>

-----------------------------------------------------------------------------
(* The timer calls publishDue(), which returns at once while a pass runs.    *)
Tick(i) ==
    /\ ~running[i]
    /\ Prompt => \A p \in Passes : pass[p] # Null => pass[p].by # i
    /\ \E p \in Passes :
          /\ pass[p] = Null
          /\ pass' = [pass EXCEPT ![p] =
                        [by |-> i, stage |-> "lock", threw |-> FALSE,
                         item |-> [e \in Entries |-> "none"],
                         body |-> [e \in Entries |-> 0]]]
    /\ running' = [running EXCEPT ![i] = TRUE]
    /\ UNCHANGED <<row, lease, bounds, counts>>

(* The finally block. *)
Over(p) ==
    /\ pass' = [pass EXCEPT ![p] = Null]
    /\ running' = [running EXCEPT ![pass[p].by] = pass[p].threw /\ @]

(* Mutant: the lease is taken without asking whether it is held. *)
LockMutant(p) ==
    /\ pass[p] # Null
    /\ pass[p].stage = "lock"
    /\ pass' = [pass EXCEPT ![p].stage = "read"]
    /\ lease' = Redis
    /\ UNCHANGED <<row, running, bounds, counts>>

(* tryAcquire(): granted when nobody holds the lease, and also when there is *)
(* no Redis or Redis fails.                                                  *)
Lock(p) ==
    /\ pass[p] # Null
    /\ pass[p].stage = "lock"
    /\ \/ /\ Redis => ~lease
          /\ lease' = Redis
          /\ pass' = [pass EXCEPT ![p].stage = "read"]
          /\ UNCHANGED <<running, blind>>
       \/ /\ Redis
          /\ pass' = [pass EXCEPT ![p].stage = "read"]
          /\ blind' = TRUE
          /\ UNCHANGED <<running, lease>>
       \/ /\ Redis /\ lease
          /\ Over(p)
          /\ UNCHANGED <<lease, blind>>
    /\ UNCHANGED <<row, calls, failures, crashes, meddled, counts>>

(* The lease runs out; nothing ever gives it back.                           *)
Expire ==
    /\ lease
    /\ Prompt => \A p \in Passes : ~Working(p)
    /\ lease' = FALSE
    /\ UNCHANGED <<row, running, pass, bounds, counts>>

(* Mutant: the query asks for the date alone. *)
ReadMutantDate(p) ==
    /\ pass[p] # Null
    /\ pass[p].stage = "read"
    /\ pass' = [pass EXCEPT ![p] =
                  [@ EXCEPT !.stage = "work",
                            !.item = [e \in Entries |->
                                        IF row[e].at = "past" THEN "row" ELSE "none"],
                            !.body = [e \in Entries |-> row[e].body]]]
    /\ UNCHANGED <<row, running, lease, bounds, counts>>

(* findMany(): the due entries and their bodies, as they are now.            *)
Read(p) ==
    /\ pass[p] # Null
    /\ pass[p].stage = "read"
    /\ pass' = [pass EXCEPT ![p] =
                  [@ EXCEPT !.stage = "work",
                            !.item = [e \in Entries |-> IF Due(e) THEN "row" ELSE "none"],
                            !.body = [e \in Entries |-> row[e].body]]]
    /\ UNCHANGED <<row, running, lease, bounds, counts>>

At(p, e, step) == pass[p] # Null /\ pass[p].item[e] = step

(* The row is written by its id, whatever has become of it. *)
Write(p, e) ==
    /\ At(p, e, "row")
    /\ row' = [row EXCEPT ![e] = [@ EXCEPT !.status = "PUBLISHED", !.at = "none"]]
    /\ pass' = [pass EXCEPT ![p].item[e] = "version"]
    /\ published' = [published EXCEPT ![e] = @ + 1]
    /\ UNCHANGED <<running, lease, bounds, booked, fired>>

(* Writing the row throws, or the query for the last version after it does,  *)
(* and then the row is published without version and webhook: publishDue()   *)
(* ends, the other entries go on.                                            *)
WriteFails(p, e) ==
    /\ At(p, e, "row") \/ At(p, e, "version")
    /\ failures < MaxFailures
    /\ failures' = failures + 1
    /\ pass' = [pass EXCEPT ![p] = [@ EXCEPT !.item[e] = "done", !.threw = TRUE]]
    /\ running' = [running EXCEPT ![pass[p].by] = pass[p].threw /\ @]
    /\ UNCHANGED <<row, lease, calls, crashes, upsets, counts>>

(* The version and activity rows hold what was read; a failure to create one *)
(* is swallowed.                                                             *)
Version(p, e) ==
    /\ At(p, e, "version")
    /\ pass' = [pass EXCEPT ![p].item[e] = "webhook"]
    /\ UNCHANGED <<row, running, lease, bounds, counts>>

Fire(p, e) ==
    /\ At(p, e, "webhook")
    /\ pass' = [pass EXCEPT ![p].item[e] = "done"]
    /\ fired' = [fired EXCEPT ![e] = @ + 1]
    /\ UNCHANGED <<row, running, lease, bounds, booked, published>>

(* Mutant: the flag is reset on errors only. *)
FinishMutant(p) ==
    /\ pass[p] # Null
    /\ pass[p].stage = "work"
    /\ \A e \in Entries : pass[p].item[e] \in {"none", "done"}
    /\ pass' = [pass EXCEPT ![p] = Null]
    /\ UNCHANGED <<row, running, lease, bounds, counts>>

Finish(p) ==
    /\ pass[p] # Null
    /\ pass[p].stage = "work"
    /\ \A e \in Entries : pass[p].item[e] \in {"none", "done"}
    /\ Over(p)
    /\ UNCHANGED <<row, lease, bounds, counts>>

(* An instance stops and starts again; the lease stays. *)
Crash(i) ==
    /\ crashes < MaxCrashes
    /\ crashes' = crashes + 1
    /\ pass' = [p \in Passes |-> IF pass[p] # Null /\ pass[p].by = i THEN Null ELSE pass[p]]
    /\ running' = [running EXCEPT ![i] = FALSE]
    /\ UNCHANGED <<row, lease, calls, failures, upsets, counts>>

-----------------------------------------------------------------------------
Users(e) == Schedule(e) \/ Withdraw(e) \/ Edit(e) \/ PublishNow(e)
Publishing(p, e) == Write(p, e) \/ Version(p, e) \/ Fire(p, e)
Step(p) == Lock(p) \/ Read(p) \/ Finish(p) \/ \E e \in Entries : Publishing(p, e)

Next ==
    \/ \E e \in Entries : Users(e) \/ DateComes(e)
    \/ \E i \in Instances : Tick(i) \/ Crash(i)
    \/ \E p \in Passes : Step(p) \/ \E e \in Entries : WriteFails(p, e)
    \/ Expire

Spec == Init /\ [][Next]_vars

(* Timers fire, queries are answered and leases expire. *)
Fairness ==
    /\ \A i \in Instances : WF_vars(Tick(i))
    /\ \A p \in Passes : WF_vars(Step(p))
    /\ WF_vars(Expire)

FairSpec == Spec /\ Fairness

-----------------------------------------------------------------------------
(* Type invariant: rows, flags, passes and counters hold values of their     *)
(* types.                                                                    *)
TypeOK ==
    /\ row \in [Entries -> Rows]
    /\ running \in [Instances -> BOOLEAN]
    /\ lease \in BOOLEAN
    /\ pass \in [Passes -> PassRecords \cup {Null}]
    /\ calls \in 0..MaxCalls
    /\ failures \in 0..MaxFailures
    /\ crashes \in 0..MaxCrashes
    /\ blind \in BOOLEAN /\ meddled \in BOOLEAN
    /\ {booked, published, fired} \subseteq [Entries -> Nat]

(* A scheduled entry fires its content.published webhook once: only one      *)
(* instance publishes a given tick, as long as Redis answers.                *)
FiredOnce == ~blind => \A e \in Entries : fired[e] <= booked[e]

(* The scheduler publishes an entry only while it is SCHEDULED and due, when *)
(* users leave entries alone during a pass.                                  *)
PublishesOnlyDue ==
    [][~blind' /\ ~meddled' => \A e \in Entries : published'[e] # published[e] => Due(e)]_vars

(* The body kept as the version of a scheduled publication is the one that   *)
(* went live, when users leave entries alone during a pass.                  *)
VersionIsWhatWentLive ==
    [][~blind' /\ ~meddled' => \A p \in Passes, e \in Entries :
        At(p, e, "row") /\ published'[e] # published[e]
            => pass[p].body[e] = row'[e].body]_vars

(* A due entry is published in the end, or withdrawn. *)
DueIsPublished == \A e \in Entries : Due(e) ~> ~Due(e)
=============================================================================
