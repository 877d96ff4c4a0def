------------------------------ MODULE JobRunner ------------------------------
(***************************************************************************)
(* Background jobs (jobs.service.ts) and the batch handlers they run       *)
(* (content-job.handlers.ts, assets-job.handlers.ts).                      *)
(*                                                                         *)
(* A Job row in the database is what users see; execution goes through an  *)
(* in-process queue, or through BullMQ when Redis is configured (Durable). *)
(* The row, the queue and the runner are updated in separate awaited       *)
(* steps, and the process may stop between any two of them.  In-process,   *)
(* the next boot fails what it finds unfinished with one UPDATE that       *)
(* nothing waits for; with BullMQ a job whose worker lost its lock goes    *)
(* back to the queue a bounded number of times.  Any write may fail: what  *)
(* the code then does is a step of its own, and a row it leaves to nobody  *)
(* is remembered in stranded.                                              *)
(***************************************************************************)
EXTENDS Naturals, Sequences, FiniteSets

CONSTANTS
    Jobs,           \* ids of the jobs users start
    Slots,          \* the CONCURRENCY places of a worker
    Total,          \* items in each job's payload
    Parallel,       \* items a handler works on at once (1: content, 3: assets)
    Durable,        \* is REDIS_URL set, so that BullMQ executes?
    MaxStalls,      \* BullMQ's maxStalledCount (its default, 1)
    MaxCrashes,     \* bound: restarts in one behaviour
    Null

ASSUME SizesAssumption ==
    /\ Total \in Nat
    /\ Parallel \in Nat \ {0}
    /\ Durable \in BOOLEAN
    /\ MaxStalls \in Nat
    /\ MaxCrashes \in Nat

VARIABLES
    row,        \* the Job row of each job, Null before it exists
    adding,     \* rows created and not yet handed to the queue
    queue,      \* ids waiting to run, oldest first
    run,        \* what each slot runs, or Null
    claim,      \* BullMQ: the slot holding a job's lock, or Null
    stalls,     \* BullMQ: how often a job was taken back from its worker
    phase,      \* the process: down, booting (handlers not yet registered), up
    sweeping,   \* is this boot's orphan sweep still under way?
    crashes,    \* restarts so far
    stranded,   \* history variable: rows a failed write left to nobody
    begun,      \* history variable: times each job's handler was started
    tally,      \* history variable: items done and failed, over all runs of a job
    told        \* the outcome the bell last told the user, or Null

vars == <<row, adding, queue, run, claim, stalls, phase, sweeping, crashes,
          stranded, begun, tally, told>>

-----------------------------------------------------------------------------
Outcomes == {"SUCCEEDED", "PARTIAL", "FAILED"}
Statuses == {"QUEUED", "RUNNING"} \cup Outcomes
Errors == {"none", "interrupted", "no handler", "thrown"}
Counts == [ok : Nat, bad : Nat]
None == [ok |-> 0, bad |-> 0]

Rows == [status : Statuses, error : Errors, counts : Counts]

(* A runJob() call: the next step, the handler's counters, the items left,   *)
(* progress() writes that have not landed, and the outcome to be recorded.   *)
Runs == [job : Jobs,
         step : {"begin", "work", "finish", "notify"},
         counts : Counts,
         left : 0..Total,
         sent : SUBSET Counts,
         outcome : Outcomes \cup {Null},
         error : Errors]

ASSUME NullAssumption == Null \notin Rows \cup Runs \cup Slots \cup Outcomes

Unfinished(j) == row[j] # Null /\ row[j].status \in {"QUEUED", "RUNNING"}
Settled(j) == row[j] # Null /\ row[j].status \in Outcomes
Runners(j) == {s \in Slots : run[s] # Null /\ run[s].job = j}
Waiting == {queue[i] : i \in 1..Len(queue)}

(* Unfinished, and neither queued, nor run, nor held by a BullMQ lock. *)
Orphan(j) ==
    /\ Unfinished(j)
    /\ j \notin adding \cup Waiting
    /\ Runners(j) = {}
    /\ claim[j] = Null

Init ==
    /\ row = [j \in Jobs |-> Null]
    /\ adding = {}
    /\ queue = <<>>
    /\ run = [s \in Slots |-> Null]
    /\ claim = [j \in Jobs |-> Null]
    /\ stalls = [j \in Jobs |-> 0]
    /\ phase = "up"
    /\ sweeping = FALSE
    /\ crashes = 0
    /\ stranded = {}
    /\ begun = [j \in Jobs |-> 0]
    /\ tally = [j \in Jobs |-> None]
    /\ told = [j \in Jobs |-> Null]

history == <<begun, tally>>
process == <<phase, sweeping, crashes, stranded>>
bull == <<claim, stalls>>

(* After a step that failed, what it left to nobody. *)
Strands == stranded' = stranded \cup {j \in Jobs : Orphan(j)'}

-----------------------------------------------------------------------------
(* enqueue(), first await: the row exists, QUEUED. *)
CreateRow(j) ==
    /\ phase = "up"
    /\ row[j] = Null
    /\ row' = [row EXCEPT ![j] = [status |-> "QUEUED", error |-> "none", counts |-> None]]
    /\ adding' = adding \cup {j}
    /\ UNCHANGED <<queue, run, bull, process, history, told>>

(* enqueue(), second half: queue.add(), or pending.push() and pump(). *)
Push(j) ==
    /\ j \in adding
    /\ adding' = adding \ {j}
    /\ queue' = Append(queue, j)
    /\ UNCHANGED <<row, run, bull, process, history, told>>

(* enqueue(): queue.add() throws, and the caller is told so; the row stays.  *)
PushFails(j) ==
    /\ Durable
    /\ j \in adding
    /\ adding' = adding \ {j}
    /\ UNCHANGED <<row, queue, run, bull, phase, sweeping, crashes, history, told>>
    /\ Strands

(* runJob() has read the row; without a handler the job is to be failed. *)
NewRun(j, known) ==
    [job |-> j,
     step |-> IF known THEN "begin" ELSE "finish",
     counts |-> None,
     left |-> Total,
     sent |-> {},
     outcome |-> IF known THEN Null ELSE "FAILED",
     error |-> IF known THEN "none" ELSE "no handler"]

TakeMutant(s) ==
    /\ phase # "down"
    /\ run[s] = Null
    /\ queue # <<>>
    /\ run' = [run EXCEPT ![s] = NewRun(Head(queue), TRUE)]
    /\ UNCHANGED <<row, adding, queue, bull, process, history, told>>

(* A free slot takes the oldest job and reads its row.  Handlers register    *)
(* themselves while the modules boot; a worker may be faster.                *)
Take(s) ==
    /\ phase # "down"
    /\ run[s] = Null
    /\ queue # <<>>
    /\ queue' = Tail(queue)
    /\ \E known \in BOOLEAN :
          /\ phase = "up" => known
          /\ run' = [run EXCEPT ![s] = NewRun(Head(queue), known)]
    /\ claim' = IF Durable THEN [claim EXCEPT ![Head(queue)] = s] ELSE claim
    /\ UNCHANGED <<row, adding, stalls, process, history, told>>

At(s, step) == run[s] # Null /\ run[s].step = step

BeginMutant(s) ==
    /\ At(s, "begin")
    /\ run' = [run EXCEPT ![s].step = "work"]
    /\ begun' = [begun EXCEPT ![run[s].job] = @ + 1]
    /\ UNCHANGED <<row, adding, queue, bull, process, tally, told>>

(* The row turns RUNNING, whatever it says by now, and the handler starts. *)
Begin(s) ==
    /\ At(s, "begin")
    /\ row' = [row EXCEPT ![run[s].job].status = "RUNNING"]
    /\ run' = [run EXCEPT ![s].step = "work"]
    /\ begun' = [begun EXCEPT ![run[s].job] = @ + 1]
    /\ UNCHANGED <<adding, queue, bull, process, tally, told>>

More(c, ok) == IF ok THEN [c EXCEPT !.ok = @ + 1] ELSE [c EXCEPT !.bad = @ + 1]

(* The handler ends one item, well or badly (one failure does not sink the   *)
(* batch), and sends the new counters to the row.                            *)
WorkItem(s, ok) ==
    /\ At(s, "work")
    /\ run[s].left > 0
    /\ Cardinality(run[s].sent) < Parallel
    /\ run' = [run EXCEPT ![s].counts = More(@, ok),
                          ![s].left = @ - 1,
                          ![s].sent = @ \cup {More(run[s].counts, ok)}]
    /\ tally' = [tally EXCEPT ![run[s].job] = More(@, ok)]
    /\ UNCHANGED <<row, adding, queue, bull, process, begun, told>>

(* One progress() write lands.  Writes sent by items worked on in parallel   *)
(* use different connections and land in any order.                          *)
Land(s) ==
    /\ At(s, "work")
    /\ \E c \in run[s].sent :
          /\ row' = [row EXCEPT ![run[s].job].counts = c]
          /\ run' = [run EXCEPT ![s].sent = @ \ {c}]
    /\ UNCHANGED <<adding, queue, bull, process, history, told>>

VerdictMutant(c) == IF c.ok > 0 \/ c.bad = 0 THEN "SUCCEEDED" ELSE "FAILED"

Verdict(c) ==
    IF c.bad = 0 THEN "SUCCEEDED" ELSE IF c.ok > 0 THEN "PARTIAL" ELSE "FAILED"

(* The handler returns; the row is read back to decide how the job went. *)
Return(s) ==
    /\ At(s, "work")
    /\ run[s].left = 0
    /\ run[s].sent = {}
    /\ run' = [run EXCEPT ![s].step = "finish",
                          ![s].outcome = Verdict(row[run[s].job].counts)]
    /\ UNCHANGED <<row, adding, queue, bull, process, history, told>>

ThrowMutant(s) ==
    /\ At(s, "work")
    /\ run' = [run EXCEPT ![s] = Null]
    /\ UNCHANGED <<row, adding, queue, bull, process, history, told>>

(* setTotal(), progress(), the handler itself or the first write of the      *)
(* outcome throws: the catch records a failure instead.                      *)
Throw(s) ==
    /\ At(s, "work") \/ (At(s, "finish") /\ run[s].error = "none")
    /\ run' = [run EXCEPT ![s].step = "finish", ![s].sent = {},
                          ![s].outcome = "FAILED", ![s].error = "thrown"]
    /\ UNCHANGED <<row, adding, queue, bull, process, history, told>>

FinishMutant(s) ==
    /\ At(s, "finish")
    /\ run' = [run EXCEPT ![s].step = "notify"]
    /\ UNCHANGED <<row, adding, queue, bull, process, history, told>>

(* finish(): the outcome and, if there is one, the error. *)
Finish(s) ==
    /\ At(s, "finish")
    /\ row' = [row EXCEPT ![run[s].job].status = run[s].outcome,
                          ![run[s].job].error = IF run[s].error = "none" THEN @
                                                ELSE run[s].error]
    /\ run' = [run EXCEPT ![s].step = "notify"]
    /\ UNCHANGED <<adding, queue, bull, process, history, told>>

(* The bell tells the user (or fails to: it is best effort) and the slot is  *)
(* free.  A BullMQ job is completed only by the slot that holds its lock.    *)
Notify(s) ==
    /\ At(s, "notify")
    /\ told' \in {told, [told EXCEPT ![run[s].job] = run[s].outcome]}
    /\ run' = [run EXCEPT ![s] = Null]
    /\ claim' = IF claim[run[s].job] = s THEN [claim EXCEPT ![run[s].job] = Null] ELSE claim
    /\ UNCHANGED <<row, adding, queue, stalls, process, history>>

(* A read or write that nothing in runJob() catches throws: of the row, of   *)
(* RUNNING, or of a failure.  A worker logs it and is done with the job.     *)
(* In-process the rejection is nobody's and stops the process: see Crash.    *)
GivesUp(s) ==
    /\ Durable
    /\ At(s, "begin") \/ (At(s, "finish") /\ run[s].error # "none")
    /\ run' = [run EXCEPT ![s] = Null]
    /\ claim' = IF claim[run[s].job] = s THEN [claim EXCEPT ![run[s].job] = Null] ELSE claim
    /\ UNCHANGED <<row, adding, queue, stalls, phase, sweeping, crashes, history, told>>
    /\ Strands

-----------------------------------------------------------------------------
(* BullMQ (external): a lock lapsed, because its process died or could not   *)
(* renew it.  The job waits again, or is given up once it stalled too often. *)
Stall(j) ==
    /\ Durable
    /\ claim[j] # Null
    /\ claim' = [claim EXCEPT ![j] = Null]
    /\ IF stalls[j] < MaxStalls
         THEN /\ queue' = Append(queue, j)
              /\ stalls' = [stalls EXCEPT ![j] = @ + 1]
         ELSE UNCHANGED <<queue, stalls>>
    /\ UNCHANGED <<row, adding, run, process, history, told>>

(* The process stops.  What it held in memory is gone; BullMQ's lists are    *)
(* not, and neither are the rows.                                            *)
Crash ==
    /\ phase # "down"
    /\ crashes < MaxCrashes
    /\ crashes' = crashes + 1
    /\ phase' = "down"
    /\ sweeping' = FALSE
    /\ adding' = {}
    /\ queue' = IF Durable THEN queue ELSE <<>>
    /\ run' = [s \in Slots |-> Null]
    /\ UNCHANGED <<row, bull, stranded, history, told>>

(* onModuleInit(): in-process the orphan sweep is started and not awaited;   *)
(* it reaches what an earlier boot's sweep left.                             *)
Boot ==
    /\ phase = "down"
    /\ phase' = "booting"
    /\ sweeping' = ~Durable
    /\ stranded' = IF Durable THEN stranded ELSE {}
    /\ UNCHANGED <<row, adding, queue, run, bull, crashes, history, told>>

(* The feature modules have registered their handlers; requests come in. *)
Registered ==
    /\ phase = "booting"
    /\ phase' = "up"
    /\ UNCHANGED <<row, adding, queue, run, bull, sweeping, crashes, stranded, history, told>>

(* reapOrphanedJobs(): one UPDATE over every row still QUEUED or RUNNING. *)
Sweep ==
    /\ sweeping
    /\ sweeping' = FALSE
    /\ row' = [j \in Jobs |->
                 IF Unfinished(j)
                   THEN [row[j] EXCEPT !.status = "FAILED", !.error = "interrupted"]
                   ELSE row[j]]
    /\ UNCHANGED <<adding, queue, run, bull, phase, crashes, stranded, history, told>>

(* The UPDATE throws: that is logged, and not tried again before the next boot. *)
SweepFails ==
    /\ sweeping
    /\ sweeping' = FALSE
    /\ UNCHANGED <<row, adding, queue, run, bull, phase, crashes, history, told>>
    /\ Strands

-----------------------------------------------------------------------------
Step(s) ==
    \/ Take(s) \/ Begin(s) \/ Land(s) \/ Return(s) \/ Throw(s) \/ Finish(s) \/ Notify(s)
    \/ \E ok \in BOOLEAN : WorkItem(s, ok)

Next ==
    \/ \E j \in Jobs : CreateRow(j) \/ Push(j) \/ PushFails(j) \/ Stall(j)
    \/ \E s \in Slots : Step(s) \/ GivesUp(s)
    \/ Crash \/ Boot \/ Registered \/ Sweep \/ SweepFails

Spec == Init /\ [][Next]_vars

(* A running process goes on with what it began, one that stopped is started *)
(* again, and no item hangs for ever (image calls have a 60 s ceiling).      *)
Fairness ==
    /\ \A j \in Jobs : WF_vars(Push(j)) /\ WF_vars(Stall(j))
    /\ \A s \in Slots : WF_vars(Step(s))
    /\ WF_vars(Boot) /\ WF_vars(Registered) /\ WF_vars(Sweep)

FairSpec == Spec /\ Fairness

-----------------------------------------------------------------------------
(* Type invariant: rows, queues and slots hold values of their types. *)
TypeOK ==
    /\ row \in [Jobs -> Rows \cup {Null}]
    /\ adding \subseteq Jobs
    /\ queue \in Seq(Jobs)
    /\ run \in [Slots -> Runs \cup {Null}]
    /\ claim \in [Jobs -> Slots \cup {Null}]
    /\ stalls \in [Jobs -> 0..MaxStalls]
    /\ phase \in {"down", "booting", "up"}
    /\ sweeping \in BOOLEAN
    /\ crashes \in 0..MaxCrashes
    /\ stranded \subseteq Jobs
    /\ begun \in [Jobs -> Nat]
    /\ tally \in [Jobs -> Counts]
    /\ told \in [Jobs -> Outcomes \cup {Null}]

(* An unfinished row has somebody who will finish it: it is being enqueued,  *)
(* waits, runs, or a boot's sweep has yet to reach it.  In-process only a    *)
(* boot sweep that failed leaves a row to nobody, until the next boot.       *)
NoneStuck ==
    \A j \in Jobs : Unfinished(j) =>
        \/ j \in adding \cup Waiting
        \/ Runners(j) # {}
        \/ claim[j] # Null
        \/ ~Durable /\ (phase = "down" \/ sweeping)
        \/ j \in stranded

(* Only a lost BullMQ lock makes a job's handler start a second time: a      *)
(* restart of the in-process runner never repeats a batch.                   *)
RunsBounded == \A j \in Jobs : begun[j] <= 1 + stalls[j]

(* The outcome on the row is the one its items had: all done, some done, or  *)
(* none.                                                                     *)
OutcomeTruthful ==
    \A j \in Jobs : Settled(j) /\ begun[j] = 1 =>
        /\ row[j].status = "SUCCEEDED" => tally[j] = [ok |-> Total, bad |-> 0]
        /\ row[j].status = "PARTIAL" => tally[j].ok > 0 /\ tally[j].bad > 0
        /\ row[j].status = "FAILED" /\ row[j].error = "none" => tally[j].ok = 0

(* What the bell last told the user is what the row says, unless BullMQ took *)
(* the job back meanwhile.                                                   *)
ToldMatchesRow ==
    \A j \in Jobs : told[j] # Null /\ stalls[j] = 0 => row[j].status = told[j]

(* Every job a user starts gets an outcome, unless the sweep that should     *)
(* have failed it failed itself; then the next boot makes up for it.         *)
EveryJobEnds == \A j \in Jobs : row[j] # Null ~> Settled(j) \/ j \in stranded

(* What the user sees of a job, the sweep's failures told apart. *)
Shown(j) ==
    IF row[j] = Null THEN "ABSENT"
    ELSE IF row[j].status = "FAILED" /\ row[j].error = "interrupted" THEN "INTERRUPTED"
    ELSE row[j].status

Board == INSTANCE JobBoard WITH board <- [j \in Jobs |-> Shown(j)]

(* The in-process runner implements the job board: a job is queued, runs,    *)
(* and gets one outcome; only an interrupted job can still change.           *)
BoardSpec == Board!Spec
=============================================================================
