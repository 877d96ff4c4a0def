----------------------------- MODULE SiteAudit -----------------------------
(***************************************************************************)
(* One workspace's audit of its live site (SeoAuditService, SeoDripService)*)
(* over the polite gate.  A run plans what to fetch, re-checks the rest    *)
(* from stored facts, fetches with a few requests in flight, retries what  *)
(* the site refused, and fills a large type in from a sample of it.  A     *)
(* background drip audits pages beside it, a user may pause, resume or     *)
(* cancel, pages change, and the process may restart.                      *)
(*                                                                         *)
(* The pages are those of one page type.  A page's row is its `facts', and *)
(* whether needsFetch() holds of it: `due'.                                *)
(***************************************************************************)
EXTENDS PoliteGate

CONSTANTS
    Pages,
    Runners,        \* the requests of a run that may be in flight
    Drip,           \* the background worker
    SampleOver,     \* SAMPLE_OVER
    SampleSize,     \* SAMPLE_SIZE
    RetryRounds,    \* RETRY_ROUNDS
    Afters,         \* the Retry-After values a site may send, Null for none
    Resets,         \* in how many ticks its own window may reset
    MaxEvents       \* bound of the model: runs, drips, odd answers, changes, orders, restarts;
                    \* refusals count too, and may go on beyond it

ASSUME AuditAssumption ==
    /\ Drip \notin Runners
    /\ {SampleSize, RetryRounds} \subseteq Nat
    /\ Afters \subseteq Nat \cup {Null}
    /\ Resets \subseteq Nat
    /\ MaxEvents \in Nat

Workers == Runners \cup {Drip}

(* The RateLimit headers the site may send: none, or what is left.           *)
Limits == {Null} \cup [reset : Resets, rate : {Null, MinRps}]

Verdicts == {"inferred", "fetched"}

(* A worker asks whether to go on, then audits its page.                     *)
Asking == [page : Pages, step : {"asking"}]
Auditing == [page : Pages, step : {"waiting", "sent", "served"}, left : Nat,
             early : BOOLEAN, had : BOOLEAN, old : BOOLEAN,
             answer : {Null, "page", "transient", "rejected", "failed"}]

ASSUME NoJobAssumption == Null \notin Asking \cup Auditing

VARIABLES
    \* the rows of the audit
    facts,      \* [Pages -> {"none", "unchecked"} \cup Verdicts]
    due,        \* pages a "changed" run would fetch
    stale,      \* history variable: pages that changed after their facts were read
    crossed,    \* history variable: pages whose change came while facts of before it
                \* were on their way to the row
    fresh,      \* pages with fetchedAt >= startedAt
    \* the workers
    job,        \* what each worker audits, or Null
    shared,     \* history variable: pages two audits, or an audit and a row
                \* the run writes without one, were at once
    \* the run
    stage,      \* "idle", "fetch" or "fill"
    reuse,      \* pages to re-check from the facts the plan read
    outdated,   \* history variable: those that changed since
    planned,    \* pages the run has to fetch
    rest,       \* pages to fill in from the sample
    queue,      \* the pages of this round not taken yet
    retry,      \* the pages refused in this round
    left,       \* notChecked: the pages still refused after the last round
    visited,    \* done: pages the run fetched, or failed on
    round,
    cancelled, rejected,
    overruled,  \* history variable: the run went on after it had decided to stop
    \* the cache
    shown,      \* runKey: a run is shown as in progress
    ctl,        \* ctlKey: "none", "pause" or "cancel"
    count       \* history variable: the events so far

rows == <<facts, due, stale, crossed, fresh>>
plan == <<reuse, outdated, planned, rest>>
run == <<stage, queue, retry, left, visited, round, cancelled, rejected, overruled>>
cache == <<shown, ctl>>
vars == <<gate, rows, job, shared, plan, run, cache, count>>

Busy(W) == {w \in W : job[w] # Null}
PagesOf(W) == {job[w].page : w \in Busy(W)}
Step(w) == IF job[w] = Null THEN "free" ELSE job[w].step

Counted == count < MaxEvents /\ count' = count + 1

EndRun ==
    /\ stage' = "idle" /\ round' = 0
    /\ reuse' = {} /\ outdated' = {} /\ planned' = {} /\ rest' = {} /\ queue' = {} /\ retry' = {}
    /\ left' = {} /\ visited' = {}
    /\ cancelled' = FALSE /\ rejected' = FALSE /\ overruled' = FALSE
    /\ fresh' = {}

(* Some pages were audited by earlier runs.                                  *)
Init ==
    /\ GateInit
    /\ due \in SUBSET Pages
    /\ facts = [p \in Pages |-> IF p \in due THEN "none" ELSE "fetched"]
    /\ stale = {} /\ crossed = {} /\ fresh = {} /\ shared = {}
    /\ job = [w \in Workers |-> Null]
    /\ stage = "idle" /\ round = 0
    /\ reuse = {} /\ outdated = {} /\ planned = {} /\ rest = {} /\ queue = {} /\ retry = {}
    /\ left = {} /\ visited = {}
    /\ cancelled = FALSE /\ rejected = FALSE /\ overruled = FALSE
    /\ shown = FALSE /\ ctl = "none"
    /\ count = 0

-----------------------------------------------------------------------------
(* auditEntry(): one page.                                                   *)

(* It reads the stored row, asks for the live page and reserves its slot.    *)
Take(w, p) ==
    /\ Reserve
    /\ job' = [job EXCEPT ![w] = [page |-> p, step |-> "waiting", left |-> nextIn,
                                  early |-> FALSE, had |-> facts[p] \in Verdicts, answer |-> Null, old |-> FALSE]]
    /\ shared' = IF p \in PagesOf(Workers \ {w}) THEN shared \cup {p} ELSE shared \ {p}

(* take(), once the slot has come, unless the run was cancelled.             *)
Send(w) ==
    /\ Step(w) = "waiting" /\ job[w].left = 0
    /\ w # Drip => ctl # "cancel"
    /\ job' = [job EXCEPT ![w] = [@ EXCEPT !.step = "sent", !.early = FALSE]]
    /\ UNCHANGED <<gate, rows, shared, plan, run, cache, count>>

(* The answers there are, with what each tells the gate: one about the page, *)
(* a 429 or 503, another 5xx, none at all, a 404 of a page that used to load *)
(* through a prefix the site accepts no more, and one the audit fails on.    *)
Answers == {<<"page", "ok">>, <<"transient", "refused">>, <<"transient", "ok">>,
            <<"transient", "none">>, <<"rejected", "ok">>, <<"failed", "ok">>}

(* A site may refuse for ever: a plain refusal of a run's request counts as  *)
(* an event, but the bound on events never rules it out.                     *)
Counts(w, answer, after, limit) ==
    IF answer = <<"page", "ok">> /\ limit = Null
    THEN UNCHANGED count
    ELSE IF answer = <<"transient", "refused">> /\ w # Drip /\ after = Null /\ limit = Null
    THEN count' = Smaller(MaxEvents, count + 1)
    ELSE Counted

(* Slots reserved before a refusal stay where they are: they may be early.   *)
Serve(w) ==
    /\ Step(w) = "sent"
    /\ \E a \in Answers, after \in Afters, limit \in Limits :
         /\ a[2] # "refused" => after = Null
         /\ a[1] = "rejected" => job[w].had
         /\ Answered(a[2], after, limit)
         /\ Counts(w, a, after, limit)
         /\ job' = [v \in Workers |->
                     IF v = w THEN [job[w] EXCEPT !.step = "served", !.answer = a[1]]
                     ELSE IF Step(v) = "waiting" /\ job[v].left < pausedFor'
                     THEN [job[v] EXCEPT !.early = TRUE]
                     ELSE job[v]]
    /\ UNCHANGED <<rows, shared, plan, run, cache>>

(* The facts of a page are stored; one without a verdict that the site did   *)
(* not answer for is marked, one with a verdict keeps it.                    *)
KeepsMutant(w) == FALSE

Keeps(w) == job[w].had

StoreAnswer(w) ==
    LET p == job[w].page
        answer == job[w].answer
    IN  IF answer = "page"
        THEN /\ facts' = [facts EXCEPT ![p] = "fetched"]
             /\ due' = due \ {p}
             /\ stale' = IF job[w].old THEN stale \cup {p} ELSE stale \ {p}
             /\ crossed' = IF job[w].old THEN crossed \cup {p} ELSE crossed \ {p}
             /\ fresh' = IF stage = "idle" THEN {} ELSE fresh \cup {p}
        ELSE IF answer = "transient" /\ ~Keeps(w)
        THEN /\ facts' = [facts EXCEPT ![p] = "unchecked"]
             /\ due' = due \cup {p}
             /\ UNCHANGED <<stale, crossed, fresh>>
        ELSE UNCHANGED rows

Freed(w) ==
    /\ job' = [job EXCEPT ![w] = Null]
    /\ shared' = shared \ ({job[w].page} \ PagesOf(Workers \ {w}))

(* The run writes a row that a worker is auditing.                           *)
Joined(p) == shared \cup ({p} \cap PagesOf(Workers))

-----------------------------------------------------------------------------
(* The drip audits a page that changed or has no verdict, and, when no run   *)
(* is shown, one that is due for another look (tick(), recheckStalest()).    *)
DripTake(p) ==
    /\ job[Drip] = Null
    /\ p \in due \/ ~shown
    /\ Take(Drip, p)
    /\ Counted
    /\ UNCHANGED <<rows, plan, run, cache>>

DripRecord ==
    /\ Step(Drip) = "served"
    /\ StoreAnswer(Drip)
    /\ Freed(Drip)
    /\ UNCHANGED <<gate, plan, run, cache, count>>

-----------------------------------------------------------------------------
(* planRun(): a full run fetches every page; a deploy ("sample") takes every *)
(* page as changed, and otherwise what is due is fetched, or what the site's *)
(* sitemap says is newer.  A type with too many to fetch is sampled.         *)
Over(mode) == IF mode = "sample" THEN SampleSize ELSE SampleOver

Start ==
    /\ stage = "idle"
    /\ Counted
    /\ \E mode \in {"changed", "sample", "full"}, fetch \in SUBSET Pages :
       \E sample \in SUBSET fetch :
         /\ IF mode = "changed" THEN due \subseteq fetch ELSE fetch = Pages
         /\ IF mode = "full" \/ Cardinality(fetch) <= Over(mode)
            THEN sample = fetch
            ELSE Cardinality(sample) = SampleSize
         /\ reuse' = Pages \ fetch
         /\ planned' = sample /\ queue' = sample
         /\ rest' = fetch \ sample
    /\ stage' = "fetch" /\ round' = 0
    /\ outdated' = {} /\ retry' = {} /\ left' = {} /\ visited' = {} /\ fresh' = {}
    /\ cancelled' = FALSE /\ rejected' = FALSE /\ overruled' = FALSE
    /\ shown' = TRUE /\ ctl' = "none"
    /\ UNCHANGED <<gate, facts, due, stale, crossed, job, shared>>

(* A page with nothing new is re-checked from the facts the plan read, which *)
(* are written back; when it was last fetched stays.                         *)
Reuse(p) ==
    /\ p \in reuse
    /\ reuse' = reuse \ {p}
    /\ facts' = [facts EXCEPT ![p] = "fetched"]
    /\ stale' = IF p \in outdated THEN stale \cup {p} ELSE stale
    /\ crossed' = IF p \in outdated \ due THEN crossed \cup {p} ELSE crossed
    /\ shared' = Joined(p)
    /\ UNCHANGED <<gate, due, fresh, job, outdated, planned, rest, run, cache, count>>

(* mapLimit(): a free runner takes the next page and asks whether to stop.   *)
Ask(w, p) ==
    /\ stage = "fetch" /\ reuse = {}
    /\ p \in queue /\ \E v \in Runners : job[v] = Null
    /\ w = CHOOSE v \in Runners : job[v] = Null
    /\ queue' = queue \ {p}
    /\ job' = [job EXCEPT ![w] = [page |-> p, step |-> "asking"]]
    /\ UNCHANGED <<gate, rows, shared, plan, stage, retry, left, visited, round, cancelled, rejected,
                   overruled, cache, count>>

(* The run stops: the rest of the queue is passed over.                      *)
Halt(w) ==
    /\ cancelled' = TRUE
    /\ queue' = {}
    /\ Freed(w)
    /\ UNCHANGED <<stage, retry, left, visited, round, overruled>>

(* stopRequested(): the answer it gets replaces what was known before.       *)
Overruled == cancelled' = FALSE /\ overruled' = (overruled \/ cancelled)

Go(w) ==
    /\ Step(w) = "asking" /\ ctl = "none"
    /\ Overruled
    /\ Take(w, job[w].page)
    /\ UNCHANGED <<rows, plan, stage, queue, retry, left, visited, round, rejected, cache, count>>

(* A runner finds that the run was cancelled.                                *)
Stop(w) ==
    /\ ctl = "cancel"
    /\ Step(w) = "asking" \/ (Step(w) = "waiting" /\ job[w].left = 0)
    /\ Halt(w)
    /\ UNCHANGED <<gate, rows, plan, rejected, cache, count>>

(* done counts a page that was answered or failed, not one that was refused. *)
DoneMutant(w) == visited \cup {job[w].page}

Done(w) == IF job[w].answer = "transient" THEN visited ELSE visited \cup {job[w].page}

Record(w) ==
    /\ Step(w) = "served"
    /\ StoreAnswer(w)
    /\ IF job[w].answer = "rejected"
       THEN Halt(w) /\ rejected' = TRUE
       ELSE /\ Freed(w)
            /\ retry' = IF job[w].answer = "transient" THEN retry \cup {job[w].page} ELSE retry
            /\ visited' = Done(w)
            /\ UNCHANGED <<stage, queue, left, round, cancelled, rejected, overruled>>
    /\ UNCHANGED <<gate, plan, cache, count>>

RoundOver == stage = "fetch" /\ reuse = {} /\ queue = {} /\ Busy(Runners) = {}

Again == retry # {} /\ round < RetryRounds /\ ~cancelled

(* A round follows while there are pages to retry, RETRY_ROUNDS times.        *)
FollowingMutant == round

Following == round + 1

NextRound ==
    /\ RoundOver /\ Again
    /\ queue' = retry /\ retry' = {}
    /\ round' = Following
    /\ UNCHANGED <<gate, rows, job, shared, plan, stage, left, visited, cancelled, rejected, overruled,
                   cache, count>>

(* A sample proves something when half of it was fetched and it agrees on    *)
(* the template; when it does not, the pages it stood for are fetched too.   *)
Proves(sample) == sample # {} /\ 2 * Cardinality(sample) >= Smaller(SampleSize, Cardinality(planned))

NextPart ==
    /\ RoundOver /\ ~Again
    /\ retry' = {}
    /\ left' = IF cancelled THEN left ELSE left \cup retry
    /\ \/ /\ cancelled \/ rest = {} \/ Proves(planned \cap fresh)
          /\ stage' = "fill"
          /\ rest' = IF cancelled THEN {} ELSE rest
          /\ UNCHANGED <<planned, queue, round>>
       \/ /\ ~cancelled /\ rest # {}
          /\ queue' = rest /\ planned' = planned \cup rest /\ rest' = {}
          /\ round' = 0
          /\ UNCHANGED stage
    /\ UNCHANGED <<gate, rows, job, shared, reuse, outdated, visited, cancelled, rejected, overruled,
                   cache, count>>

(* inferLive(): filled in from the sample, and labelled as not fetched.      *)
UnfetchedMutant(p) == due

Unfetched(p) == due \cup {p}

Infer(p) ==
    /\ stage = "fill" /\ p \in rest
    /\ rest' = rest \ {p}
    /\ facts' = [facts EXCEPT ![p] = "inferred"]
    /\ due' = Unfetched(p)
    /\ crossed' = crossed \ {p}
    /\ shared' = Joined(p)
    /\ UNCHANGED <<gate, stale, fresh, job, reuse, outdated, planned, run, cache, count>>

(* The run's own state ends with it.                                         *)
Finish ==
    /\ stage = "fill" /\ rest = {}
    /\ EndRun
    /\ shown' = FALSE /\ ctl' = "none"
    /\ UNCHANGED <<gate, facts, due, stale, crossed, job, shared, count>>

-----------------------------------------------------------------------------
(* control(), offered while a run is shown.                                  *)
Order(o) ==
    /\ shown /\ o # ctl
    /\ ctl' = o
    /\ Counted
    /\ UNCHANGED <<gate, rows, job, shared, plan, run, shown>>

(* What a page is built from changed, or the site says so (markChanged()).   *)
Change(p) ==
    /\ Counted
    /\ due' = due \cup {p} /\ stale' = stale \cup {p} /\ crossed' = crossed \ {p}
    /\ outdated' = outdated \cup (reuse \cap {p})
    /\ job' = [w \in Workers |-> IF Step(w) = "served" /\ job[w].page = p
                                 THEN [job[w] EXCEPT !.old = TRUE] ELSE job[w]]
    /\ UNCHANGED <<gate, facts, fresh, shared, reuse, planned, rest, run, cache>>

(* The run and the waits are lost; what is in the cache stays until it       *)
(* expires, two hours after the run last wrote it.                           *)
Restart ==
    /\ Counted
    /\ Reset
    /\ job' = [w \in Workers |-> Null]
    /\ shared' = {}
    /\ EndRun
    /\ UNCHANGED <<facts, due, stale, crossed, cache>>

Expire ==
    /\ stage = "idle" /\ shown
    /\ shown' = FALSE /\ ctl' = "none"
    /\ UNCHANGED <<gate, rows, job, shared, plan, run, count>>

Store ==
    /\ \E r \in Rates : Remember(r)
    /\ UNCHANGED <<rows, job, shared, plan, run, cache, count>>

(* A tick is the slice of a wait, SLICE_MS: after it, a waiter of a run that *)
(* was cancelled leaves.  No one whose slot has come is still waiting.       *)
Leaving == {w \in Busy(Runners) : ctl = "cancel" /\ Step(w) = "waiting"}

Tick ==
    /\ \A w \in Busy(Workers) : Step(w) = "waiting" => job[w].left > 0
    /\ Pass
    /\ job' = [w \in Workers |-> IF w \in Leaving THEN Null
                                 ELSE IF Step(w) = "waiting" THEN [job[w] EXCEPT !.left = @ - 1]
                                 ELSE job[w]]
    /\ shared' = shared \cap PagesOf(Workers \ Leaving)
    /\ cancelled' = (cancelled \/ Leaving # {})
    /\ queue' = IF Leaving = {} THEN queue ELSE {}
    /\ UNCHANGED <<rows, plan, stage, retry, left, visited, round, rejected, overruled, shown, ctl, count>>

RunStep(w) == Go(w) \/ Stop(w) \/ Record(w) \/ \E p \in Pages : Ask(w, p)

Turn == NextRound \/ NextPart \/ Finish \/ \E p \in Pages : Reuse(p) \/ Infer(p)

Next ==
    \/ Start \/ Turn
    \/ \E w \in Runners : RunStep(w)
    \/ \E w \in Workers : Send(w) \/ Serve(w)
    \/ \E p \in Pages : DripTake(p) \/ Change(p)
    \/ DripRecord
    \/ \E o \in {"none", "pause", "cancel"} : Order(o)
    \/ Restart \/ Expire \/ Store \/ Tick

Spec == Init /\ [][Next]_vars

(* The process goes on, timers fire, and the site answers or times out.      *)
FairSpec ==
    /\ Spec
    /\ WF_vars(Turn) /\ WF_vars(Tick)
    /\ \A w \in Runners : WF_vars(RunStep(w) \/ Send(w) \/ Serve(w))
    /\ WF_vars(Send(Drip) \/ Serve(Drip))

-----------------------------------------------------------------------------
TypeOK ==
    /\ GateTypeOK
    /\ facts \in [Pages -> {"none", "unchecked"} \cup Verdicts]
    /\ job \in [Workers -> {Null} \cup Asking \cup Auditing]
    /\ {due, stale, crossed, fresh, shared} \subseteq SUBSET Pages
    /\ {reuse, outdated, planned, rest, queue, retry, left, visited} \subseteq SUBSET Pages
    /\ stage \in {"idle", "fetch", "fill"} /\ round \in 0..RetryRounds
    /\ cancelled \in BOOLEAN /\ rejected \in BOOLEAN /\ overruled \in BOOLEAN
    /\ shown \in BOOLEAN
    /\ count \in 0..MaxEvents
    /\ ctl \in {"none", "pause", "cancel"}

(* Whatever order answers come in, a request that takes its slot after the   *)
(* site asked to be left alone is not sent before the end of that hold: only *)
(* the ones whose slots were reserved before are.                            *)
HoldHonoured ==
    \A w \in Workers : Step(w) = "waiting" /\ ~job[w].early => pausedFor <= job[w].left

(* Every page a run has to fetch is, at any time, in exactly one place: not  *)
(* begun, in flight, refused and to be retried, given up on, or done.  A run *)
(* that was not stopped reports on all of them.                              *)
Accounted ==
    stage # "idle" /\ ~cancelled /\ ~rejected /\ ~overruled =>
        LET places == <<queue, PagesOf(Runners), retry, left, visited>>
        IN  /\ planned = UNION {places[i] : i \in 1..5}
            /\ \A i, j \in 1..5 : i # j => places[i] \cap places[j] = {}

(* A page whose stored facts are not those of the live page is fetched by    *)
(* the next run, unless it changed while the older facts were on their way.  *)
StaleRefetched ==
    \A p \in Pages : facts[p] # "fetched" \/ p \in stale \ crossed => p \in due

(* An answer that says nothing about a page never takes a verdict away, save *)
(* from a page that two audits were at.                                      *)
VerdictSurvives ==
    [][\A p \in Pages : facts[p] \in Verdicts /\ facts'[p] = "unchecked" => p \in shared]_vars

(* A run that is not held by its user ends, however often it is refused.     *)
RunEnds == []<>(stage = "idle" \/ ctl = "pause")
=============================================================================
