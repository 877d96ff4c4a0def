--------------------------- MODULE WebhookDelivery ---------------------------
(***************************************************************************)
(* Outbound webhooks (webhooks.service.ts): an event fans out to the hooks *)
(* that subscribe to it, and each delivery is tried up to MAX_ATTEMPTS     *)
(* times, by BullMQ when Redis is configured (Durable) or by timers of the *)
(* process.  Sending, recording the answer and settling the attempt are    *)
(* separate steps; hooks are edited, disabled and deleted meanwhile.  A    *)
(* BullMQ attempt reads its hook again, an in-process one keeps the copy   *)
(* dispatch() read.                                                        *)
(***************************************************************************)
EXTENDS Naturals, FiniteSets

CONSTANTS
    Hooks,          \* webhooks of the workspace
    Events,         \* events fired in it
    MaxAttempts,    \* MAX_ATTEMPTS (5 in the code)
    Durable,        \* is REDIS_URL set, so that BullMQ delivers?
    MaxStalls,      \* BullMQ's maxStalledCount (its default, 1)
    MaxCrashes,     \* bound: restarts in one behaviour
    MaxEdits,       \* bound: changes of hooks in one behaviour
    Null

ASSUME SizesAssumption ==
    /\ MaxAttempts \in Nat \ {0}
    /\ Durable \in BOOLEAN
    /\ MaxStalls \in Nat
    /\ MaxCrashes \in Nat
    /\ MaxEdits \in Nat

ASSUME NullAssumption == \A targets \in SUBSET Hooks : Null # targets

VARIABLES
    hook,       \* the webhook rows: enabled, deletedAt set
    editing,    \* hooks an update() has found and not yet written
    fan,        \* per event: Null before dispatch(), then the hooks still to be queued
    task,       \* per delivery (event and hook): how far it has come
    stalls,     \* BullMQ: how often a delivery was taken back after a crash
    crashes,    \* restarts so far
    edits,      \* hook changes so far
    posts,      \* history variable: requests sent
    accepted,   \* history variable: has the endpoint accepted it?
    unsaved,    \* history variable: did recording an answer fail?
    blank,      \* history variable: attempts that failed before any request
    late        \* history variable: requests sent when the hook was already deleted

vars == <<hook, editing, fan, task, stalls, crashes, edits, posts, accepted, unsaved, blank, late>>
history == <<posts, accepted, unsaved, blank, late>>
bounds == <<crashes, edits>>

-----------------------------------------------------------------------------
Deliveries == Events \X Hooks
HookRows == [enabled : BOOLEAN, deleted : BOOLEAN]

(* wait: for its turn or its backoff; post: about to send; record: answered, *)
(* not yet recorded; settle: to be completed or retried; stalled: its worker *)
(* died.  "made" counts the attempts that failed.                            *)
Tasks == [step : {"none", "wait", "post", "record", "settle", "stalled", "done"},
          made : 0..MaxAttempts,
          ok : BOOLEAN,
          why : {"-", "sent", "spent", "gone", "lost", "unsaved"}]

NoTask == [step |-> "none", made |-> 0, ok |-> FALSE, why |-> "-"]
Live(h) == hook[h].enabled /\ ~hook[h].deleted

Init ==
    /\ hook = [h \in Hooks |-> [enabled |-> TRUE, deleted |-> FALSE]]
    /\ editing = {}
    /\ fan = [e \in Events |-> Null]
    /\ task = [d \in Deliveries |-> NoTask]
    /\ stalls = [d \in Deliveries |-> 0]
    /\ crashes = 0
    /\ edits = 0
    /\ posts = [d \in Deliveries |-> 0]
    /\ accepted = [d \in Deliveries |-> FALSE]
    /\ unsaved = [d \in Deliveries |-> FALSE]
    /\ blank = [d \in Deliveries |-> 0]
    /\ late = [d \in Deliveries |-> 0]

-----------------------------------------------------------------------------
(* update(): finds a hook that is not deleted, and later writes "enabled" by  *)
(* its id, even when the hook was removed in between.                        *)
Update(h) ==
    /\ edits < MaxEdits
    /\ ~hook[h].deleted
    /\ editing' = editing \cup {h}
    /\ edits' = edits + 1
    /\ UNCHANGED <<hook, fan, task, stalls, crashes, history>>

Write(h) ==
    /\ h \in editing
    /\ \E on \in BOOLEAN : hook' = [hook EXCEPT ![h].enabled = on]
    /\ editing' = editing \ {h}
    /\ UNCHANGED <<fan, task, stalls, bounds, history>>

(* remove(): the row stays, marked deleted and disabled. *)
Remove(h) ==
    /\ edits < MaxEdits
    /\ ~hook[h].deleted
    /\ hook' = [hook EXCEPT ![h] = [enabled |-> FALSE, deleted |-> TRUE]]
    /\ edits' = edits + 1
    /\ UNCHANGED <<editing, fan, task, stalls, crashes, history>>

(* dispatch(): reads the live hooks; in-process every first attempt starts,  *)
(* with BullMQ the deliveries are queued one after the other.                *)
Dispatch(e) ==
    /\ fan[e] = Null
    /\ LET targets == {h \in Hooks : Live(h)} IN
       IF Durable
         THEN /\ fan' = [fan EXCEPT ![e] = targets]
              /\ UNCHANGED task
         ELSE /\ fan' = [fan EXCEPT ![e] = {}]
              /\ task' = [d \in Deliveries |->
                            IF d[1] = e /\ d[2] \in targets
                              THEN [task[d] EXCEPT !.step = "post"] ELSE task[d]]
    /\ UNCHANGED <<hook, editing, stalls, bounds, history>>

Queue(e, h) ==
    /\ fan[e] # Null
    /\ h \in fan[e]
    /\ fan' = [fan EXCEPT ![e] = @ \ {h}]
    /\ task' = [task EXCEPT ![<<e, h>>].step = "wait"]
    /\ UNCHANGED <<hook, editing, stalls, bounds, history>>

(* Adding to the queue fails: dispatch() gives up the rest of its hooks. *)
QueueFails(e) ==
    /\ fan[e] \notin {Null, {}}
    /\ fan' = [fan EXCEPT ![e] = {}]
    /\ UNCHANGED <<hook, editing, task, stalls, bounds, history>>

End(t, why) == [t EXCEPT !.step = "done", !.why = why]

(* A failed attempt: once more after its backoff, or never again. *)
Failed(t) ==
    LET n == t.made + 1 IN
    IF n < MaxAttempts THEN [t EXCEPT !.step = "wait", !.made = n]
    ELSE End([t EXCEPT !.made = n], "spent")

(* Mutant: the worker looks at "enabled" only. *)
TurnMutant(d) ==
    /\ task[d].step = "wait"
    /\ task' = [task EXCEPT ![d] = IF Durable /\ ~hook[d[2]].enabled THEN End(@, "gone")
                                   ELSE [@ EXCEPT !.step = "post"]]
    /\ UNCHANGED <<hook, editing, fan, stalls, bounds, history>>

(* A BullMQ worker takes the delivery and reads its hook: deleted or         *)
(* disabled means stop.  In-process the timer fires and sends to the copy.   *)
Turn(d) ==
    /\ task[d].step = "wait"
    /\ task' = [task EXCEPT ![d] = IF Durable /\ ~Live(d[2]) THEN End(@, "gone")
                                   ELSE [@ EXCEPT !.step = "post"]]
    /\ UNCHANGED <<hook, editing, fan, stalls, bounds, history>>

(* The worker cannot read the hook: BullMQ takes that for a failed attempt,  *)
(* and no request was sent.                                                  *)
TurnFails(d) ==
    /\ Durable
    /\ task[d].step = "wait"
    /\ task' = [task EXCEPT ![d] = Failed(@)]
    /\ blank' = [blank EXCEPT ![d] = @ + 1]
    /\ UNCHANGED <<hook, editing, fan, stalls, bounds, posts, accepted, unsaved, late>>

(* deliver(): the request goes out and is answered, well or not. *)
Post(d) ==
    /\ task[d].step = "post"
    /\ \E ok \in BOOLEAN :
          /\ task' = [task EXCEPT ![d].step = "record", ![d].ok = ok]
          /\ accepted' = [accepted EXCEPT ![d] = @ \/ ok]
    /\ posts' = [posts EXCEPT ![d] = @ + 1]
    /\ late' = [late EXCEPT ![d] = IF hook[d[2]].deleted THEN @ + 1 ELSE @]
    /\ UNCHANGED <<hook, editing, fan, stalls, bounds, unsaved, blank>>

(* The WebhookDelivery row is written. *)
Record(d) ==
    /\ task[d].step = "record"
    /\ task' = [task EXCEPT ![d].step = "settle"]
    /\ UNCHANGED <<hook, editing, fan, stalls, bounds, history>>

(* Writing that row fails: deliver() throws.  BullMQ takes it for a failed   *)
(* attempt, whatever the endpoint said; in-process nobody tries again.       *)
RecordFails(d) ==
    /\ task[d].step = "record"
    /\ task' = [task EXCEPT ![d] = IF Durable THEN Failed(@) ELSE End(@, "unsaved")]
    /\ unsaved' = [unsaved EXCEPT ![d] = TRUE]
    /\ UNCHANGED <<hook, editing, fan, stalls, bounds, posts, accepted, blank, late>>

(* Mutant: every attempt counts as failed. *)
SettleMutant(d) ==
    /\ task[d].step = "settle"
    /\ task' = [task EXCEPT ![d] = Failed(@)]
    /\ UNCHANGED <<hook, editing, fan, stalls, bounds, history>>

(* Mutant: a failed attempt is never settled. *)
SettleMutantStop(d) ==
    /\ task[d].step = "settle"
    /\ task[d].ok
    /\ task' = [task EXCEPT ![d] = End(@, "sent")]
    /\ UNCHANGED <<hook, editing, fan, stalls, bounds, history>>

(* The attempt is over: completed, or its retry is scheduled. *)
Settle(d) ==
    /\ task[d].step = "settle"
    /\ task' = [task EXCEPT ![d] = IF task[d].ok THEN End(@, "sent") ELSE Failed(@)]
    /\ UNCHANGED <<hook, editing, fan, stalls, bounds, history>>

(* The process stops.  Its timers and requests are gone, and what dispatch() *)
(* had not queued yet; BullMQ's jobs stay, those a worker held as stalled.   *)
Crash ==
    /\ crashes < MaxCrashes
    /\ crashes' = crashes + 1
    /\ editing' = {}
    /\ fan' = [e \in Events |-> IF fan[e] = Null THEN Null ELSE {}]
    /\ task' = [d \in Deliveries |->
                  IF Durable
                    THEN IF task[d].step \in {"post", "record", "settle"}
                           THEN [task[d] EXCEPT !.step = "stalled"] ELSE task[d]
                    ELSE IF task[d].step \notin {"none", "done"}
                           THEN End(task[d], "lost") ELSE task[d]]
    /\ UNCHANGED <<hook, stalls, edits, history>>

(* BullMQ (external) gives a stalled delivery to a worker again, or gives    *)
(* it up when it stalled too often.                                          *)
Stall(d) ==
    /\ task[d].step = "stalled"
    /\ IF stalls[d] < MaxStalls
         THEN /\ task' = [task EXCEPT ![d].step = "wait"]
              /\ stalls' = [stalls EXCEPT ![d] = @ + 1]
         ELSE /\ task' = [task EXCEPT ![d] = End(@, "lost")]
              /\ UNCHANGED stalls
    /\ UNCHANGED <<hook, editing, fan, bounds, history>>

-----------------------------------------------------------------------------
Attempt(d) == Turn(d) \/ Post(d) \/ Record(d) \/ Settle(d) \/ Stall(d)

Next ==
    \/ \E h \in Hooks : Update(h) \/ Write(h) \/ Remove(h)
    \/ \E e \in Events : Dispatch(e) \/ QueueFails(e) \/ \E h \in Hooks : Queue(e, h)
    \/ \E d \in Deliveries : Attempt(d) \/ TurnFails(d) \/ RecordFails(d)
    \/ Crash

Spec == Init /\ [][Next]_vars

(* Requests time out after 10 s, timers fire and workers take their turn. *)
Fairness ==
    /\ \A e \in Events, h \in Hooks : WF_vars(Queue(e, h))
    /\ \A d \in Deliveries : WF_vars(Attempt(d))

FairSpec == Spec /\ Fairness

-----------------------------------------------------------------------------
(* Type invariant: hooks and deliveries hold values of their types. *)
TypeOK ==
    /\ hook \in [Hooks -> HookRows]
    /\ editing \subseteq Hooks
    /\ fan \in [Events -> (SUBSET Hooks) \cup {Null}]
    /\ task \in [Deliveries -> Tasks]
    /\ stalls \in [Deliveries -> 0..MaxStalls]
    /\ crashes \in 0..MaxCrashes
    /\ edits \in 0..MaxEdits
    /\ posts \in [Deliveries -> Nat]
    /\ accepted \in [Deliveries -> BOOLEAN]
    /\ unsaved \in [Deliveries -> BOOLEAN]
    /\ blank \in [Deliveries -> Nat]
    /\ late \in [Deliveries -> Nat]

(* A delivery is sent at most MAX_ATTEMPTS times, once more for every time   *)
(* a crash made BullMQ take it back, and it is given up only after that many *)
(* tries, those included that failed before a request was sent.              *)
AttemptsBounded ==
    \A d \in Deliveries :
        /\ posts[d] <= MaxAttempts + stalls[d]
        /\ task[d].why = "spent" => posts[d] + blank[d] >= MaxAttempts

(* What an endpoint has accepted is not sent to it again, unless the answer  *)
(* could not be recorded or a crash came before the attempt was settled.     *)
SentOnce ==
    [][\A d \in Deliveries :
        posts'[d] > posts[d] => ~accepted[d] \/ unsaved[d] \/ stalls[d] > 0]_vars

(* A deleted webhook stops: at most the request being prepared still leaves. *)
DeletedHookStops == \A d \in Deliveries : late[d] <= 1

(* Every delivery comes to an end: sent, given up, or its hook is gone. *)
EveryDeliveryEnds ==
    \A d \in Deliveries : task[d].step # "none" ~> task[d].step = "done"
=============================================================================
