------------------------- MODULE WebhookDeliveryProofs -------------------------
(***************************************************************************)
(* Proofs about WebhookDelivery, for any hooks, events, attempts, restarts *)
(* and edits: types, the bound on what is sent, that what was accepted is  *)
(* not sent again, and that with BullMQ a deleted hook stops.              *)
(***************************************************************************)
EXTENDS WebhookDelivery, TLAPS

(* How a delivery's attempts account for the n tries made for it, when        *)
(* BullMQ took it back s times: at most one try per failed attempt, per time  *)
(* it was taken back, and for the attempt under way.                          *)
Accounts(t, n, s) ==
    /\ t.step # "done" => t.made < MaxAttempts /\ t.why = "-"
    /\ t.step \in {"none", "wait", "post"} => t.made <= n /\ n <= t.made + s
    /\ t.step \in {"record", "settle"} => t.made + 1 <= n /\ n <= t.made + s + 1
    /\ t.step = "stalled" => t.made <= n /\ n <= t.made + s + 1
    /\ t.step = "done" => n <= MaxAttempts + s /\ (t.why = "spent" => n >= MaxAttempts)

(* The attempts made: those that sent a request and those that did not.       *)
Tries(d) == posts[d] + blank[d]

Accounted == \A d \in Deliveries : Accounts(task[d], Tries(d), stalls[d])

(* What dispatch() has not queued yet has not been tried. *)
Untried ==
    \A e \in Events, h \in Hooks :
        fan[e] = Null \/ h \in fan[e] => task[<<e, h>>].step = "none"

IInv == TypeOK /\ Accounted /\ Untried

-----------------------------------------------------------------------------
(* The records an attempt writes are tasks again. *)
LEMMA TaskUpdates ==
    ASSUME NEW t \in Tasks
    PROVE  /\ \A st \in {"none", "wait", "post", "record", "settle", "stalled", "done"} :
                 [t EXCEPT !.step = st] \in Tasks
           /\ \A ok \in BOOLEAN : [t EXCEPT !.step = "record", !.ok = ok] \in Tasks
           /\ \A n \in 0..MaxAttempts : [t EXCEPT !.step = "wait", !.made = n] \in Tasks
           /\ \A n \in 0..MaxAttempts : [t EXCEPT !.made = n] \in Tasks
           /\ \A why \in {"sent", "spent", "gone", "lost", "unsaved"} : End(t, why) \in Tasks
<1> DEFINE N == 0..MaxAttempts
<1> HIDE DEF N
<1>1. Tasks = [step : {"none", "wait", "post", "record", "settle", "stalled", "done"},
               made : N, ok : BOOLEAN,
               why : {"-", "sent", "spent", "gone", "lost", "unsaved"}]
    BY DEF N, Tasks
<1>2. \A st \in {"none", "wait", "post", "record", "settle", "stalled", "done"} :
          [t EXCEPT !.step = st] \in Tasks
    BY <1>1, Zenon
<1>3. \A ok \in BOOLEAN : [t EXCEPT !.step = "record", !.ok = ok] \in Tasks
    BY <1>1, Zenon
<1>4. \A n \in N : [t EXCEPT !.step = "wait", !.made = n] \in Tasks
    BY <1>1, Zenon
<1>5. \A n \in N : [t EXCEPT !.made = n] \in Tasks
    BY <1>1, Zenon
<1>6. \A why \in {"sent", "spent", "gone", "lost", "unsaved"} : End(t, why) \in Tasks
    BY <1>1, Zenon DEF End
<1> QED
    BY <1>2, <1>3, <1>4, <1>5, <1>6 DEF N

(* What the fields of a task are after End and Failed. *)
LEMMA EndFields ==
    ASSUME NEW t \in Tasks, NEW why
    PROVE  /\ End(t, why).step = "done" /\ End(t, why).why = why
           /\ End(t, why).made = t.made
BY Zenon DEF End, Tasks

LEMMA FailedStep ==
    ASSUME NEW t \in Tasks, t.made < MaxAttempts, t.why = "-"
    PROVE  /\ Failed(t) \in Tasks
           /\ \/ /\ Failed(t).step = "wait" /\ Failed(t).made = t.made + 1
                 /\ t.made + 1 < MaxAttempts /\ Failed(t).why = "-"
              \/ Failed(t).step = "done" /\ t.made + 1 = MaxAttempts
<1>1. t.made \in Nat /\ t.made + 1 \in 0..MaxAttempts
    BY SizesAssumption DEF Tasks
<1>2. CASE t.made + 1 < MaxAttempts
  <2>1. Failed(t) = [t EXCEPT !.step = "wait", !.made = t.made + 1]
      BY <1>2, Zenon DEF Failed
  <2>2. Failed(t) \in Tasks
    <3>1. \A n \in 0..MaxAttempts : [t EXCEPT !.step = "wait", !.made = n] \in Tasks
        BY TaskUpdates, Zenon
    <3> QED
        BY <1>1, <2>1, <3>1, Zenon
  <2>3. Failed(t).step = "wait" /\ Failed(t).made = t.made + 1 /\ Failed(t).why = "-"
      BY <2>1, Zenon DEF Tasks
  <2> QED
      BY <1>2, <2>2, <2>3
<1>3. CASE ~(t.made + 1 < MaxAttempts)
  <2> DEFINE u == [t EXCEPT !.made = t.made + 1]
  <2>1. u \in Tasks
      BY <1>1, TaskUpdates, Zenon
  <2>2. Failed(t) = End(u, "spent")
      BY <1>3, Zenon DEF Failed
  <2> HIDE DEF u
  <2>3. Failed(t) \in Tasks /\ Failed(t).step = "done"
    <3>1. End(u, "spent") \in Tasks
        BY <2>1, TaskUpdates, Zenon
    <3>2. End(u, "spent").step = "done"
        BY <2>1, EndFields, Zenon
    <3> QED
        BY <2>2, <3>1, <3>2
  <2> QED
      BY <1>1, <1>3, <2>3, SizesAssumption
<1> QED
    BY <1>2, <1>3

(* A step that moves one delivery on keeps the others' accounts. *)
LEMMA OneMoves ==
    ASSUME IInv, NEW d \in Deliveries, NEW t \in Tasks,
           NEW s \in 0..MaxStalls,
           task' = [task EXCEPT ![d] = t],
           stalls' = [stalls EXCEPT ![d] = s],
           \A c \in Deliveries : c # d => posts'[c] = posts[c] /\ blank'[c] = blank[c],
           Accounts(t, Tries(d)', s)
    PROVE  /\ task' \in [Deliveries -> Tasks]
           /\ stalls' \in [Deliveries -> 0..MaxStalls]
           /\ Accounted'
<1>1. /\ task' \in [Deliveries -> Tasks]
      /\ stalls' \in [Deliveries -> 0..MaxStalls]
    BY DEF IInv, TypeOK
<1>2. ASSUME NEW c \in Deliveries PROVE Accounts(task'[c], Tries(c)', stalls'[c])
  <2>1. CASE c = d
      BY <2>1 DEF IInv, TypeOK
  <2>2. CASE c # d
    <3>1. Tries(c)' = Tries(c)
        BY <2>2 DEF Tries
    <3> QED
        BY <2>2, <3>1 DEF IInv, TypeOK, Accounted
  <2> QED
      BY <2>1, <2>2
<1> QED
    BY <1>1, <1>2 DEF Accounted

(* The same for a step that makes no try and takes nothing back. *)
LEMMA OneMovesQuietly ==
    ASSUME IInv, NEW d \in Deliveries, NEW t \in Tasks,
           task' = [task EXCEPT ![d] = t],
           UNCHANGED <<posts, blank, stalls>>,
           Accounts(t, Tries(d), stalls[d])
    PROVE  /\ task' \in [Deliveries -> Tasks]
           /\ Accounted'
<1>1. /\ stalls' = [stalls EXCEPT ![d] = stalls[d]] /\ stalls[d] \in 0..MaxStalls
    BY DEF IInv, TypeOK
<1>2. Tries(d)' = Tries(d)
    BY DEF Tries
<1> QED
    BY <1>1, <1>2, OneMoves

(* A delivery that has been tried stays out of dispatch()'s hands. *)
LEMMA StaysUntried ==
    ASSUME IInv, NEW d \in Deliveries, NEW t, task[d].step # "none",
           task' = [task EXCEPT ![d] = t], UNCHANGED fan
    PROVE  Untried'
BY DEF IInv, TypeOK, Untried, Deliveries

-----------------------------------------------------------------------------
LEMMA IInvInit == ASSUME Init PROVE IInv
<1>1. NoTask \in Tasks /\ NoTask.step = "none" /\ NoTask.made = 0 /\ NoTask.why = "-"
    BY SizesAssumption DEF NoTask, Tasks
<1>2. TypeOK
  <2>1. [enabled |-> TRUE, deleted |-> FALSE] \in HookRows
      BY DEF HookRows
  <2>2. hook \in [Hooks -> HookRows] /\ task \in [Deliveries -> Tasks]
      BY <1>1, <2>1 DEF Init
  <2>3. editing \subseteq Hooks /\ fan \in [Events -> (SUBSET Hooks) \cup {Null}]
      BY Zenon DEF Init
  <2>4. 0 \in 0..MaxStalls /\ crashes \in 0..MaxCrashes /\ edits \in 0..MaxEdits
      BY SizesAssumption DEF Init
  <2>5. stalls \in [Deliveries -> 0..MaxStalls]
      BY <2>4, Zenon DEF Init
  <2>6. /\ posts \in [Deliveries -> Nat]
        /\ accepted \in [Deliveries -> BOOLEAN]
        /\ unsaved \in [Deliveries -> BOOLEAN]
        /\ blank \in [Deliveries -> Nat]
        /\ late \in [Deliveries -> Nat]
      BY DEF Init
  <2> QED
      BY <2>2, <2>3, <2>4, <2>5, <2>6 DEF TypeOK
<1>3. \A d \in Deliveries : task[d] = NoTask /\ Tries(d) = 0 /\ stalls[d] = 0
    BY DEF Init, Tries
<1>4. Accounted
    BY <1>1, <1>3, SizesAssumption DEF Accounted, Accounts
<1>5. Untried
    BY <1>1, <1>3 DEF Untried, Deliveries
<1> QED
    BY <1>2, <1>4, <1>5 DEF IInv

(* update() and remove() leave the deliveries alone. *)
LEMMA HookStep ==
    ASSUME IInv, NEW h \in Hooks, Update(h) \/ Write(h) \/ Remove(h)
    PROVE  IInv'
<1>1. UNCHANGED <<fan, task, stalls, posts, blank, accepted, unsaved, late, crashes>>
    BY DEF Update, Write, Remove, bounds, history
<1>2. hook' \in [Hooks -> HookRows]
  <2>1. CASE Update(h)
      BY <2>1 DEF Update, IInv, TypeOK
  <2>2. CASE Write(h)
    <3>1. PICK on \in BOOLEAN : hook' = [hook EXCEPT ![h].enabled = on]
        BY <2>2 DEF Write
    <3>2. hook[h] \in HookRows
        BY DEF IInv, TypeOK
    <3>3. [hook[h] EXCEPT !.enabled = on] \in HookRows
        BY <3>2, Zenon DEF HookRows
    <3> QED
        BY <3>1, <3>3 DEF IInv, TypeOK
  <2>3. CASE Remove(h)
      BY <2>3 DEF Remove, HookRows, IInv, TypeOK
  <2> QED
      BY <2>1, <2>2, <2>3
<1>3. editing' \subseteq Hooks /\ edits' \in 0..MaxEdits
    BY SizesAssumption DEF Update, Write, Remove, bounds, IInv, TypeOK
<1> QED
    BY <1>1, <1>2, <1>3 DEF IInv, TypeOK, Accounted, Accounts, Tries, Untried

(* Fanning an event out, in-process all at once and with BullMQ one by one. *)
LEMMA DispatchStep ==
    ASSUME IInv, NEW e \in Events, Dispatch(e)
    PROVE  IInv'
<1> DEFINE targets == {h \in Hooks : Live(h)}
<1>1. targets \in SUBSET Hooks
    OBVIOUS
<1> HIDE DEF targets
<1>2. UNCHANGED <<hook, editing, stalls, crashes, edits, posts, blank, accepted, unsaved, late>>
    BY DEF Dispatch, bounds, history
<1>3. CASE Durable
  <2>1. fan' = [fan EXCEPT ![e] = targets] /\ UNCHANGED task
      BY <1>3 DEF Dispatch, targets
  <2>2. Untried'
      BY <2>1, <1>1, NullAssumption DEF IInv, TypeOK, Untried, Dispatch
  <2> QED
      BY <1>1, <1>2, <2>1, <2>2 DEF IInv, TypeOK, Accounted, Accounts, Tries
<1>4. CASE ~Durable
  <2>1. /\ fan' = [fan EXCEPT ![e] = {}]
        /\ task' = [d \in Deliveries |->
                      IF d[1] = e /\ d[2] \in targets
                        THEN [task[d] EXCEPT !.step = "post"] ELSE task[d]]
        /\ fan[e] = Null
      BY <1>4 DEF Dispatch, targets
  <2>2. ASSUME NEW d \in Deliveries
        PROVE  /\ task'[d] \in Tasks
               /\ Accounts(task'[d], Tries(d)', stalls'[d])
               /\ d[1] # e => task'[d] = task[d]
    <3>1. task[d] \in Tasks /\ Accounts(task[d], Tries(d), stalls[d])
        BY DEF IInv, TypeOK, Accounted
    <3>2. CASE d[1] = e /\ d[2] \in targets
      <4>1. d = <<e, d[2]>> /\ d[2] \in Hooks
          BY <3>2 DEF Deliveries
      <4>2. task[d].step = "none"
          BY <2>1, <4>1 DEF IInv, Untried
      <4>3. task'[d] = [task[d] EXCEPT !.step = "post"]
          BY <2>1, <3>2
      <4>4. /\ task'[d] \in Tasks /\ task'[d].step = "post"
            /\ task'[d].made = task[d].made /\ task'[d].why = task[d].why
          BY <3>1, <4>3, Zenon DEF Tasks
      <4> QED
          BY <1>2, <3>1, <3>2, <4>2, <4>4 DEF Accounts, Tries
    <3>3. CASE ~(d[1] = e /\ d[2] \in targets)
      <4>1. task'[d] = task[d]
          BY <2>1, <3>3
      <4> QED
          BY <1>2, <3>1, <4>1 DEF Tries
    <3> QED
        BY <3>2, <3>3
  <2>3. task' \in [Deliveries -> Tasks]
      BY <2>1, <2>2, Zenon
  <2>4. Accounted'
      BY <2>2 DEF Accounted
  <2>5. Untried'
    <3> SUFFICES ASSUME NEW f \in Events, NEW h \in Hooks, fan'[f] = Null \/ h \in fan'[f]
                 PROVE  task'[<<f, h>>].step = "none"
        BY DEF Untried
    <3>1. f # e
        BY <2>1, NullAssumption DEF IInv, TypeOK
    <3>2. fan'[f] = fan[f]
        BY <2>1, <3>1 DEF IInv, TypeOK
    <3>3. <<f, h>> \in Deliveries /\ <<f, h>>[1] # e
        BY <3>1 DEF Deliveries
    <3> QED
        BY <2>2, <3>2, <3>3 DEF IInv, Untried
  <2>6. fan' \in [Events -> (SUBSET Hooks) \cup {Null}]
      BY <2>1 DEF IInv, TypeOK
  <2> QED
      BY <1>2, <2>3, <2>4, <2>5, <2>6 DEF IInv, TypeOK
<1> QED
    BY <1>3, <1>4

LEMMA QueueFailsStep ==
    ASSUME IInv, NEW e \in Events, QueueFails(e)
    PROVE  IInv'
BY NullAssumption DEF QueueFails, IInv, TypeOK, Accounted, Accounts, Tries, Untried, bounds, history

LEMMA QueueStep ==
    ASSUME IInv, NEW e \in Events, NEW h \in Hooks, Queue(e, h)
    PROVE  IInv'
<1> DEFINE d == <<e, h>>
           t == [task[d] EXCEPT !.step = "wait"]
<1>1. d \in Deliveries /\ task[d] \in Tasks /\ task[d].step = "none"
    BY DEF Queue, IInv, TypeOK, Untried, Deliveries
<1>2. /\ t \in Tasks /\ t.step = "wait"
      /\ t.made = task[d].made /\ t.why = task[d].why
    BY <1>1, Zenon DEF Tasks
<1>3. task' = [task EXCEPT ![d] = t] /\ fan' = [fan EXCEPT ![e] = @ \ {h}]
    BY DEF Queue
<1>4. UNCHANGED <<hook, editing, stalls, crashes, edits, posts, blank, accepted, unsaved, late>>
    BY DEF Queue, bounds, history
<1> HIDE DEF t
<1>5. Accounts(t, Tries(d), stalls[d])
    BY <1>1, <1>2 DEF IInv, Accounted, Accounts
<1>6. task' \in [Deliveries -> Tasks] /\ Accounted'
    BY <1>1, <1>2, <1>3, <1>4, <1>5, OneMovesQuietly DEF d
<1>7. Untried'
  <2> SUFFICES ASSUME NEW f \in Events, NEW g \in Hooks, fan'[f] = Null \/ g \in fan'[f]
               PROVE  task'[<<f, g>>].step = "none"
      BY DEF Untried
  <2>1. fan[e] \in SUBSET Hooks /\ fan'[e] = fan[e] \ {h} /\ fan'[e] # Null
    <3>1. fan[e] \in SUBSET Hooks
        BY DEF Queue, IInv, TypeOK
    <3>2. fan'[e] = fan[e] \ {h}
        BY <1>3 DEF IInv, TypeOK
    <3>3. fan[e] \ {h} \in SUBSET Hooks
        BY <3>1
    <3> QED
        BY <3>1, <3>2, <3>3, NullAssumption, Zenon
  <2>2. <<f, g>> # d /\ (fan[f] = Null \/ g \in fan[f])
      BY <1>3, <2>1 DEF IInv, TypeOK
  <2>3. task[<<f, g>>].step = "none" /\ task'[<<f, g>>] = task[<<f, g>>]
      BY <1>3, <2>2 DEF IInv, TypeOK, Untried, Deliveries
  <2> QED
      BY <2>3
<1>8. fan' \in [Events -> (SUBSET Hooks) \cup {Null}]
    BY <1>3 DEF Queue, IInv, TypeOK
<1> QED
    BY <1>4, <1>6, <1>7, <1>8 DEF IInv, TypeOK

-----------------------------------------------------------------------------
(* The steps of an attempt.  Each moves one delivery that was queued before. *)
LEMMA TurnStep ==
    ASSUME IInv, NEW d \in Deliveries, Turn(d)
    PROVE  IInv'
<1> DEFINE t == IF Durable /\ ~Live(d[2]) THEN End(task[d], "gone")
                ELSE [task[d] EXCEPT !.step = "post"]
<1>1. /\ task[d] \in Tasks /\ task[d].step = "wait" /\ Tries(d) \in Nat
      /\ stalls[d] \in Nat /\ Accounts(task[d], Tries(d), stalls[d])
    BY SizesAssumption DEF Turn, IInv, TypeOK, Accounted, Tries
<1>2. task' = [task EXCEPT ![d] = t]
    BY DEF Turn
<1>3. UNCHANGED <<hook, editing, fan, stalls, crashes, edits, posts, blank, accepted, unsaved, late>>
    BY DEF Turn, bounds, history
<1>4. /\ t \in Tasks
      /\ t.made = task[d].made
      /\ \/ t.step = "post" /\ t.why = task[d].why
         \/ t.step = "done" /\ t.why = "gone"
  <2>1. End(task[d], "gone") \in Tasks
      BY <1>1, TaskUpdates, Zenon
  <2>2. [task[d] EXCEPT !.step = "post"] \in Tasks
      BY <1>1, TaskUpdates, Zenon
  <2>3. CASE Durable /\ ~Live(d[2])
      BY <1>1, <2>1, <2>3, EndFields, ZenonT(60)
  <2>4. CASE ~(Durable /\ ~Live(d[2]))
    <3>1. t = [task[d] EXCEPT !.step = "post"]
        BY <2>4, Zenon
    <3> HIDE DEF t
    <3>2. t.step = "post" /\ t.why = task[d].why /\ t.made = task[d].made
        BY <1>1, <3>1, Zenon DEF Tasks
    <3> QED
        BY <2>2, <3>1, <3>2
  <2> QED
      BY <2>3, <2>4
<1> HIDE DEF t
<1>5. Accounts(t, Tries(d), stalls[d])
    BY <1>1, <1>4, SizesAssumption DEF Accounts, Tasks
<1>6. task' \in [Deliveries -> Tasks] /\ Accounted'
    BY <1>2, <1>3, <1>4, <1>5, OneMovesQuietly
<1>7. Untried'
    BY <1>1, <1>2, <1>3, StaysUntried
<1> QED
    BY <1>3, <1>6, <1>7 DEF IInv, TypeOK

LEMMA PostStep ==
    ASSUME IInv, NEW d \in Deliveries, Post(d)
    PROVE  IInv'
<1>1. /\ task[d] \in Tasks /\ task[d].step = "post" /\ Tries(d) \in Nat
      /\ stalls[d] \in 0..MaxStalls /\ Accounts(task[d], Tries(d), stalls[d])
    BY DEF Post, IInv, TypeOK, Accounted, Tries
<1>2. PICK ok \in BOOLEAN :
          /\ task' = [task EXCEPT ![d].step = "record", ![d].ok = ok]
          /\ accepted' = [accepted EXCEPT ![d] = @ \/ ok]
    BY DEF Post
<1> DEFINE t == [task[d] EXCEPT !.step = "record", !.ok = ok]
<1>3. task' = [task EXCEPT ![d] = t]
    BY <1>1, <1>2 DEF IInv, TypeOK
<1>4. /\ posts' = [posts EXCEPT ![d] = posts[d] + 1]
      /\ UNCHANGED <<hook, editing, fan, stalls, crashes, edits, unsaved, blank>>
    BY DEF Post, bounds
<1>5. t \in Tasks /\ t.step = "record" /\ t.made = task[d].made /\ t.why = task[d].why
    BY <1>1, Zenon DEF Tasks
<1> HIDE DEF t
<1>6. Accounts(t, Tries(d) + 1, stalls[d])
    BY <1>1, <1>5, SizesAssumption DEF Accounts, Tasks
<1>7. /\ posts' \in [Deliveries -> Nat]
      /\ posts'[d] = posts[d] + 1
      /\ \A c \in Deliveries : c # d => posts'[c] = posts[c]
      /\ stalls' = [stalls EXCEPT ![d] = stalls[d]]
    BY <1>1, <1>4 DEF IInv, TypeOK
<1>8. Tries(d)' = Tries(d) + 1
  <2>1. posts[d] \in Nat /\ blank[d] \in Nat /\ blank'[d] = blank[d]
      BY <1>4 DEF IInv, TypeOK
  <2>2. Tries(d)' = posts'[d] + blank'[d] /\ Tries(d) = posts[d] + blank[d]
      BY Zenon DEF Tries
  <2> QED
      BY <1>7, <2>1, <2>2
<1>12. task' \in [Deliveries -> Tasks] /\ Accounted'
  <2>1. Accounts(t, Tries(d)', stalls[d])
      BY <1>6, <1>8, Zenon
  <2>2. \A c \in Deliveries : c # d => posts'[c] = posts[c] /\ blank'[c] = blank[c]
      BY <1>4, <1>7
  <2> QED
      BY <1>1, <1>3, <1>5, <1>7, <2>1, <2>2, OneMoves
<1>9. Untried'
    BY <1>1, <1>3, <1>4, StaysUntried
<1>10. accepted' \in [Deliveries -> BOOLEAN]
  <2>1. (accepted[d] \/ ok) \in BOOLEAN
      OBVIOUS
  <2> QED
      BY <1>2, <2>1, Zenon DEF IInv, TypeOK
<1>11. late' \in [Deliveries -> Nat]
    BY DEF Post, IInv, TypeOK
<1> QED
    BY <1>4, <1>7, <1>9, <1>10, <1>11, <1>12 DEF IInv, TypeOK

(* The worker could not read its hook: a try without a request. *)
LEMMA TurnFailsStep ==
    ASSUME IInv, NEW d \in Deliveries, TurnFails(d)
    PROVE  IInv'
<1> DEFINE t == Failed(task[d])
<1>1. /\ task[d] \in Tasks /\ task[d].step = "wait" /\ Tries(d) \in Nat
      /\ stalls[d] \in 0..MaxStalls /\ Accounts(task[d], Tries(d), stalls[d])
    BY DEF TurnFails, IInv, TypeOK, Accounted, Tries
<1>2. /\ task' = [task EXCEPT ![d] = t]
      /\ blank' = [blank EXCEPT ![d] = blank[d] + 1]
      /\ UNCHANGED <<hook, editing, fan, stalls, crashes, edits, posts, accepted, unsaved, late>>
    BY DEF TurnFails, bounds
<1>3. /\ t \in Tasks
      /\ \/ /\ t.step = "wait" /\ t.made = task[d].made + 1
            /\ task[d].made + 1 < MaxAttempts /\ t.why = "-"
         \/ t.step = "done" /\ task[d].made + 1 = MaxAttempts
    BY <1>1, FailedStep DEF Accounts
<1> HIDE DEF t
<1>4. Accounts(t, Tries(d) + 1, stalls[d])
    BY <1>1, <1>3, SizesAssumption DEF Accounts, Tasks
<1>5. /\ blank' \in [Deliveries -> Nat]
      /\ blank'[d] = blank[d] + 1
      /\ \A c \in Deliveries : c # d => blank'[c] = blank[c]
      /\ stalls' = [stalls EXCEPT ![d] = stalls[d]]
    BY <1>2 DEF IInv, TypeOK
<1>6. Tries(d)' = Tries(d) + 1
  <2>1. posts[d] \in Nat /\ blank[d] \in Nat /\ posts'[d] = posts[d]
      BY <1>2 DEF IInv, TypeOK
  <2>2. Tries(d)' = posts'[d] + blank'[d] /\ Tries(d) = posts[d] + blank[d]
      BY Zenon DEF Tries
  <2> QED
      BY <1>5, <2>1, <2>2
<1>7. task' \in [Deliveries -> Tasks] /\ Accounted'
  <2>1. Accounts(t, Tries(d)', stalls[d])
      BY <1>4, <1>6, Zenon
  <2>2. \A c \in Deliveries : c # d => posts'[c] = posts[c] /\ blank'[c] = blank[c]
      BY <1>2, <1>5
  <2> QED
      BY <1>1, <1>2, <1>3, <1>5, <2>1, <2>2, OneMoves
<1>8. Untried'
    BY <1>1, <1>2, StaysUntried
<1> QED
    BY <1>2, <1>5, <1>7, <1>8 DEF IInv, TypeOK

LEMMA RecordStep ==
    ASSUME IInv, NEW d \in Deliveries, Record(d)
    PROVE  IInv'
<1> DEFINE t == [task[d] EXCEPT !.step = "settle"]
<1>1. /\ task[d] \in Tasks /\ task[d].step = "record"
      /\ Accounts(task[d], Tries(d), stalls[d])
    BY DEF Record, IInv, TypeOK, Accounted
<1>2. task' = [task EXCEPT ![d] = t]
    BY DEF Record
<1>3. UNCHANGED <<hook, editing, fan, stalls, crashes, edits, posts, blank, accepted, unsaved, late>>
    BY DEF Record, bounds, history
<1>4. t \in Tasks /\ t.step = "settle" /\ t.made = task[d].made /\ t.why = task[d].why
    BY <1>1, Zenon DEF Tasks
<1> HIDE DEF t
<1>5. Accounts(t, Tries(d), stalls[d])
    BY <1>1, <1>4 DEF Accounts
<1>6. task' \in [Deliveries -> Tasks] /\ Accounted'
    BY <1>2, <1>3, <1>4, <1>5, OneMovesQuietly
<1>7. Untried'
    BY <1>1, <1>2, <1>3, StaysUntried
<1> QED
    BY <1>3, <1>6, <1>7 DEF IInv, TypeOK

(* A delivery whose request was sent ends, or counts a failed attempt. *)
LEMMA AttemptOver ==
    ASSUME IInv, NEW d \in Deliveries, task[d].step \in {"record", "settle"},
           NEW t, t = Failed(task[d]) \/ \E why \in {"sent", "unsaved"} : t = End(task[d], why)
    PROVE  t \in Tasks /\ Accounts(t, Tries(d), stalls[d])
<1>1. /\ task[d] \in Tasks /\ Tries(d) \in Nat /\ stalls[d] \in Nat
      /\ Accounts(task[d], Tries(d), stalls[d]) /\ task[d].made \in Nat
    BY SizesAssumption DEF IInv, TypeOK, Accounted, Tasks, Tries
<1>2. task[d].made < MaxAttempts /\ task[d].why = "-"
      /\ task[d].made + 1 <= Tries(d) /\ Tries(d) <= task[d].made + stalls[d] + 1
    BY <1>1 DEF Accounts
<1>3. CASE t = Failed(task[d])
    BY <1>1, <1>2, <1>3, FailedStep, SizesAssumption DEF Accounts
<1>4. ASSUME NEW why \in {"sent", "unsaved"}, t = End(task[d], why)
      PROVE  t \in Tasks /\ Accounts(t, Tries(d), stalls[d])
  <2>1. t \in Tasks
      BY <1>1, <1>4, TaskUpdates, Zenon
  <2>2. t.step = "done" /\ t.why = why
      BY <1>1, <1>4, EndFields, Zenon
  <2>3. why # "spent" /\ Tries(d) <= MaxAttempts + stalls[d]
      BY <1>1, <1>2, SizesAssumption
  <2> QED
      BY <2>1, <2>2, <2>3 DEF Accounts
<1> QED
    BY <1>3, <1>4

LEMMA RecordFailsStep ==
    ASSUME IInv, NEW d \in Deliveries, RecordFails(d)
    PROVE  IInv'
<1> DEFINE t == IF Durable THEN Failed(task[d]) ELSE End(task[d], "unsaved")
<1>1. task[d].step = "record" /\ task' = [task EXCEPT ![d] = t]
    BY DEF RecordFails
<1>2. UNCHANGED <<hook, editing, fan, stalls, crashes, edits, posts, blank, accepted, late>>
    BY DEF RecordFails, bounds
<1>3. t = Failed(task[d]) \/ \E why \in {"sent", "unsaved"} : t = End(task[d], why)
    BY Zenon
<1> HIDE DEF t
<1>4. t \in Tasks /\ Accounts(t, Tries(d), stalls[d])
    BY <1>1, <1>3, AttemptOver
<1>5. task' \in [Deliveries -> Tasks] /\ Accounted'
    BY <1>1, <1>2, <1>4, OneMovesQuietly
<1>6. Untried'
    BY <1>1, <1>2, StaysUntried
<1>7. unsaved' \in [Deliveries -> BOOLEAN]
    BY Zenon DEF RecordFails, IInv, TypeOK
<1> QED
    BY <1>2, <1>5, <1>6, <1>7 DEF IInv, TypeOK

LEMMA SettleStep ==
    ASSUME IInv, NEW d \in Deliveries, Settle(d)
    PROVE  IInv'
<1> DEFINE t == IF task[d].ok THEN End(task[d], "sent") ELSE Failed(task[d])
<1>1. task[d].step = "settle" /\ task' = [task EXCEPT ![d] = t]
    BY DEF Settle
<1>2. UNCHANGED <<hook, editing, fan, stalls, crashes, edits, posts, blank, accepted, unsaved, late>>
    BY DEF Settle, bounds, history
<1>3. t = Failed(task[d]) \/ \E why \in {"sent", "unsaved"} : t = End(task[d], why)
    BY Zenon
<1> HIDE DEF t
<1>4. t \in Tasks /\ Accounts(t, Tries(d), stalls[d])
    BY <1>1, <1>3, AttemptOver
<1>5. task' \in [Deliveries -> Tasks] /\ Accounted'
    BY <1>1, <1>2, <1>4, OneMovesQuietly
<1>6. Untried'
    BY <1>1, <1>2, StaysUntried
<1> QED
    BY <1>2, <1>5, <1>6 DEF IInv, TypeOK

(* BullMQ takes a stalled delivery back: one more request may be sent.       *)
LEMMA StallStep ==
    ASSUME IInv, NEW d \in Deliveries, Stall(d)
    PROVE  IInv'
<1>1. /\ task[d] \in Tasks /\ task[d].step = "stalled" /\ Tries(d) \in Nat
      /\ stalls[d] \in 0..MaxStalls /\ task[d].made \in Nat
      /\ Accounts(task[d], Tries(d), stalls[d])
    BY DEF Stall, IInv, TypeOK, Accounted, Tasks, Tries
<1>2. UNCHANGED <<hook, editing, fan, crashes, edits, posts, blank, accepted, unsaved, late>>
    BY DEF Stall, bounds, history
<1>3. PICK t \in Tasks, s \in 0..MaxStalls :
          /\ task' = [task EXCEPT ![d] = t] /\ stalls' = [stalls EXCEPT ![d] = s]
          /\ Accounts(t, Tries(d), s)
  <2>1. CASE stalls[d] < MaxStalls
    <3> DEFINE t == [task[d] EXCEPT !.step = "wait"]
    <3>1. /\ task' = [task EXCEPT ![d] = t]
          /\ stalls' = [stalls EXCEPT ![d] = stalls[d] + 1]
        BY <2>1 DEF Stall
    <3>2. t \in Tasks /\ t.step = "wait" /\ t.made = task[d].made /\ t.why = task[d].why
        BY <1>1, Zenon DEF Tasks
    <3> HIDE DEF t
    <3>3. Accounts(t, Tries(d), stalls[d] + 1) /\ stalls[d] + 1 \in 0..MaxStalls
        BY <1>1, <2>1, <3>2, SizesAssumption DEF Accounts
    <3> QED
        BY <3>1, <3>2, <3>3
  <2>2. CASE ~(stalls[d] < MaxStalls)
    <3> DEFINE t == End(task[d], "lost")
    <3>1. /\ task' = [task EXCEPT ![d] = t]
          /\ stalls' = [stalls EXCEPT ![d] = stalls[d]]
        BY <2>2 DEF Stall, IInv, TypeOK
    <3>2. t \in Tasks
        BY <1>1, TaskUpdates, Zenon
    <3>3. t.step = "done" /\ t.why = "lost"
        BY <1>1, EndFields, Zenon
    <3> HIDE DEF t
    <3>4. Accounts(t, Tries(d), stalls[d])
        BY <1>1, <3>3, SizesAssumption DEF Accounts
    <3> QED
        BY <1>1, <3>1, <3>2, <3>4
  <2> QED
      BY <2>1, <2>2
<1>4. Tries(d)' = Tries(d)
    BY <1>2 DEF Tries
<1>5. /\ task' \in [Deliveries -> Tasks] /\ stalls' \in [Deliveries -> 0..MaxStalls]
      /\ Accounted'
    BY <1>1, <1>2, <1>3, <1>4, OneMoves
<1>6. Untried'
    BY <1>1, <1>2, <1>3, StaysUntried
<1> QED
    BY <1>2, <1>5, <1>6 DEF IInv, TypeOK

LEMMA CrashStep ==
    ASSUME IInv, Crash
    PROVE  IInv'
<1>1. UNCHANGED <<hook, stalls, edits, posts, blank, accepted, unsaved, late>>
    BY DEF Crash, history
<1>2. editing' = {} /\ crashes' \in 0..MaxCrashes
    BY SizesAssumption DEF Crash, IInv, TypeOK
<1>3. fan' \in [Events -> (SUBSET Hooks) \cup {Null}]
    BY DEF Crash, IInv, TypeOK
<1>4. ASSUME NEW d \in Deliveries
      PROVE  /\ task'[d] \in Tasks
             /\ Accounts(task'[d], Tries(d), stalls[d])
             /\ task[d].step = "none" => task'[d] = task[d]
  <2>1. /\ task[d] \in Tasks /\ Tries(d) \in Nat /\ stalls[d] \in Nat
        /\ task[d].made \in Nat /\ Accounts(task[d], Tries(d), stalls[d])
      BY SizesAssumption DEF IInv, TypeOK, Accounted, Tasks, Tries
  <2>2. \/ task'[d] = task[d]
        \/ /\ task[d].step \in {"post", "record", "settle"}
           /\ task'[d] = [task[d] EXCEPT !.step = "stalled"]
        \/ task[d].step \notin {"none", "done"} /\ task'[d] = End(task[d], "lost")
      BY DEF Crash
  <2>3. CASE task'[d] = task[d]
      BY <2>1, <2>3
  <2>4. CASE /\ task[d].step \in {"post", "record", "settle"}
             /\ task'[d] = [task[d] EXCEPT !.step = "stalled"]
    <3>1. /\ task'[d] \in Tasks /\ task'[d].step = "stalled"
          /\ task'[d].made = task[d].made /\ task'[d].why = task[d].why
        BY <2>1, <2>4, Zenon DEF Tasks
    <3> QED
        BY <2>1, <2>4, <3>1 DEF Accounts
  <2>5. CASE task[d].step \notin {"none", "done"} /\ task'[d] = End(task[d], "lost")
    <3>1. task'[d] \in Tasks
        BY <2>1, <2>5, TaskUpdates, Zenon
    <3>2. task'[d].step = "done" /\ task'[d].why = "lost"
      <4>1. End(task[d], "lost").step = "done" /\ End(task[d], "lost").why = "lost"
          BY <2>1, EndFields, Zenon
      <4> QED
          BY <2>5, <4>1
    <3>3. Tries(d) <= MaxAttempts + stalls[d]
        BY <2>1, <2>5, SizesAssumption DEF Accounts, Tasks
    <3> QED
        BY <2>5, <3>1, <3>2, <3>3 DEF Accounts
  <2> QED
      BY <2>2, <2>3, <2>4, <2>5
<1>5. task' \in [Deliveries -> Tasks]
  <2>1. task' = [d \in Deliveries |->
                   IF Durable
                     THEN IF task[d].step \in {"post", "record", "settle"}
                            THEN [task[d] EXCEPT !.step = "stalled"] ELSE task[d]
                     ELSE IF task[d].step \notin {"none", "done"}
                            THEN End(task[d], "lost") ELSE task[d]]
      BY Zenon DEF Crash
  <2> QED
      BY <1>4, <2>1, Zenon
<1>6. Accounted'
    BY <1>1, <1>4 DEF Accounted, Tries
<1>7. Untried'
  <2> SUFFICES ASSUME NEW e \in Events, NEW h \in Hooks, fan'[e] = Null \/ h \in fan'[e]
               PROVE  task'[<<e, h>>].step = "none"
      BY DEF Untried
  <2>1. fan[e] = Null
      BY NullAssumption DEF Crash
  <2>2. <<e, h>> \in Deliveries /\ task[<<e, h>>].step = "none"
      BY <2>1 DEF IInv, Untried, Deliveries
  <2> QED
      BY <1>4, <2>2
<1> QED
    BY <1>1, <1>2, <1>3, <1>5, <1>6, <1>7 DEF IInv, TypeOK

LEMMA IInvStep == ASSUME IInv, [Next]_vars PROVE IInv'
<1>1. ASSUME NEW h \in Hooks, Update(h) \/ Write(h) \/ Remove(h) PROVE IInv'
    BY <1>1, HookStep
<1>2. ASSUME NEW e \in Events,
             Dispatch(e) \/ QueueFails(e) \/ \E h \in Hooks : Queue(e, h)
      PROVE  IInv'
    BY <1>2, DispatchStep, QueueFailsStep, QueueStep
<1>3. ASSUME NEW d \in Deliveries, Attempt(d) \/ TurnFails(d) \/ RecordFails(d) PROVE IInv'
    BY <1>3, TurnStep, TurnFailsStep, PostStep, RecordStep, SettleStep, StallStep, RecordFailsStep
    DEF Attempt
<1>4. CASE UNCHANGED vars
    BY <1>4 DEF vars, history, bounds, IInv, TypeOK, Accounted, Accounts, Tries, Untried
<1> QED
    BY <1>1, <1>2, <1>3, <1>4, CrashStep DEF Next

(* The type invariant holds, with and without BullMQ.                        *)
THEOREM TypeCorrect == Spec => []TypeOK
<1>1. IInv => TypeOK
    BY DEF IInv
<1>2. IInv /\ [Next]_vars => IInv'
    BY IInvStep
<1> QED
    BY <1>1, <1>2, IInvInit, PTL DEF Spec

(* However the process restarts, recording fails and hooks change, an        *)
(* endpoint gets at most MAX_ATTEMPTS requests for an event and one for each *)
(* time BullMQ took the delivery back, and is given up only after that many  *)
(* tries (a try whose worker could not read the hook sends nothing).         *)
THEOREM SendsBounded == Spec => []AttemptsBounded
<1>1. IInv => AttemptsBounded
  <2> SUFFICES ASSUME IInv, NEW d \in Deliveries
               PROVE  /\ posts[d] <= MaxAttempts + stalls[d]
                      /\ task[d].why = "spent" => Tries(d) >= MaxAttempts
      BY DEF AttemptsBounded, Tries
  <2>1. /\ task[d] \in Tasks /\ Tries(d) \in Nat /\ stalls[d] \in Nat
        /\ task[d].made \in Nat /\ Accounts(task[d], Tries(d), stalls[d])
      BY SizesAssumption DEF IInv, TypeOK, Accounted, Tasks, Tries
  <2>2. posts[d] \in Nat /\ posts[d] <= Tries(d)
      BY DEF IInv, TypeOK, Tries
  <2> QED
      BY <2>1, <2>2, SizesAssumption DEF Accounts, Tasks
<1>2. IInv /\ [Next]_vars => IInv'
    BY IInvStep
<1> QED
    BY <1>1, <1>2, IInvInit, PTL DEF Spec

-----------------------------------------------------------------------------
(* With BullMQ: nothing has been sent late for a hook that is there, and an  *)
(* attempt that is about to send has not sent late before, since its worker  *)
(* found the hook.                                                           *)
AtMostOneLate ==
    \A d \in Deliveries :
        /\ late[d] <= 1
        /\ ~hook[d[2]].deleted \/ task[d].step = "post" => late[d] = 0

LInv == IInv /\ AtMostOneLate

(* A step that sends nothing and brings no delivery to "post".               *)
LEMMA QuietStep ==
    ASSUME LInv, TypeOK', UNCHANGED <<hook, late>>,
           \A d \in Deliveries : task'[d].step = "post" => task[d].step = "post"
    PROVE  AtMostOneLate'
BY DEF LInv, AtMostOneLate

(* A step that moves a delivery on, but not to "post".                       *)
LEMMA MoveStep ==
    ASSUME LInv, TypeOK', NEW d \in Deliveries, NEW t, t.step # "post",
           task' = [task EXCEPT ![d] = t], UNCHANGED <<hook, late>>
    PROVE  AtMostOneLate'
<1>1. \A c \in Deliveries : task'[c].step = "post" => task[c].step = "post"
    BY DEF LInv, IInv, TypeOK
<1> QED
    BY <1>1, QuietStep

LEMMA LInvStep == ASSUME Durable, LInv, [Next]_vars PROVE LInv'
<1>1. IInv'
    BY IInvStep DEF LInv
<1>2. TypeOK'
    BY <1>1 DEF IInv
<1>3. \A d \in Deliveries : d[2] \in Hooks /\ task[d] \in Tasks /\ late[d] \in Nat
    BY DEF Deliveries, LInv, IInv, TypeOK
<1>4. ASSUME NEW h \in Hooks, Update(h) \/ Write(h) \/ Remove(h) PROVE AtMostOneLate'
  <2>1. UNCHANGED <<task, late>>
      BY <1>4 DEF Update, Write, Remove, history
  <2>2. \A g \in Hooks : ~hook'[g].deleted => ~hook[g].deleted
    <3>1. CASE Update(h)
        BY <3>1 DEF Update
    <3>2. CASE Remove(h)
        BY <3>2 DEF Remove, LInv, IInv, TypeOK
    <3>3. CASE Write(h)
      <4>1. PICK on \in BOOLEAN : hook' = [hook EXCEPT ![h].enabled = on]
          BY <3>3 DEF Write
      <4>2. hook[h] \in HookRows
          BY DEF LInv, IInv, TypeOK
      <4>3. [hook[h] EXCEPT !.enabled = on].deleted = hook[h].deleted
          BY <4>2, Zenon DEF HookRows
      <4> QED
          BY <4>1, <4>3 DEF LInv, IInv, TypeOK
    <3> QED
        BY <1>4, <3>1, <3>2, <3>3
  <2> QED
      BY <1>3, <2>1, <2>2 DEF LInv, AtMostOneLate
<1>5. ASSUME NEW e \in Events, Dispatch(e) \/ QueueFails(e) PROVE AtMostOneLate'
    BY <1>2, <1>5, QuietStep DEF Dispatch, QueueFails, history
<1>6. ASSUME NEW e \in Events, NEW h \in Hooks, Queue(e, h) PROVE AtMostOneLate'
  <2>1. <<e, h>> \in Deliveries
      BY DEF Deliveries
  <2>2. [task[<<e, h>>] EXCEPT !.step = "wait"].step # "post"
      BY <1>3, <2>1, Zenon DEF Tasks
  <2> QED
      BY <1>2, <1>6, <2>1, <2>2, MoveStep DEF Queue, history
<1>7. ASSUME NEW d \in Deliveries, Turn(d) PROVE AtMostOneLate'
  <2>1. UNCHANGED <<hook, late>>
      BY <1>7 DEF Turn, history
  <2>2. CASE Live(d[2])
    <3>1. late[d] = 0
        BY <1>3, <2>2 DEF Live, LInv, AtMostOneLate
    <3>2. \A c \in Deliveries : c # d => task'[c] = task[c]
        BY <1>7 DEF Turn, LInv, IInv, TypeOK
    <3> QED
        BY <2>1, <3>1, <3>2 DEF LInv, AtMostOneLate
  <2>3. CASE ~Live(d[2])
    <3>1. task' = [task EXCEPT ![d] = End(task[d], "gone")]
        BY <1>7, <2>3 DEF Turn
    <3>2. End(task[d], "gone").step = "done"
        BY <1>3, EndFields, Zenon
    <3> QED
        BY <1>2, <2>1, <3>1, <3>2, MoveStep
  <2> QED
      BY <2>2, <2>3
<1>8. ASSUME NEW d \in Deliveries, Post(d) PROVE AtMostOneLate'
  <2>1. /\ task[d].step = "post" /\ late[d] = 0
        /\ UNCHANGED hook
        /\ late' = [late EXCEPT ![d] = IF hook[d[2]].deleted THEN @ + 1 ELSE @]
      BY <1>8 DEF Post, LInv, AtMostOneLate
  <2>2. PICK ok \in BOOLEAN : task' = [task EXCEPT ![d].step = "record", ![d].ok = ok]
      BY <1>8 DEF Post
  <2> DEFINE t == [task[d] EXCEPT !.step = "record", !.ok = ok]
  <2>3. task' = [task EXCEPT ![d] = t]
      BY <2>2 DEF LInv, IInv, TypeOK
  <2>4. t.step = "record"
      BY <1>3, Zenon DEF Tasks
  <2> HIDE DEF t
  <2>5. task'[d].step = "record" /\ \A c \in Deliveries : c # d => task'[c] = task[c]
      BY <2>3, <2>4 DEF LInv, IInv, TypeOK
  <2>6. late'[d] \in {0, 1} /\ (~hook[d[2]].deleted => late'[d] = 0)
      BY <2>1 DEF LInv, IInv, TypeOK
  <2>7. \A c \in Deliveries : c # d => late'[c] = late[c]
      BY <2>1 DEF LInv, IInv, TypeOK
  <2> QED
      BY <2>1, <2>5, <2>6, <2>7 DEF LInv, AtMostOneLate
<1>9. ASSUME NEW d \in Deliveries, Record(d) PROVE AtMostOneLate'
  <2>1. [task[d] EXCEPT !.step = "settle"].step # "post"
      BY <1>3, Zenon DEF Tasks
  <2> QED
      BY <1>2, <1>9, <2>1, MoveStep DEF Record, history
<1>10. ASSUME NEW d \in Deliveries, TurnFails(d) \/ RecordFails(d) \/ Settle(d)
       PROVE  AtMostOneLate'
  <2>1. PICK t : /\ t = Failed(task[d]) \/ t = End(task[d], "sent")
                 /\ task' = [task EXCEPT ![d] = t]
      BY <1>10 DEF TurnFails, RecordFails, Settle
  <2>2. task[d].step \in {"wait", "record", "settle"} /\ UNCHANGED <<hook, late>>
      BY <1>10 DEF TurnFails, RecordFails, Settle, history
  <2>3. task[d].made < MaxAttempts /\ task[d].why = "-"
      BY <2>2 DEF LInv, IInv, Accounted, Accounts
  <2>4. Failed(task[d]).step # "post"
      BY <1>3, <2>3, FailedStep
  <2>5. End(task[d], "sent").step # "post"
      BY <1>3, EndFields
  <2> QED
      BY <1>2, <2>1, <2>2, <2>4, <2>5, MoveStep
<1>11. ASSUME NEW d \in Deliveries, Stall(d) PROVE AtMostOneLate'
  <2>1. \/ task' = [task EXCEPT ![d] = [task[d] EXCEPT !.step = "wait"]]
        \/ task' = [task EXCEPT ![d] = End(task[d], "lost")]
      BY <1>11 DEF Stall
  <2>2. [task[d] EXCEPT !.step = "wait"].step # "post"
      BY <1>3, Zenon DEF Tasks
  <2>3. End(task[d], "lost").step # "post"
      BY <1>3, EndFields
  <2>4. UNCHANGED <<hook, late>>
      BY <1>11 DEF Stall, history
  <2> QED
      BY <1>2, <2>1, <2>2, <2>3, <2>4, MoveStep
<1>12. ASSUME Crash PROVE AtMostOneLate'
  <2>1. ASSUME NEW d \in Deliveries, task'[d].step = "post" PROVE task[d].step = "post"
    <3>1. task'[d] = IF task[d].step \in {"post", "record", "settle"}
                       THEN [task[d] EXCEPT !.step = "stalled"] ELSE task[d]
        BY <1>12 DEF Crash
    <3>2. [task[d] EXCEPT !.step = "stalled"].step # "post"
        BY <1>3, Zenon DEF Tasks
    <3> QED
        BY <2>1, <3>1, <3>2
  <2>2. UNCHANGED <<hook, late>>
      BY <1>12 DEF Crash, history
  <2> QED
      BY <1>2, <2>1, <2>2, QuietStep
<1>13. ASSUME UNCHANGED vars PROVE AtMostOneLate'
  <2>1. UNCHANGED <<hook, late, task>>
      BY <1>13 DEF vars, history
  <2> QED
      BY <1>2, <2>1, QuietStep
<1>14. ASSUME NEW d \in Deliveries, Attempt(d) \/ TurnFails(d) \/ RecordFails(d)
       PROVE  AtMostOneLate'
    BY <1>7, <1>8, <1>9, <1>10, <1>11, <1>14 DEF Attempt
<1>15. AtMostOneLate'
    BY <1>4, <1>5, <1>6, <1>12, <1>13, <1>14 DEF Next
<1> QED
    BY <1>1, <1>15 DEF LInv

(* With BullMQ a deleted webhook stops: whatever an update() racing the      *)
(* deletion writes and however often deliveries are taken back, at most the  *)
(* request a worker was already preparing is sent.                           *)
THEOREM DeletedStops == ASSUME Durable PROVE Spec => []DeletedHookStops
<1>1. Init => LInv
    BY IInvInit DEF Init, LInv, AtMostOneLate
<1>2. LInv => DeletedHookStops
    BY DEF LInv, AtMostOneLate, DeletedHookStops
<1>3. LInv /\ [Next]_vars => LInv'
    BY LInvStep
<1> QED
    BY <1>1, <1>2, <1>3, PTL DEF Spec

-----------------------------------------------------------------------------
(* What an endpoint accepted stays in the hands of the attempt that sent it, *)
(* until it is over, or its worker dies, or the answer cannot be recorded.   *)
Handed(d) ==
    accepted[d] /\ ~unsaved[d] /\ stalls[d] = 0 =>
        \/ task[d].step \in {"stalled", "done"}
        \/ task[d].step \in {"record", "settle"} /\ task[d].ok

HInv == IInv /\ \A d \in Deliveries : Handed(d)

LEMMA OthersStay ==
    ASSUME HInv, NEW d \in Deliveries, NEW t, task' = [task EXCEPT ![d] = t],
           UNCHANGED <<accepted, unsaved, stalls>>,
           \/ t.step \in {"stalled", "done"}
           \/ task[d].step \in {"none", "wait", "post"}
           \/ t.step \in {"record", "settle"} /\ t.ok
           \/ ~task[d].ok /\ task[d].step \notin {"stalled", "done"}
    PROVE  \A c \in Deliveries : Handed(c)'
<1> SUFFICES ASSUME NEW c \in Deliveries PROVE Handed(c)'
    OBVIOUS
<1>1. task \in [Deliveries -> Tasks]
    BY DEF HInv, IInv, TypeOK
<1>2. CASE c # d
  <2>1. task'[c] = task[c]
      BY <1>1, <1>2
  <2> QED
      BY <2>1 DEF HInv, Handed
<1>3. CASE c = d
  <2>1. task'[c] = t /\ Handed(d)
      BY <1>1, <1>3 DEF HInv
  <2> QED
      BY <1>3, <2>1, Zenon DEF Handed
<1> QED
    BY <1>2, <1>3

LEMMA HInvStep ==
    ASSUME HInv, [Next]_vars
    PROVE  HInv'
<1>1. IInv'
    BY IInvStep DEF HInv
<1>2. \A d \in Deliveries : task[d] \in Tasks /\ stalls[d] \in Nat /\ Handed(d)
    BY DEF HInv, IInv, TypeOK
<1>3. ASSUME UNCHANGED <<task, accepted, unsaved, stalls>>
      PROVE  \A d \in Deliveries : Handed(d)'
    BY <1>2, <1>3 DEF Handed
<1>4. ASSUME NEW h \in Hooks, Update(h) \/ Write(h) \/ Remove(h)
      PROVE  \A d \in Deliveries : Handed(d)'
    BY <1>3, <1>4 DEF Update, Write, Remove, history
<1>5. ASSUME NEW e \in Events, Dispatch(e) \/ QueueFails(e)
      PROVE  \A d \in Deliveries : Handed(d)'
  <2>1. UNCHANGED <<accepted, unsaved, stalls>>
      BY <1>5 DEF Dispatch, QueueFails, history
  <2>2. CASE UNCHANGED task
      BY <1>3, <2>1, <2>2
  <2>3. CASE ~Durable /\ Dispatch(e)
    <3> SUFFICES ASSUME NEW d \in Deliveries PROVE Handed(d)'
        OBVIOUS
    <3>1. CASE d[1] # e
      <4>1. task'[d] = task[d]
          BY <2>3, <3>1 DEF Dispatch
      <4> QED
          BY <1>2, <2>1, <4>1 DEF Handed
    <3>2. CASE d[1] = e
      <4>1. fan[e] = Null /\ d = <<e, d[2]>> /\ d[2] \in Hooks
          BY <2>3, <3>2 DEF Dispatch, Deliveries
      <4>2. task[d].step = "none"
          BY <4>1 DEF HInv, IInv, Untried
      <4>3. ~(accepted[d] /\ ~unsaved[d] /\ stalls[d] = 0)
          BY <1>2, <4>2, Zenon DEF Handed
      <4> QED
          BY <2>1, <4>3 DEF Handed
    <3> QED
        BY <3>1, <3>2
  <2> QED
      BY <1>5, <2>2, <2>3 DEF Dispatch, QueueFails
<1>6. ASSUME NEW e \in Events, NEW h \in Hooks, Queue(e, h)
      PROVE  \A d \in Deliveries : Handed(d)'
  <2>1. <<e, h>> \in Deliveries /\ task[<<e, h>>].step = "none"
      BY <1>6 DEF Queue, Deliveries, HInv, IInv, Untried
  <2>2. task' = [task EXCEPT ![<<e, h>>] = [task[<<e, h>>] EXCEPT !.step = "wait"]]
      BY <1>6 DEF Queue
  <2>3. UNCHANGED <<accepted, unsaved, stalls>>
      BY <1>6 DEF Queue, history
  <2> QED
      BY <2>1, <2>2, <2>3, OthersStay
<1>7. ASSUME NEW d \in Deliveries, Turn(d) \/ TurnFails(d)
      PROVE  \A c \in Deliveries : Handed(c)'
  <2>1. PICK t : task' = [task EXCEPT ![d] = t]
      BY <1>7 DEF Turn, TurnFails
  <2>2. task[d].step = "wait" /\ UNCHANGED <<accepted, unsaved, stalls>>
      BY <1>7 DEF Turn, TurnFails, history
  <2> QED
      BY <2>1, <2>2, OthersStay
<1>8. ASSUME NEW d \in Deliveries, Post(d)
      PROVE  \A c \in Deliveries : Handed(c)'
  <2>1. PICK ok \in BOOLEAN :
          /\ task' = [task EXCEPT ![d].step = "record", ![d].ok = ok]
          /\ accepted' = [accepted EXCEPT ![d] = @ \/ ok]
      BY <1>8 DEF Post
  <2>2. task[d].step = "post" /\ UNCHANGED <<unsaved, stalls>>
      BY <1>8 DEF Post
  <2> DEFINE t == [task[d] EXCEPT !.step = "record", !.ok = ok]
  <2>3. task' = [task EXCEPT ![d] = t]
      BY <2>1 DEF HInv, IInv, TypeOK
  <2>4. t.step = "record" /\ t.ok = ok
      BY <1>2, Zenon DEF Tasks
  <2> HIDE DEF t
  <2>5. task'[d] = t /\ \A c \in Deliveries : c # d => task'[c] = task[c]
      BY <2>3 DEF HInv, IInv, TypeOK
  <2>6. /\ accepted'[d] = (accepted[d] \/ ok)
        /\ \A c \in Deliveries : c # d => accepted'[c] = accepted[c]
      BY <2>1 DEF HInv, IInv, TypeOK
  <2> SUFFICES ASSUME NEW c \in Deliveries PROVE Handed(c)'
      OBVIOUS
  <2>7. CASE c # d
      BY <1>2, <2>2, <2>5, <2>6, <2>7 DEF Handed
  <2>8. CASE c = d
    <3>1. ~(accepted[d] /\ ~unsaved[d] /\ stalls[d] = 0)
        BY <1>2, <2>2, Zenon DEF Handed
    <3>2. accepted'[d] /\ ~unsaved'[d] /\ stalls'[d] = 0 => ok
        BY <2>2, <2>6, <3>1, Zenon
    <3> QED
        BY <2>4, <2>5, <2>8, <3>2, Zenon DEF Handed
  <2> QED
      BY <2>7, <2>8
<1>9. ASSUME NEW d \in Deliveries, Record(d)
      PROVE  \A c \in Deliveries : Handed(c)'
  <2> DEFINE t == [task[d] EXCEPT !.step = "settle"]
  <2>1. task' = [task EXCEPT ![d] = t] /\ task[d].step = "record"
      BY <1>9 DEF Record
  <2>2. UNCHANGED <<accepted, unsaved, stalls>>
      BY <1>9 DEF Record, history
  <2>3. t.step = "settle" /\ t.ok = task[d].ok
      BY <1>2, Zenon DEF Tasks
  <2> HIDE DEF t
  <2>4. t.ok \/ (~task[d].ok /\ task[d].step \notin {"stalled", "done"})
      BY <2>1, <2>3, Zenon
  <2> QED
      BY <2>1, <2>2, <2>3, <2>4, OthersStay
<1>10. ASSUME NEW d \in Deliveries, RecordFails(d)
      PROVE  \A c \in Deliveries : Handed(c)'
  <2>1. PICK t : task' = [task EXCEPT ![d] = t]
      BY <1>10 DEF RecordFails
  <2>2. unsaved' = [unsaved EXCEPT ![d] = TRUE] /\ UNCHANGED <<accepted, stalls>>
      BY <1>10 DEF RecordFails
  <2>3. /\ unsaved'[d]
        /\ \A c \in Deliveries : c # d => task'[c] = task[c] /\ unsaved'[c] = unsaved[c]
      BY <2>1, <2>2 DEF HInv, IInv, TypeOK
  <2> QED
      BY <1>2, <2>2, <2>3 DEF Handed
<1>11. ASSUME NEW d \in Deliveries, Settle(d)
      PROVE  \A c \in Deliveries : Handed(c)'
  <2>1. task[d].step = "settle" /\ UNCHANGED <<accepted, unsaved, stalls>>
      BY <1>11 DEF Settle, history
  <2>2. CASE task[d].ok
    <3>1. task' = [task EXCEPT ![d] = End(task[d], "sent")]
        BY <1>11, <2>2 DEF Settle
    <3>2. End(task[d], "sent").step = "done"
        BY <1>2, EndFields
    <3> QED
        BY <2>1, <3>1, <3>2, OthersStay
  <2>3. CASE ~task[d].ok
    <3>1. task' = [task EXCEPT ![d] = Failed(task[d])]
        BY <1>11, <2>3 DEF Settle
    <3> QED
        BY <2>1, <2>3, <3>1, OthersStay
  <2> QED
      BY <2>2, <2>3
<1>12. ASSUME NEW d \in Deliveries, Stall(d)
      PROVE  \A c \in Deliveries : Handed(c)'
  <2>1. UNCHANGED <<accepted, unsaved>>
      BY <1>12 DEF Stall, history
  <2>2. CASE stalls[d] < MaxStalls
    <3>1. /\ task' = [task EXCEPT ![d].step = "wait"]
          /\ stalls' = [stalls EXCEPT ![d] = stalls[d] + 1]
        BY <1>12, <2>2 DEF Stall
    <3>2. /\ stalls'[d] = stalls[d] + 1
          /\ \A c \in Deliveries : c # d => task'[c] = task[c] /\ stalls'[c] = stalls[c]
        BY <3>1 DEF HInv, IInv, TypeOK
    <3>3. stalls'[d] # 0
        BY <1>2, <3>2
    <3> QED
        BY <1>2, <2>1, <3>2, <3>3 DEF Handed
  <2>3. CASE ~(stalls[d] < MaxStalls)
    <3>1. task' = [task EXCEPT ![d] = End(task[d], "lost")] /\ UNCHANGED stalls
        BY <1>12, <2>3 DEF Stall
    <3>2. End(task[d], "lost").step = "done"
        BY <1>2, EndFields
    <3> QED
        BY <2>1, <3>1, <3>2, OthersStay
  <2> QED
      BY <2>2, <2>3
<1>13. ASSUME Crash PROVE \A d \in Deliveries : Handed(d)'
  <2>1. UNCHANGED <<accepted, unsaved, stalls>>
      BY <1>13 DEF Crash, history
  <2> SUFFICES ASSUME NEW d \in Deliveries PROVE Handed(d)'
      OBVIOUS
  <2>2. \/ task'[d] = task[d]
        \/ task'[d] = [task[d] EXCEPT !.step = "stalled"]
        \/ task'[d] = End(task[d], "lost")
      BY <1>13 DEF Crash
  <2>3. [task[d] EXCEPT !.step = "stalled"].step = "stalled"
      BY <1>2, Zenon DEF Tasks
  <2>4. End(task[d], "lost").step = "done"
      BY <1>2, EndFields
  <2> QED
      BY <1>2, <2>1, <2>2, <2>3, <2>4 DEF Handed
<1>14. CASE UNCHANGED vars
    BY <1>1, <1>3, <1>14 DEF vars, HInv
<1>15. \A d \in Deliveries : Handed(d)'
    BY <1>3, <1>4, <1>5, <1>6, <1>7, <1>8, <1>9, <1>10, <1>11, <1>12, <1>13
       DEF Next, Attempt, vars
<1> QED
    BY <1>1, <1>15 DEF HInv

(* By either engine: what an endpoint has accepted goes to it again only if  *)
(* its answer could not be recorded, or a crash came before the attempt was  *)
(* settled and BullMQ took the delivery back.                                *)
THEOREM AcceptedOnce == Spec => SentOnce
<1> DEFINE Once == \A d \in Deliveries :
              posts'[d] > posts[d] => ~accepted[d] \/ unsaved[d] \/ stalls[d] > 0
<1>1. Init => HInv
  <2> SUFFICES ASSUME Init PROVE HInv
      OBVIOUS
  <2>1. \A d \in Deliveries : ~accepted[d]
      BY DEF Init
  <2> QED
      BY <2>1, IInvInit DEF HInv, Handed
<1>2. HInv /\ [Next]_vars => HInv'
    BY HInvStep
<1>3. HInv /\ [Next]_vars => [Once]_vars
  <2> SUFFICES ASSUME HInv, Next PROVE Once
      BY DEF vars
  <2>1. ASSUME NEW d \in Deliveries, Post(d) PROVE Once
    <3>1. posts' = [posts EXCEPT ![d] = posts[d] + 1] /\ task[d].step = "post"
        BY <2>1 DEF Post
    <3>2. ~(accepted[d] /\ ~unsaved[d] /\ stalls[d] = 0)
        BY <3>1, Zenon DEF HInv, Handed
    <3>3. stalls[d] \in Nat /\ \A c \in Deliveries : posts[c] \in Nat
        BY DEF HInv, IInv, TypeOK
    <3>4. \A c \in Deliveries : c # d => posts'[c] = posts[c]
        BY <3>1 DEF HInv, IInv, TypeOK
    <3> QED
        BY <3>2, <3>3, <3>4
  <2>2. CASE UNCHANGED posts
    <3>1. \A c \in Deliveries : posts[c] \in Nat
        BY DEF HInv, IInv, TypeOK
    <3> QED
        BY <2>2, <3>1
  <2>3. \/ \E d \in Deliveries : Post(d)
        \/ UNCHANGED posts
      BY DEF Next, Attempt, Update, Write, Remove, Dispatch, QueueFails, Queue, Turn,
             TurnFails, Record, RecordFails, Settle, Stall, Crash, history
  <2> QED
      BY <2>1, <2>2, <2>3
<1> QED
    BY <1>1, <1>2, <1>3, PTL DEF Spec, SentOnce
=============================================================================
