---------------------------- MODULE JobRunnerProofs ----------------------------
(***************************************************************************)
(* Proofs about JobRunner, for any jobs, slots, batch sizes and restarts:  *)
(* types, outcomes, what the bell says and the bound on starts in both     *)
(* modes, and for the in-process runner that no batch is ever started      *)
(* twice and that it implements JobBoard.                                  *)
(***************************************************************************)
EXTENDS JobRunner, FiniteSetTheorems, TLAPS

LEMMA MoreType == ASSUME NEW c \in Counts, NEW ok \in BOOLEAN PROVE More(c, ok) \in Counts
BY DEF More, Counts

LEMMA NoneType == None \in Counts
BY DEF None, Counts

LEMMA VerdictType == ASSUME NEW c \in Counts PROVE Verdict(c) \in Outcomes
BY DEF Verdict, Outcomes

(* The records the steps of runJob() write are calls, and rows, again. *)
LEMMA CallUpdates ==
    ASSUME NEW q \in Runs
    PROVE  /\ \A st \in {"begin", "work", "finish", "notify"} : [q EXCEPT !.step = st] \in Runs
           /\ \A sent \in SUBSET Counts : [q EXCEPT !.sent = sent] \in Runs
           /\ \A o \in Outcomes : [q EXCEPT !.step = "finish", !.outcome = o] \in Runs
           /\ [q EXCEPT !.step = "finish", !.sent = {}, !.outcome = "FAILED",
                        !.error = "thrown"] \in Runs
           /\ \A c \in Counts, n \in 0..Total, sent \in SUBSET Counts :
                 [q EXCEPT !.counts = c, !.left = n, !.sent = sent] \in Runs
<1>1. "finish" \in {"begin", "work", "finish", "notify"} /\ "thrown" \in Errors /\ "FAILED" \in Outcomes
    BY DEF Errors, Outcomes
<1>2. {} \in SUBSET Counts
    OBVIOUS
<1> HIDE DEF Counts, Errors, Outcomes
<1>3. \A st \in {"begin", "work", "finish", "notify"} : [q EXCEPT !.step = st] \in Runs
    BY Zenon DEF Runs
<1>4. \A sent \in SUBSET Counts : [q EXCEPT !.sent = sent] \in Runs
    BY Zenon DEF Runs
<1>5. \A o \in Outcomes : [q EXCEPT !.step = "finish", !.outcome = o] \in Runs
    BY <1>1, Zenon DEF Runs
<1>6. [q EXCEPT !.step = "finish", !.sent = {}, !.outcome = "FAILED",
                !.error = "thrown"] \in Runs
    BY <1>1, <1>2, Zenon DEF Runs
<1>7. \A c \in Counts, n \in 0..Total, sent \in SUBSET Counts :
          [q EXCEPT !.counts = c, !.left = n, !.sent = sent] \in Runs
    BY Zenon DEF Runs
<1> QED
    BY <1>3, <1>4, <1>5, <1>6, <1>7

LEMMA RowUpdates ==
    ASSUME NEW r \in Rows
    PROVE  /\ \A st \in Statuses : [r EXCEPT !.status = st] \in Rows
           /\ \A c \in Counts : [r EXCEPT !.counts = c] \in Rows
           /\ \A st \in Statuses, e \in Errors : [r EXCEPT !.status = st, !.error = e] \in Rows
<1>1. \A st \in Statuses : [r EXCEPT !.status = st] \in Rows
    BY Zenon DEF Rows
<1>2. \A c \in Counts : [r EXCEPT !.counts = c] \in Rows
    BY Zenon DEF Rows
<1>3. \A st \in Statuses, e \in Errors : [r EXCEPT !.status = st, !.error = e] \in Rows
    BY Zenon DEF Rows
<1> QED
    BY <1>1, <1>2, <1>3

(* No row is ever deleted or emptied. *)
RowsStay == \A j \in Jobs : row[j] # Null => row'[j] # Null

LEMMA InitType == Init => TypeOK
<1> SUFFICES ASSUME Init PROVE TypeOK
    OBVIOUS
<1>1. MaxStalls \in Nat /\ MaxCrashes \in Nat
    BY SizesAssumption
<1>2. tally \in [Jobs -> Counts]
    BY NoneType DEF Init
<1>3. queue \in Seq(Jobs)
    BY DEF Init
<1>4. phase \in {"down", "booting", "up"} /\ crashes \in 0..MaxCrashes
    BY <1>1 DEF Init
<1>8. sweeping \in BOOLEAN
    BY Zenon DEF Init
<1>5. stalls \in [Jobs -> 0..MaxStalls]
    BY <1>1 DEF Init
<1>6. /\ row \in [Jobs -> Rows \cup {Null}]
      /\ run \in [Slots -> Runs \cup {Null}]
      /\ claim \in [Jobs -> Slots \cup {Null}]
      /\ told \in [Jobs -> Outcomes \cup {Null}]
    BY DEF Init
<1>7. adding \subseteq Jobs /\ stranded \subseteq Jobs /\ begun \in [Jobs -> Nat]
    BY DEF Init
<1> QED
    BY <1>2, <1>3, <1>4, <1>5, <1>6, <1>7, <1>8 DEF TypeOK

LEMMA CreateRowType == ASSUME TypeOK, NEW j \in Jobs, CreateRow(j) PROVE TypeOK' /\ RowsStay
<1>1. [status |-> "QUEUED", error |-> "none", counts |-> None] \in Rows
    BY NoneType DEF Rows, Statuses, Errors
<1>2. row' \in [Jobs -> Rows \cup {Null}]
    BY <1>1 DEF CreateRow, TypeOK
<1>3. RowsStay
    BY <1>1, NullAssumption DEF CreateRow, TypeOK, RowsStay
<1> QED
    BY <1>2, <1>3 DEF CreateRow, TypeOK, bull, process, history

LEMMA PushType == ASSUME TypeOK, NEW j \in Jobs, Push(j) PROVE TypeOK'
<1>1. queue' \in Seq(Jobs)
    BY DEF Push, TypeOK
<1> QED
    BY <1>1 DEF Push, TypeOK, bull, process, history

LEMMA StallType == ASSUME TypeOK, NEW j \in Jobs, Stall(j) PROVE TypeOK'
<1>1. CASE stalls[j] < MaxStalls
  <2>1. queue' \in Seq(Jobs)
    <3>1. queue' = Append(queue, j)
        BY <1>1 DEF Stall
    <3> QED
        BY <3>1 DEF TypeOK
  <2>2. stalls' \in [Jobs -> 0..MaxStalls]
      BY <1>1, SizesAssumption DEF Stall, TypeOK
  <2> QED
      BY <2>1, <2>2 DEF Stall, TypeOK, process, history
<1>2. CASE ~(stalls[j] < MaxStalls)
  <2>1. UNCHANGED <<queue, stalls>>
      BY <1>2 DEF Stall
  <2> QED
      BY <2>1 DEF Stall, TypeOK, process, history
<1> QED
    BY <1>1, <1>2

LEMMA PushFailsType == ASSUME TypeOK, NEW j \in Jobs, PushFails(j) PROVE TypeOK'
BY DEF PushFails, Strands, TypeOK, bull, history

LEMMA NewRunType ==
    ASSUME NEW j \in Jobs, NEW known \in BOOLEAN PROVE NewRun(j, known) \in Runs
BY NoneType, SizesAssumption DEF NewRun, Runs, Outcomes, Errors

LEMMA TakeType == ASSUME TypeOK, NEW s \in Slots, Take(s) PROVE TypeOK'
<1>1. Head(queue) \in Jobs /\ Tail(queue) \in Seq(Jobs)
    BY DEF Take, TypeOK
<1>2. run' \in [Slots -> Runs \cup {Null}]
    BY <1>1, NewRunType DEF Take, TypeOK
<1>3. claim' \in [Jobs -> Slots \cup {Null}]
    BY <1>1 DEF Take, TypeOK
<1>4. queue' \in Seq(Jobs)
    BY <1>1 DEF Take
<1> QED
    BY <1>2, <1>3, <1>4 DEF Take, TypeOK, process, history

(* The job a busy slot runs, when its row exists. *)
LEMMA Busy ==
    ASSUME TypeOK, NEW s \in Slots, run[s] # Null, row[run[s].job] # Null
    PROVE  run[s] \in Runs /\ run[s].job \in Jobs /\ row[run[s].job] \in Rows
<1>1. run[s] \in Runs
    BY DEF TypeOK
<1>2. run[s].job \in Jobs
    BY <1>1 DEF Runs
<1>3. row[run[s].job] \in Rows
    BY <1>2 DEF TypeOK
<1> QED
    BY <1>1, <1>2, <1>3

LEMMA BeginType ==
    ASSUME TypeOK, NEW s \in Slots, Begin(s), row[run[s].job] # Null PROVE TypeOK' /\ RowsStay
<1>1. run[s] \in Runs /\ run[s].job \in Jobs /\ row[run[s].job] \in Rows
    BY Busy DEF Begin, At
<1> DEFINE q == [run[s] EXCEPT !.step = "work"]
           r == [row[run[s].job] EXCEPT !.status = "RUNNING"]
<1>2. q \in Runs /\ r \in Rows
    BY <1>1, CallUpdates, RowUpdates DEF Statuses
<1>3. run' = [run EXCEPT ![s] = q] /\ row' = [row EXCEPT ![run[s].job] = r]
    BY DEF Begin
<1> HIDE DEF q, r
<1>4. run' \in [Slots -> Runs \cup {Null}] /\ row' \in [Jobs -> Rows \cup {Null}]
    BY <1>1, <1>2, <1>3 DEF TypeOK
<1>5. begun' \in [Jobs -> Nat]
    BY <1>1 DEF Begin, TypeOK
<1>6. RowsStay
    BY <1>1, <1>2, <1>3, NullAssumption DEF TypeOK, RowsStay
<1> QED
    BY <1>4, <1>5, <1>6 DEF Begin, TypeOK, bull, process

LEMMA WorkItemType ==
    ASSUME TypeOK, NEW s \in Slots, NEW ok \in BOOLEAN, WorkItem(s, ok), row[run[s].job] # Null
    PROVE  TypeOK'
<1>1. run[s] \in Runs /\ run[s].job \in Jobs
    BY Busy DEF WorkItem, At
<1>2. run[s].counts \in Counts /\ run[s].left \in 0..Total /\ run[s].sent \in SUBSET Counts
    BY <1>1 DEF Runs
<1> DEFINE c == More(run[s].counts, ok)
           n == run[s].left - 1
           sent == run[s].sent \cup {c}
           q == [run[s] EXCEPT !.counts = c, !.left = n, !.sent = sent]
<1>3. c \in Counts
    BY <1>2, MoreType
<1>4. n \in 0..Total
    BY <1>2, SizesAssumption DEF WorkItem
<1>5. q \in Runs
  <2>1. sent \in SUBSET Counts
      BY <1>2, <1>3
  <2> HIDE DEF c, n, sent
  <2> QED
      BY <1>1, <1>3, <1>4, <2>1, CallUpdates
<1>6. run' = [run EXCEPT ![s] = q]
    BY DEF WorkItem
<1>7. tally' \in [Jobs -> Counts]
  <2>1. tally[run[s].job] \in Counts
      BY <1>1 DEF TypeOK
  <2>2. More(tally[run[s].job], ok) \in Counts
      BY <2>1, MoreType
  <2> QED
      BY <1>1, <2>2 DEF WorkItem, TypeOK
<1> HIDE DEF q
<1>8. run' \in [Slots -> Runs \cup {Null}]
    BY <1>5, <1>6 DEF TypeOK
<1> QED
    BY <1>7, <1>8 DEF WorkItem, TypeOK, bull, process

LEMMA LandType ==
    ASSUME TypeOK, NEW s \in Slots, Land(s), row[run[s].job] # Null PROVE TypeOK' /\ RowsStay
<1>1. run[s] \in Runs /\ run[s].job \in Jobs /\ row[run[s].job] \in Rows
    BY Busy DEF Land, At
<1>2. run[s].sent \in SUBSET Counts
    BY <1>1 DEF Runs
<1>3. PICK c \in run[s].sent :
          /\ row' = [row EXCEPT ![run[s].job].counts = c]
          /\ run' = [run EXCEPT ![s].sent = @ \ {c}]
    BY DEF Land
<1> DEFINE q == [run[s] EXCEPT !.sent = run[s].sent \ {c}]
           r == [row[run[s].job] EXCEPT !.counts = c]
<1>4. q \in Runs /\ r \in Rows
    BY <1>1, <1>2, CallUpdates, RowUpdates
<1>5. run' = [run EXCEPT ![s] = q] /\ row' = [row EXCEPT ![run[s].job] = r]
    BY <1>3
<1> HIDE DEF q, r
<1>6. run' \in [Slots -> Runs \cup {Null}] /\ row' \in [Jobs -> Rows \cup {Null}]
    BY <1>1, <1>4, <1>5 DEF TypeOK
<1>7. RowsStay
    BY <1>1, <1>4, <1>5, NullAssumption DEF TypeOK, RowsStay
<1> QED
    BY <1>6, <1>7 DEF Land, TypeOK, bull, process, history

LEMMA ReturnType ==
    ASSUME TypeOK, NEW s \in Slots, Return(s), row[run[s].job] # Null PROVE TypeOK'
<1>1. run[s] \in Runs /\ row[run[s].job] \in Rows
    BY Busy DEF Return, At
<1>2. Verdict(row[run[s].job].counts) \in Outcomes
    BY <1>1, VerdictType DEF Rows
<1> DEFINE o == Verdict(row[run[s].job].counts)
           q == [run[s] EXCEPT !.step = "finish", !.outcome = o]
<1>3. run' = [run EXCEPT ![s] = q]
    BY DEF Return
<1>4. q \in Runs
  <2>1. o \in Outcomes
      BY <1>2
  <2> HIDE DEF o
  <2> QED
      BY <1>1, <2>1, CallUpdates
<1> HIDE DEF q
<1>5. run' \in [Slots -> Runs \cup {Null}]
    BY <1>3, <1>4 DEF TypeOK
<1> QED
    BY <1>5 DEF Return, TypeOK, bull, process, history

LEMMA ThrowType ==
    ASSUME TypeOK, NEW s \in Slots, Throw(s), row[run[s].job] # Null PROVE TypeOK'
<1>1. run[s] \in Runs
    BY Busy DEF Throw, At
<1> DEFINE q == [run[s] EXCEPT !.step = "finish", !.sent = {}, !.outcome = "FAILED",
                               !.error = "thrown"]
<1>2. run' = [run EXCEPT ![s] = q]
    BY DEF Throw
<1>3. q \in Runs
    BY <1>1, CallUpdates
<1> HIDE DEF q
<1>4. run' \in [Slots -> Runs \cup {Null}]
    BY <1>2, <1>3 DEF TypeOK
<1> QED
    BY <1>4 DEF Throw, TypeOK, bull, process, history

LEMMA FinishType ==
    ASSUME TypeOK, NEW s \in Slots, Finish(s), row[run[s].job] # Null, run[s].outcome \in Outcomes
    PROVE  TypeOK' /\ RowsStay
<1>1. run[s] \in Runs /\ run[s].job \in Jobs /\ row[run[s].job] \in Rows
    BY Busy DEF Finish, At
<1> DEFINE q == [run[s] EXCEPT !.step = "notify"]
           e == IF run[s].error = "none" THEN row[run[s].job].error ELSE run[s].error
           r == [row[run[s].job] EXCEPT !.status = run[s].outcome, !.error = e]
<1>2. e \in Errors /\ run[s].outcome \in Statuses
    BY <1>1 DEF Rows, Runs, Statuses
<1>3. q \in Runs
    BY <1>1, CallUpdates
<1>4. r \in Rows
  <2> HIDE DEF e
  <2> QED
      BY <1>1, <1>2, RowUpdates
<1>5. run' = [run EXCEPT ![s] = q] /\ row' = [row EXCEPT ![run[s].job] = r]
    BY DEF Finish
<1> HIDE DEF q, r
<1>6. run' \in [Slots -> Runs \cup {Null}] /\ row' \in [Jobs -> Rows \cup {Null}]
    BY <1>1, <1>3, <1>4, <1>5 DEF TypeOK
<1>7. RowsStay
    BY <1>1, <1>4, <1>5, NullAssumption DEF TypeOK, RowsStay
<1> QED
    BY <1>6, <1>7 DEF Finish, TypeOK, bull, process, history

LEMMA NotifyType ==
    ASSUME TypeOK, NEW s \in Slots, Notify(s), row[run[s].job] # Null, run[s].outcome \in Outcomes
    PROVE  TypeOK'
<1>1. run[s].job \in Jobs
    BY Busy DEF Notify, At
<1>2. run' \in [Slots -> Runs \cup {Null}] /\ claim' \in [Jobs -> Slots \cup {Null}]
    BY <1>1 DEF Notify, TypeOK
<1>3. told' \in [Jobs -> Outcomes \cup {Null}]
    BY <1>1 DEF Notify, TypeOK
<1> QED
    BY <1>2, <1>3 DEF Notify, TypeOK, process, history

LEMMA GivesUpType ==
    ASSUME TypeOK, NEW s \in Slots, GivesUp(s), row[run[s].job] # Null PROVE TypeOK'
<1>1. run[s].job \in Jobs
    BY Busy DEF GivesUp, At
<1>2. run' \in [Slots -> Runs \cup {Null}] /\ claim' \in [Jobs -> Slots \cup {Null}]
    BY <1>1 DEF GivesUp, TypeOK
<1>3. stranded' \subseteq Jobs
    BY DEF GivesUp, Strands, TypeOK
<1> QED
    BY <1>2, <1>3 DEF GivesUp, TypeOK, history

LEMMA ProcessType ==
    ASSUME TypeOK, Crash \/ Boot \/ Registered \/ SweepFails PROVE TypeOK'
<1>1. CASE Crash
  <2>1. queue' \in Seq(Jobs) /\ run' \in [Slots -> Runs \cup {Null}] /\ crashes' \in 0..MaxCrashes
      BY <1>1, SizesAssumption DEF Crash, TypeOK
  <2>2. sweeping' \in BOOLEAN
      BY <1>1, Zenon DEF Crash
  <2> QED
      BY <1>1, <2>1, <2>2 DEF Crash, TypeOK, bull, history
<1>2. CASE Boot
  <2>1. sweeping' \in BOOLEAN
      BY <1>2, Zenon DEF Boot
  <2> QED
      BY <1>2, <2>1 DEF Boot, TypeOK, bull, history
<1>3. CASE Registered
    BY <1>3 DEF Registered, TypeOK, bull, history
<1>4. CASE SweepFails
  <2>1. sweeping' \in BOOLEAN
      BY <1>4, Zenon DEF SweepFails
  <2> QED
      BY <1>4, <2>1 DEF SweepFails, Strands, TypeOK, bull, history
<1> QED
    BY <1>1, <1>2, <1>3, <1>4

LEMMA SweepType == ASSUME TypeOK, Sweep PROVE TypeOK' /\ RowsStay
<1>1. ASSUME NEW j \in Jobs, Unfinished(j)
      PROVE  [row[j] EXCEPT !.status = "FAILED", !.error = "interrupted"] \in Rows
  <2>1. row[j] \in Rows
      BY <1>1 DEF TypeOK, Unfinished
  <2> QED
      BY <2>1, RowUpdates DEF Statuses, Outcomes, Errors
<1> DEFINE after(j) == IF Unfinished(j)
                         THEN [row[j] EXCEPT !.status = "FAILED", !.error = "interrupted"]
                         ELSE row[j]
<1>2. \A j \in Jobs : after(j) \in Rows \cup {Null}
    BY <1>1 DEF TypeOK
<1>3. row' = [j \in Jobs |-> after(j)]
    BY DEF Sweep
<1> HIDE DEF after
<1>4. row' \in [Jobs -> Rows \cup {Null}]
    BY <1>2, <1>3
<1>5. sweeping' \in BOOLEAN
    BY Zenon DEF Sweep
<1>6. RowsStay
  <2>1. \A j \in Jobs : row[j] # Null => after(j) # Null
      BY <1>1, NullAssumption DEF after
  <2> QED
      BY <1>3, <2>1 DEF RowsStay
<1> QED
    BY <1>4, <1>5, <1>6 DEF Sweep, TypeOK, bull, history

-----------------------------------------------------------------------------
(* What types alone do not say: every job that waits, runs or is locked has  *)
(* a row, and a call about to record or tell an outcome has one.             *)
Sound ==
    /\ \A j \in adding \cup Waiting : row[j] # Null
    /\ \A j \in Jobs : claim[j] # Null => row[j] # Null
    /\ \A s \in Slots : run[s] # Null =>
          /\ row[run[s].job] # Null
          /\ run[s].step \in {"finish", "notify"} => run[s].outcome \in Outcomes

TInv == TypeOK /\ Sound

(* The queue as a set, when a job is added and when the oldest is taken. *)
LEMMA QueueAppend ==
    ASSUME NEW q \in Seq(Jobs), NEW j \in Jobs
    PROVE  {Append(q, j)[i] : i \in 1..Len(Append(q, j))} = {q[i] : i \in 1..Len(q)} \cup {j}
<1>1. Len(Append(q, j)) = Len(q) + 1 /\ Append(q, j)[Len(q) + 1] = j
    OBVIOUS
<1>2. \A i \in 1..Len(q) : Append(q, j)[i] = q[i]
    OBVIOUS
<1>3. Len(q) \in Nat
    OBVIOUS
<1> DEFINE a == Append(q, j)
<1> HIDE DEF a
<1> QED
    BY <1>1, <1>2, <1>3 DEF a

LEMMA QueueTail ==
    ASSUME NEW q \in Seq(Jobs), q # <<>>
    PROVE  {q[i] : i \in 1..Len(q)} = {Tail(q)[i] : i \in 1..Len(Tail(q))} \cup {Head(q)}
<1>1. Len(q) \in Nat \ {0} /\ Head(q) = q[1] /\ Len(Tail(q)) = Len(q) - 1
    OBVIOUS
<1>2. \A i \in 1..Len(Tail(q)) : Tail(q)[i] = q[i + 1]
    OBVIOUS
<1>3. ASSUME NEW i \in 1..Len(q)
      PROVE  i = 1 \/ (i - 1 \in 1..Len(Tail(q)) /\ q[i] = Tail(q)[i - 1])
    BY <1>1, <1>2
<1> DEFINE t == Tail(q)
<1> HIDE DEF t
<1> QED
    BY <1>1, <1>2, <1>3 DEF t

LEMMA SoundInit == Init => Sound
BY DEF Init, Sound, Waiting

(* Steps of enqueue(). *)
LEMMA CreateRowSound == ASSUME TInv, NEW j \in Jobs, CreateRow(j) PROVE TInv'
<1>1. TypeOK' /\ RowsStay
    BY CreateRowType DEF TInv
<1>2. row'[j] # Null
  <2>1. [status |-> "QUEUED", error |-> "none", counts |-> None] \in Rows
      BY NoneType DEF Rows, Statuses, Errors
  <2> QED
      BY <2>1, NullAssumption DEF CreateRow, TInv, TypeOK
<1>3. Waiting' = Waiting /\ Waiting \subseteq Jobs
    BY DEF CreateRow, Waiting, TInv, TypeOK
<1>4. \A t \in Slots : run[t] # Null => run[t].job \in Jobs
    BY DEF TInv, TypeOK, Runs
<1>5. UNCHANGED <<claim, run>> /\ adding' = adding \cup {j} /\ adding \subseteq Jobs
    BY DEF CreateRow, bull, TInv, TypeOK
<1> QED
    BY <1>1, <1>2, <1>3, <1>4, <1>5 DEF TInv, Sound, RowsStay

LEMMA PushSound == ASSUME TInv, NEW j \in Jobs, Push(j) PROVE TInv'
<1>1. TypeOK'
    BY PushType DEF TInv
<1>2. Waiting' = Waiting \cup {j}
    BY QueueAppend DEF Push, Waiting, TInv, TypeOK
<1> QED
    BY <1>1, <1>2 DEF TInv, Sound, Push, bull

LEMMA PushFailsSound == ASSUME TInv, NEW j \in Jobs, PushFails(j) PROVE TInv'
<1>1. TypeOK' /\ Waiting' = Waiting
    BY PushFailsType DEF TInv, PushFails, Waiting
<1> QED
    BY <1>1 DEF TInv, Sound, PushFails, bull

LEMMA StallSound == ASSUME TInv, NEW j \in Jobs, Stall(j) PROVE TInv'
<1>1. TypeOK'
    BY StallType DEF TInv
<1>2. Waiting' \subseteq Waiting \cup {j}
  <2>1. CASE stalls[j] < MaxStalls
    <3>1. queue' = Append(queue, j)
        BY <2>1 DEF Stall
    <3> QED
        BY <3>1, QueueAppend DEF Waiting, TInv, TypeOK
  <2>2. CASE ~(stalls[j] < MaxStalls)
      BY <2>2 DEF Stall, Waiting
  <2> QED
      BY <2>1, <2>2
<1> QED
    BY <1>1, <1>2 DEF TInv, Sound, Stall, TypeOK

(* Steps of pump() and runJob(). *)
LEMMA TakeSound == ASSUME TInv, NEW s \in Slots, Take(s) PROVE TInv'
<1>1. TypeOK'
    BY TakeType DEF TInv
<1>2. Waiting = Waiting' \cup {Head(queue)} /\ Head(queue) \in Jobs
  <2>1. queue \in Seq(Jobs) /\ queue # <<>> /\ queue' = Tail(queue)
      BY DEF Take, TInv, TypeOK
  <2>2. {queue[i] : i \in 1..Len(queue)}
          = {Tail(queue)[i] : i \in 1..Len(Tail(queue))} \cup {Head(queue)}
      BY <2>1, QueueTail
  <2>3. Head(queue) \in Jobs
      BY <2>1
  <2> QED
      BY <2>1, <2>2, <2>3, Zenon DEF Waiting
<1>3. PICK known \in BOOLEAN : run' = [run EXCEPT ![s] = NewRun(Head(queue), known)]
    BY DEF Take
<1>4. /\ NewRun(Head(queue), known).job = Head(queue)
      /\ NewRun(Head(queue), known).step \in {"finish", "notify"}
            => NewRun(Head(queue), known).outcome \in Outcomes
    BY DEF NewRun, Outcomes
<1>5. \A t \in Slots : run'[t] = IF t = s THEN NewRun(Head(queue), known) ELSE run[t]
    BY <1>3 DEF TInv, TypeOK
<1>6. \A k \in Jobs : claim'[k] # Null => k = Head(queue) \/ claim[k] # Null
    BY DEF Take, TInv, TypeOK
<1> QED
    BY <1>1, <1>2, <1>4, <1>5, <1>6 DEF TInv, Sound, Take

LEMMA StepSound ==
    ASSUME TInv, NEW s \in Slots, TypeOK', RowsStay, run[s] # Null, run'[s] # Null,
           run'[s].job = run[s].job,
           run'[s].step \in {"finish", "notify"} => run'[s].outcome \in Outcomes,
           \A t \in Slots \ {s} : run'[t] = run[t],
           UNCHANGED <<adding, queue, claim>>
    PROVE  TInv'
<1>1. Waiting' = Waiting /\ Waiting \subseteq Jobs
    BY DEF Waiting, TInv, TypeOK
<1>2. \A t \in Slots : run[t] # Null => run[t].job \in Jobs
    BY DEF TInv, TypeOK, Runs
<1> QED
    BY <1>1, <1>2 DEF TInv, Sound, RowsStay, TypeOK

(* A step of a busy slot that leaves the queue alone: what it does to the    *)
(* call it runs.                                                             *)
LEMMA BusyStepSound ==
    ASSUME TInv, NEW s \in Slots,
           Begin(s) \/ (\E ok \in BOOLEAN : WorkItem(s, ok)) \/ Land(s) \/ Return(s)
             \/ Throw(s) \/ Finish(s)
    PROVE  /\ TInv'
           /\ run[s] # Null /\ run'[s] # Null /\ run'[s].job = run[s].job
           /\ \A t \in Slots \ {s} : run'[t] = run[t]
<1>1. run[s] # Null /\ row[run[s].job] # Null
    BY DEF TInv, Sound, Begin, WorkItem, Land, Return, Throw, Finish, At
<1>2. run[s] \in Runs /\ row[run[s].job] \in Rows
    BY <1>1, Busy DEF TInv
<1>3. TypeOK' /\ RowsStay
  <2>1. CASE Begin(s)
      BY <1>1, <2>1, BeginType DEF TInv
  <2>2. ASSUME NEW ok \in BOOLEAN, WorkItem(s, ok) PROVE TypeOK' /\ RowsStay
      BY <1>1, <2>2, WorkItemType DEF TInv, RowsStay, WorkItem
  <2>3. CASE Land(s)
      BY <1>1, <2>3, LandType DEF TInv
  <2>4. CASE Return(s)
      BY <1>1, <2>4, ReturnType DEF TInv, RowsStay, Return
  <2>5. CASE Throw(s)
      BY <1>1, <2>5, ThrowType DEF TInv, RowsStay, Throw
  <2>6. CASE Finish(s)
      BY <1>1, <2>6, FinishType DEF TInv, Sound, Finish, At
  <2> QED
      BY <2>1, <2>2, <2>3, <2>4, <2>5, <2>6
<1>4. /\ run'[s] # Null
      /\ run'[s].job = run[s].job
      /\ run'[s].step \in {"finish", "notify"} => run'[s].outcome \in Outcomes
  <2>0. run \in [Slots -> Runs \cup {Null}] /\ run' \in [Slots -> Runs \cup {Null}]
      BY <1>3 DEF TInv, TypeOK
  <2>1. CASE Begin(s)
    <3> DEFINE q == [run[s] EXCEPT !.step = "work"]
    <3>1. q \in Runs
        BY <1>2, CallUpdates
    <3>2. q.job = run[s].job /\ q.step = "work"
        BY <1>2 DEF Runs
    <3>3. run'[s] = q
        BY <2>0, <2>1 DEF Begin
    <3> HIDE DEF q
    <3> QED
        BY <3>1, <3>2, <3>3, NullAssumption
  <2>2. ASSUME NEW ok \in BOOLEAN, WorkItem(s, ok)
        PROVE  /\ run'[s] # Null /\ run'[s].job = run[s].job
               /\ run'[s].step = "work"
    <3> DEFINE q == [run[s] EXCEPT !.counts = More(run[s].counts, ok), !.left = run[s].left - 1,
                                   !.sent = run[s].sent \cup {More(run[s].counts, ok)}]
    <3>1. q.job = run[s].job /\ q.step = "work"
        BY <1>2, <2>2 DEF Runs, WorkItem, At
    <3>2. run'[s] = q
        BY <2>0, <2>2 DEF WorkItem
    <3>3. run'[s] # Null
      <4>1. run[s].counts \in Counts /\ run[s].left \in 0..Total /\ run[s].sent \in SUBSET Counts
          BY <1>2 DEF Runs
      <4>2. More(run[s].counts, ok) \in Counts /\ run[s].left - 1 \in 0..Total
        <5>1. More(run[s].counts, ok) \in Counts
            BY <4>1, MoreType
        <5>2. run[s].left > 0 /\ Total \in Nat
            BY <2>2, SizesAssumption DEF WorkItem
        <5> QED
            BY <4>1, <5>1, <5>2
      <4>3. run[s].sent \cup {More(run[s].counts, ok)} \in SUBSET Counts
          BY <4>1, <4>2
      <4>4. q \in Runs
          BY <1>2, <4>2, <4>3, CallUpdates
      <4> HIDE DEF q
      <4> QED
          BY <3>2, <4>4, NullAssumption
    <3> HIDE DEF q
    <3> QED
        BY <3>1, <3>2, <3>3
  <2>3. CASE Land(s)
    <3>1. PICK c \in run[s].sent : run' = [run EXCEPT ![s].sent = @ \ {c}]
        BY <2>3 DEF Land
    <3> DEFINE q == [run[s] EXCEPT !.sent = run[s].sent \ {c}]
    <3>2. q \in Runs
        BY <1>2, CallUpdates DEF Runs
    <3>3. q.job = run[s].job /\ q.step = "work"
        BY <1>2, <2>3 DEF Runs, Land, At
    <3>4. run'[s] = q
        BY <2>0, <3>1
    <3> HIDE DEF q
    <3> QED
        BY <3>2, <3>3, <3>4, NullAssumption
  <2>4. CASE Return(s)
    <3> DEFINE o == Verdict(row[run[s].job].counts)
               q == [run[s] EXCEPT !.step = "finish", !.outcome = o]
    <3>1. o \in Outcomes
        BY <1>2, VerdictType DEF Rows
    <3> HIDE DEF o
    <3>2. q \in Runs
        BY <1>2, <3>1, CallUpdates
    <3>3. q.job = run[s].job /\ q.outcome = o
        BY <1>2 DEF Runs
    <3>4. run'[s] = q
        BY <2>0, <2>4 DEF Return, o
    <3> HIDE DEF q
    <3> QED
        BY <3>1, <3>2, <3>3, <3>4, NullAssumption
  <2>5. CASE Throw(s)
    <3> DEFINE q == [run[s] EXCEPT !.step = "finish", !.sent = {}, !.outcome = "FAILED",
                                   !.error = "thrown"]
    <3>1. q \in Runs
        BY <1>2, CallUpdates
    <3>2. q.job = run[s].job /\ q.outcome = "FAILED"
        BY <1>2 DEF Runs
    <3>3. run'[s] = q
        BY <2>0, <2>5 DEF Throw
    <3> HIDE DEF q
    <3> QED
        BY <3>1, <3>2, <3>3, NullAssumption DEF Outcomes
  <2>6. CASE Finish(s)
    <3> DEFINE q == [run[s] EXCEPT !.step = "notify"]
    <3>1. q \in Runs
        BY <1>2, CallUpdates
    <3>2. q.job = run[s].job /\ q.outcome = run[s].outcome
        BY <1>2 DEF Runs
    <3>3. run'[s] = q
        BY <2>0, <2>6 DEF Finish
    <3>4. run[s].outcome \in Outcomes
        BY <2>6 DEF TInv, Sound, Finish, At
    <3> HIDE DEF q
    <3> QED
        BY <3>1, <3>2, <3>3, <3>4, NullAssumption
  <2> QED
      BY <2>1, <2>2, <2>3, <2>4, <2>5, <2>6
<1>5. \A t \in Slots \ {s} : run'[t] = run[t]
    BY DEF TInv, TypeOK, Begin, WorkItem, Land, Return, Throw, Finish
<1>6. UNCHANGED <<adding, queue, claim>>
    BY DEF Begin, WorkItem, Land, Return, Throw, Finish, bull
<1> QED
    BY <1>1, <1>3, <1>4, <1>5, <1>6, StepSound

(* A slot ends its call, having told the user or given up. *)
LEMMA NotifySound == ASSUME TInv, NEW s \in Slots, Notify(s) \/ GivesUp(s) PROVE TInv'
<1>1. run[s] # Null /\ row[run[s].job] # Null /\ (Notify(s) => run[s].outcome \in Outcomes)
    BY DEF TInv, Sound, Notify, GivesUp, At
<1>2. TypeOK' /\ run[s].job \in Jobs
    BY <1>1, NotifyType, GivesUpType, Busy DEF TInv
<1>3. Waiting' = Waiting
    BY DEF Notify, GivesUp, Waiting
<1>4. \A k \in Jobs : claim'[k] # Null => claim[k] # Null
    BY <1>2 DEF Notify, GivesUp, TInv, TypeOK
<1>5. \A t \in Slots : run'[t] # Null => run'[t] = run[t]
    BY DEF Notify, GivesUp, TInv, TypeOK
<1> QED
    BY <1>2, <1>3, <1>4, <1>5 DEF TInv, Sound, Notify, GivesUp

LEMMA ProcessSound == ASSUME TInv, Crash \/ Boot \/ Registered \/ Sweep \/ SweepFails PROVE TInv'
<1>1. TypeOK' /\ RowsStay
    BY ProcessType, SweepType DEF TInv, RowsStay, Crash, Boot, Registered, SweepFails
<1>2. Waiting' \subseteq Waiting /\ Waiting \subseteq Jobs /\ adding' \subseteq adding
  <2>1. queue' = queue \/ queue' = <<>>
      BY DEF Crash, Boot, Registered, Sweep, SweepFails
  <2>2. adding' = adding \/ adding' = {}
      BY DEF Crash, Boot, Registered, Sweep, SweepFails
  <2>3. Waiting' \subseteq Waiting
      BY <2>1 DEF Waiting
  <2>4. Waiting \subseteq Jobs
      BY DEF Waiting, TInv, TypeOK
  <2> QED
      BY <2>2, <2>3, <2>4
<1>3. UNCHANGED claim
    BY DEF Crash, Boot, Registered, Sweep, SweepFails, bull
<1>4. \A t \in Slots : run'[t] # Null => run'[t] = run[t] /\ run[t].job \in Jobs
    BY DEF Crash, Boot, Registered, Sweep, SweepFails, TInv, TypeOK, Runs
<1> QED
    BY <1>1, <1>2, <1>3, <1>4 DEF TInv, Sound, RowsStay, TypeOK

LEMMA TInvStep == TInv /\ [Next]_vars => TInv'
<1> SUFFICES ASSUME TInv, [Next]_vars PROVE TInv'
    OBVIOUS
<1>1. ASSUME NEW j \in Jobs, CreateRow(j) \/ Push(j) \/ PushFails(j) \/ Stall(j) PROVE TInv'
    BY <1>1, CreateRowSound, PushSound, PushFailsSound, StallSound
<1>2. ASSUME NEW s \in Slots, Step(s) \/ GivesUp(s) PROVE TInv'
    BY <1>2, TakeSound, BusyStepSound, NotifySound DEF Step
<1>3. CASE Crash \/ Boot \/ Registered \/ Sweep \/ SweepFails
    BY <1>3, ProcessSound
<1>4. CASE UNCHANGED vars
    BY <1>4 DEF vars, TInv, TypeOK, Sound, Waiting
<1> QED
    BY <1>1, <1>2, <1>3, <1>4 DEF Next

(* Rows, queues and slots hold values of their types, in both modes: jobs    *)
(* are taken, run and told only when their row exists, so no step of         *)
(* runJob() writes a row that is not there.                                  *)
THEOREM TypeCorrect == Spec => []TypeOK
<1>1. Init => TInv
    BY InitType, SoundInit DEF TInv
<1>2. TInv => TypeOK
    BY DEF TInv
<1> QED
    BY <1>1, <1>2, TInvStep, PTL DEF Spec

-----------------------------------------------------------------------------
(* The in-process runner.  Fresh: a job nobody has started; Alive: one whose *)
(* handler was started, once.                                                *)
Fresh(j) == Shown(j) \in {"QUEUED", "INTERRUPTED"} /\ begun[j] = 0
Alive(j) == Shown(j) \in {"RUNNING", "INTERRUPTED"} /\ begun[j] = 1

CallFits(q) ==
    /\ q.step = "begin" => Fresh(q.job)
    /\ q.step \in {"work", "finish"} => Alive(q.job)
    /\ q.step = "notify" => ~Unfinished(q.job)

(* A process that is not up holds nothing; nobody holds a BullMQ lock. *)
Idle ==
    /\ phase # "up" => adding = {} /\ queue = <<>> /\ \A s \in Slots : run[s] = Null
    /\ \A j \in Jobs : claim[j] = Null

(* A job is in at most one place: being enqueued, queued once, or run by one *)
(* slot.                                                                     *)
OnePlace ==
    /\ adding \cap Waiting = {}
    /\ \A a, b \in 1..Len(queue) : queue[a] = queue[b] => a = b
    /\ \A s, t \in Slots : run[s] # Null /\ run[t] # Null /\ run[s].job = run[t].job => s = t
    /\ \A s \in Slots : run[s] # Null => run[s].job \notin adding \cup Waiting

(* What each place says about the job's row and how often it was started. *)
RowsFit ==
    /\ \A j \in adding \cup Waiting : Fresh(j)
    /\ \A s \in Slots : run[s] # Null => CallFits(run[s])
    /\ \A j \in Jobs : begun[j] <= 1 /\ (row[j] = Null => begun[j] = 0)

PInv == TInv /\ Idle /\ OnePlace /\ RowsFit /\ NoneStuck

(* What the board shows of one job, from its row. *)
LEMMA ShownValues ==
    ASSUME NEW j, row[j] \in Rows \cup {Null}
    PROVE  /\ Shown(j) = "ABSENT" <=> row[j] = Null
           /\ row[j] # Null /\ row[j].status \in {"QUEUED", "RUNNING"} => Shown(j) = row[j].status
           /\ Unfinished(j) <=> Shown(j) \in {"QUEUED", "RUNNING"}
           /\ row[j] # Null => \/ Shown(j) = row[j].status
                               \/ Shown(j) = "INTERRUPTED" /\ row[j].status = "FAILED"
BY DEF Shown, Rows, Statuses, Outcomes, Unfinished

board == [j \in Jobs |-> Shown(j)]

(* A step that changes what the board shows of one job at most. *)
LEMMA BoardStep ==
    ASSUME NEW j \in Jobs, \A k \in Jobs \ {j} : Shown(k)' = Shown(k)
    PROVE  board' = [board EXCEPT ![j] = Shown(j)']
BY DEF board

LEMMA BoardSame ==
    ASSUME \A k \in Jobs : Shown(k)' = Shown(k)
    PROVE  UNCHANGED board
BY DEF board

LEMMA ShownSame ==
    ASSUME NEW k, row'[k] = row[k]
    PROVE  Shown(k)' = Shown(k) /\ (Unfinished(k)' <=> Unfinished(k))
BY DEF Shown, Unfinished

BoardNext == [Board!Next]_board

LEMMA CreateRowPlace == ASSUME PInv, ~Durable, NEW j \in Jobs, CreateRow(j)
                        PROVE  Idle' /\ OnePlace' /\ RowsFit' /\ NoneStuck' /\ BoardNext
<1> USE DEF PInv
<1>1. j \notin adding \cup Waiting /\ \A s \in Slots : run[s] # Null => run[s].job # j
    BY DEF TInv, Sound, CreateRow
<1>2. /\ row'[j] = [status |-> "QUEUED", error |-> "none", counts |-> None]
      /\ \A k \in Jobs \ {j} : row'[k] = row[k]
    BY DEF CreateRow, TInv, TypeOK
<1>3. row'[j] # Null
    BY CreateRowSound DEF TInv, Sound, CreateRow
<1>4. Shown(j) = "ABSENT" /\ Shown(j)' = "QUEUED" /\ begun[j] = 0
    BY <1>2, <1>3 DEF Shown, CreateRow, RowsFit
<1>5. \A k \in Jobs \ {j} : Shown(k)' = Shown(k) /\ (Unfinished(k)' <=> Unfinished(k))
    BY <1>2, ShownSame
<1>6. /\ UNCHANGED <<queue, run, claim, stalls, phase, sweeping, stranded, begun>>
      /\ adding' = adding \cup {j} /\ phase = "up" /\ Waiting' = Waiting
    BY DEF CreateRow, bull, process, history, Waiting
<1>7. \A s \in Slots : run[s] # Null => run[s].job \in Jobs
    BY DEF TInv, TypeOK, Runs
<1>8. adding \subseteq Jobs /\ Waiting \subseteq Jobs
    BY DEF TInv, TypeOK, Waiting
<1>9. Idle'
    BY <1>6 DEF Idle
<1>10. OnePlace'
    BY <1>1, <1>6 DEF OnePlace
<1>11. RowsFit'
  <2>1. \A k \in adding' \cup Waiting' : Fresh(k)'
      BY <1>4, <1>5, <1>6, <1>8 DEF RowsFit, Fresh
  <2>2. \A s \in Slots : run'[s] # Null => CallFits(run[s])'
    <3>1. SUFFICES ASSUME NEW s \in Slots, run[s] # Null PROVE CallFits(run[s])'
        BY <1>6
    <3>2. CallFits(run[s]) /\ run[s].job \in Jobs \ {j} /\ run'[s] = run[s]
        BY <3>1, <1>1, <1>6, <1>7 DEF RowsFit
    <3> QED
        BY <3>2, <1>5, <1>6 DEF CallFits, Fresh, Alive
  <2>3. \A k \in Jobs : begun'[k] <= 1 /\ (row'[k] = Null => begun'[k] = 0)
      BY <1>2, <1>4, <1>6 DEF RowsFit
  <2> QED
      BY <2>1, <2>2, <2>3, <1>6 DEF RowsFit
<1>12. NoneStuck'
  <2>1. \A k \in Jobs : Runners(k)' = Runners(k)
      BY <1>6 DEF Runners
  <2> QED
      BY <2>1, <1>5, <1>6 DEF NoneStuck
<1>13. BoardNext
  <2>1. board[j] = "ABSENT" /\ board' = [board EXCEPT ![j] = "QUEUED"]
      BY <1>4, <1>5, BoardStep DEF board
  <2> QED
      BY <2>1 DEF BoardNext, Board!Next, Board!Submit, board
<1> QED
    BY <1>9, <1>10, <1>11, <1>12, <1>13

LEMMA PushPlace == ASSUME PInv, ~Durable, NEW j \in Jobs, Push(j)
                   PROVE  Idle' /\ OnePlace' /\ RowsFit' /\ NoneStuck' /\ BoardNext
<1> USE DEF PInv
<1>1. /\ UNCHANGED <<row, run, claim, stalls, phase, sweeping, stranded, begun>>
      /\ j \in adding /\ adding' = adding \ {j} /\ queue' = Append(queue, j)
    BY DEF Push, bull, process, history
<1>2. queue \in Seq(Jobs)
    BY DEF TInv, TypeOK
<1>3. Waiting' = Waiting \cup {j}
    BY <1>1, <1>2, QueueAppend DEF Waiting
<1>4. \A k \in Jobs : Shown(k)' = Shown(k) /\ (Unfinished(k)' <=> Unfinished(k))
    BY <1>1 DEF Shown, Unfinished
<1>5. Idle'
    BY <1>1 DEF Idle
<1>6. OnePlace'
  <2>1. \A i \in 1..Len(queue) : queue[i] # j
      BY <1>1 DEF OnePlace, Waiting
  <2>2. Len(queue') = Len(queue) + 1 /\ queue'[Len(queue) + 1] = j
          /\ \A i \in 1..Len(queue) : queue'[i] = queue[i]
      BY <1>1, <1>2
  <2>3. \A a, b \in 1..Len(queue) : queue[a] = queue[b] => a = b
      BY DEF OnePlace
  <2>4. Len(queue) \in Nat
      BY <1>2
  <2>5. ASSUME NEW a \in 1..Len(queue'), NEW b \in 1..Len(queue'), queue'[a] = queue'[b]
        PROVE  a = b
    <3> DEFINE q == queue
               r == queue'
    <3>1. (a \in 1..Len(q) \/ a = Len(q) + 1) /\ (b \in 1..Len(q) \/ b = Len(q) + 1)
        BY <2>2, <2>4
    <3> HIDE DEF q, r
    <3> QED
        BY <2>1, <2>2, <2>3, <2>4, <2>5, <3>1 DEF q, r
  <2> QED
      BY <1>1, <1>3, <2>5 DEF OnePlace
<1>7. RowsFit'
    BY <1>1, <1>3 DEF RowsFit, Fresh, CallFits, Alive, Shown, Unfinished
<1>8. NoneStuck'
  <2>1. \A k \in Jobs : Runners(k)' = Runners(k)
      BY <1>1 DEF Runners
  <2> QED
      BY <2>1, <1>1, <1>3, <1>4 DEF NoneStuck
<1>9. BoardNext
    BY <1>4, BoardSame DEF BoardNext, board
<1> QED
    BY <1>5, <1>6, <1>7, <1>8, <1>9

LEMMA TakePlace == ASSUME PInv, ~Durable, NEW s \in Slots, Take(s)
                   PROVE  Idle' /\ OnePlace' /\ RowsFit' /\ NoneStuck' /\ BoardNext
<1> USE DEF PInv
<1>1. /\ UNCHANGED <<row, adding, claim, stalls, phase, sweeping, stranded, begun>>
      /\ queue # <<>> /\ queue' = Tail(queue) /\ run[s] = Null
    BY DEF Take, process, history
<1>2. queue \in Seq(Jobs) /\ run \in [Slots -> Runs \cup {Null}]
    BY DEF TInv, TypeOK
<1>3. PICK h \in Jobs : h = Head(queue)
    BY <1>1, <1>2
<1> DEFINE q == NewRun(h, TRUE)
<1>4. phase = "up" /\ run' = [run EXCEPT ![s] = q]
  <2>1. phase = "up"
      BY <1>1 DEF Idle
  <2> QED
      BY <2>1, <1>3 DEF Take
<1>5. q \in Runs /\ q.job = h /\ q.step = "begin"
  <2>1. q \in Runs
      BY <1>3, NewRunType
  <2> QED
      BY <2>1 DEF NewRun
<1> HIDE DEF q
<1>6. q # Null /\ run'[s] = q /\ \A t \in Slots \ {s} : run'[t] = run[t]
    BY <1>2, <1>4, <1>5, NullAssumption
<1>7. Waiting = Waiting' \cup {h}
  <2>1. {queue[i] : i \in 1..Len(queue)}
          = {Tail(queue)[i] : i \in 1..Len(Tail(queue))} \cup {Head(queue)}
      BY <1>1, <1>2, QueueTail
  <2> QED
      BY <1>1, <2>1, <1>3, Zenon DEF Waiting
<1>8. /\ Len(queue') = Len(queue) - 1 /\ h = queue[1] /\ Len(queue) \in Nat \ {0}
      /\ \A i \in 1..Len(queue') : queue'[i] = queue[i + 1]
    BY <1>1, <1>2, <1>3
<1>9. \A a, b \in 1..Len(queue) : queue[a] = queue[b] => a = b
    BY DEF OnePlace
<1>10. h \notin Waiting'
    BY <1>8, <1>9 DEF Waiting
<1>11. h \in Waiting
    BY <1>7
<1>12. \A t \in Slots : run[t] # Null => run[t].job # h
    BY <1>11 DEF OnePlace
<1>13. Idle'
    BY <1>1, <1>4 DEF Idle
<1>14. OnePlace'
  <2>1. ASSUME NEW a \in 1..Len(queue'), NEW b \in 1..Len(queue'), queue'[a] = queue'[b]
        PROVE  a = b
    <3>1. a + 1 \in 1..Len(queue) /\ b + 1 \in 1..Len(queue)
        BY <1>8
    <3>2. queue[a + 1] = queue[b + 1]
        BY <1>8, <2>1
    <3>3. a + 1 = b + 1
        BY <3>1, <3>2, <1>9
    <3> QED
        BY <3>3
  <2>2. \A t \in Slots : run'[t] # Null => run'[t].job \notin adding' \cup Waiting'
      BY <1>1, <1>5, <1>6, <1>7, <1>10, <1>11 DEF OnePlace
  <2>3. \A t, u \in Slots : run'[t] # Null /\ run'[u] # Null /\ run'[t].job = run'[u].job => t = u
      BY <1>5, <1>6, <1>12 DEF OnePlace
  <2>4. adding' \cap Waiting' = {}
      BY <1>1, <1>7 DEF OnePlace
  <2> QED
      BY <2>1, <2>2, <2>3, <2>4 DEF OnePlace
<1>15. \A k : Shown(k)' = Shown(k) /\ (Unfinished(k)' <=> Unfinished(k)) /\ begun'[k] = begun[k]
    BY <1>1 DEF Shown, Unfinished
<1>16. RowsFit'
  <2>1. \A k \in adding' \cup Waiting' : Fresh(k)'
      BY <1>1, <1>7, <1>15 DEF RowsFit, Fresh
  <2>2. \A t \in Slots : run'[t] # Null => CallFits(run[t])'
    <3>1. CallFits(run[s])'
        BY <1>5, <1>6, <1>11, <1>15 DEF RowsFit, CallFits, Fresh
    <3>2. ASSUME NEW t \in Slots \ {s}, run'[t] # Null PROVE CallFits(run[t])'
      <4>1. run'[t] = run[t] /\ CallFits(run[t])
          BY <1>6, <3>2 DEF RowsFit
      <4> QED
          BY <4>1, <1>15 DEF CallFits, Fresh, Alive
    <3> QED
        BY <3>1, <3>2
  <2>3. \A k \in Jobs : begun'[k] <= 1 /\ (row'[k] = Null => begun'[k] = 0)
      BY <1>1 DEF RowsFit
  <2> QED
      BY <2>1, <2>2, <2>3 DEF RowsFit
<1>17. NoneStuck'
  <2>1. \A k \in Jobs : Runners(k) \subseteq Runners(k)'
      BY <1>1, <1>6 DEF Runners
  <2>2. s \in Runners(h)'
      BY <1>5, <1>6 DEF Runners
  <2> QED
      BY <2>1, <2>2, <1>1, <1>7, <1>15 DEF NoneStuck
<1>18. BoardNext
    BY <1>15, BoardSame DEF BoardNext, board
<1> QED
    BY <1>13, <1>14, <1>16, <1>17, <1>18

(* A busy slot goes on: only its own call and its own job's row change. *)
LEMMA BusyPlace ==
    ASSUME PInv, NEW s \in Slots, NEW j \in Jobs,
           run[s] # Null, run[s].job = j, run'[s] # Null, run'[s].job = j,
           \A t \in Slots \ {s} : run'[t] = run[t],
           UNCHANGED <<adding, queue, claim, phase, sweeping, stranded>>,
           \A k \in Jobs \ {j} : row'[k] = row[k] /\ begun'[k] = begun[k],
           row'[j] # Null, begun'[j] <= 1, CallFits(run[s])'
    PROVE  Idle' /\ OnePlace' /\ RowsFit' /\ (~Durable => NoneStuck')
<1> USE DEF PInv
<1>1. Waiting' = Waiting /\ Waiting \subseteq Jobs /\ adding \subseteq Jobs
    BY DEF Waiting, TInv, TypeOK
<1>2. j \notin adding \cup Waiting
    BY DEF OnePlace
<1>3. \A k \in Jobs \ {j} :
          /\ Shown(k)' = Shown(k)
          /\ Unfinished(k)' <=> Unfinished(k)
          /\ begun'[k] = begun[k]
    BY ShownSame
<1>4. \A t \in Slots \ {s} : run[t] # Null => run[t].job \in Jobs \ {j}
    BY DEF OnePlace, TInv, TypeOK, Runs
<1>5. Idle'
    BY DEF Idle
<1>6. OnePlace'
    BY <1>1 DEF OnePlace
<1>7. RowsFit'
  <2>0. \A k \in Jobs \ {j} : (Fresh(k) => Fresh(k)') /\ (Alive(k) => Alive(k)')
      BY <1>3, Zenon DEF Fresh, Alive
  <2>1. \A k \in adding' \cup Waiting' : Fresh(k)'
    <3>1. \A k \in adding \cup Waiting : Fresh(k) /\ k \in Jobs \ {j}
        BY <1>1, <1>2 DEF RowsFit
    <3>2. adding' \cup Waiting' = adding \cup Waiting
        BY <1>1
    <3> QED
        BY <2>0, <3>1, <3>2, Zenon
  <2>2. ASSUME NEW t \in Slots \ {s}, run'[t] # Null PROVE CallFits(run[t])'
    <3>1. run'[t] = run[t] /\ CallFits(run[t]) /\ run[t].job \in Jobs \ {j}
        BY <2>2, <1>4 DEF RowsFit
    <3>2. Unfinished(run[t].job)' <=> Unfinished(run[t].job)
        BY <3>1, <1>3, Zenon
    <3> QED
        BY <2>0, <3>1, <3>2, Zenon DEF CallFits
  <2>3. \A k \in Jobs : begun'[k] <= 1 /\ (row'[k] = Null => begun'[k] = 0)
      BY DEF RowsFit
  <2> QED
      BY <2>1, <2>2, <2>3 DEF RowsFit
<1>8. NoneStuck'  \/ Durable
  <2>1. s \in Runners(j)'
      BY DEF Runners
  <2>2. \A k \in Jobs : Runners(k) \subseteq Runners(k)'
      BY DEF Runners
  <2> SUFFICES ASSUME ~Durable, NEW k \in Jobs \ {j}, Unfinished(k)'
               PROVE  \/ k \in adding' \cup Waiting'
                      \/ Runners(k)' # {}
                      \/ phase' = "down" \/ sweeping' \/ k \in stranded'
    <3>1. j \in Jobs /\ Runners(j)' # {}
        BY <2>1
    <3> QED
        BY <3>1, Zenon DEF NoneStuck
  <2>3. Unfinished(k)
      BY <1>3, Zenon
  <2>4. \/ k \in adding \cup Waiting
        \/ Runners(k) # {}
        \/ phase = "down" \/ sweeping \/ k \in stranded
      BY <2>3 DEF NoneStuck, Idle
  <2> QED
      BY <1>1, <2>2, <2>4
<1> QED
    BY <1>5, <1>6, <1>7, <1>8

LEMMA BusyStepPlace ==
    ASSUME PInv, ~Durable, NEW s \in Slots,
           Begin(s) \/ (\E ok \in BOOLEAN : WorkItem(s, ok)) \/ Land(s) \/ Return(s)
             \/ Throw(s) \/ Finish(s)
    PROVE  Idle' /\ OnePlace' /\ RowsFit' /\ NoneStuck' /\ BoardNext
<1> USE DEF PInv
<1>1. /\ TInv'
      /\ run[s] # Null /\ run'[s] # Null /\ run'[s].job = run[s].job
      /\ \A t \in Slots \ {s} : run'[t] = run[t]
    BY BusyStepSound
<1>2. PICK j \in Jobs : j = run[s].job
    BY <1>1 DEF TInv, TypeOK, Runs
<1>3. /\ row \in [Jobs -> Rows \cup {Null}] /\ row[j] \in Rows /\ begun \in [Jobs -> Nat]
      /\ run[s] \in Runs /\ run \in [Slots -> Runs \cup {Null}]
    BY <1>1, <1>2 DEF TInv, TypeOK, Sound
<1>4. row'[j] \in Rows
    BY <1>1, <1>2 DEF TInv, TypeOK, Sound
<1>5. UNCHANGED <<adding, queue, claim, phase, sweeping, stranded>>
    BY DEF Begin, WorkItem, Land, Return, Throw, Finish, bull, process
<1>6. CallFits(run[s])
    BY <1>1 DEF RowsFit
<1>7. SUFFICES /\ \A k \in Jobs \ {j} : row'[k] = row[k] /\ begun'[k] = begun[k]
               /\ begun'[j] <= 1
               /\ CallFits(run[s])'
               /\ \/ Shown(j)' = Shown(j)
                  \/ Shown(j) \in {"QUEUED", "INTERRUPTED"} /\ Shown(j)' = "RUNNING"
                  \/ /\ Shown(j) \in {"RUNNING", "INTERRUPTED"}
                     /\ Shown(j)' \in Outcomes \cup {"INTERRUPTED"}
  <2> SUFFICES ASSUME \A k \in Jobs \ {j} : row'[k] = row[k] /\ begun'[k] = begun[k],
                      begun'[j] <= 1,
                      CallFits(run[s])',
                      \/ Shown(j)' = Shown(j)
                      \/ Shown(j) \in {"QUEUED", "INTERRUPTED"} /\ Shown(j)' = "RUNNING"
                      \/ /\ Shown(j) \in {"RUNNING", "INTERRUPTED"}
                         /\ Shown(j)' \in Outcomes \cup {"INTERRUPTED"}
               PROVE  Idle' /\ OnePlace' /\ RowsFit' /\ NoneStuck' /\ BoardNext
      OBVIOUS
  <2>1. Idle' /\ OnePlace' /\ RowsFit' /\ NoneStuck'
      BY <1>1, <1>2, <1>4, <1>5, BusyPlace, NullAssumption
  <2>2. \A k \in Jobs \ {j} : Shown(k)' = Shown(k)
      BY ShownSame
  <2>3. board' = [board EXCEPT ![j] = Shown(j)'] /\ board[j] = Shown(j)
      BY <2>2, BoardStep DEF board
  <2>4. BoardNext
    <3>1. CASE Shown(j)' = Shown(j)
        BY <2>2, <3>1, BoardSame DEF BoardNext, board
    <3>2. CASE Shown(j) \in {"QUEUED", "INTERRUPTED"} /\ Shown(j)' = "RUNNING"
        BY <2>3, <3>2 DEF BoardNext, board, Board!Next, Board!Start
    <3>3. CASE /\ Shown(j) \in {"RUNNING", "INTERRUPTED"}
               /\ Shown(j)' \in Outcomes \cup {"INTERRUPTED"}
      <4>1. PICK o \in Board!Outcomes \cup {"INTERRUPTED"} : o = Shown(j)'
          BY <3>3 DEF Outcomes, Board!Outcomes
      <4>2. board' = [board EXCEPT ![j] = o]
          BY <2>3, <4>1
      <4> QED
          BY <2>3, <3>3, <4>2 DEF BoardNext, board, Board!Next, Board!End
    <3> QED
        BY <3>1, <3>2, <3>3
  <2> QED
      BY <2>1, <2>4
<1>8. CASE Begin(s)
  <2>1. Fresh(j) /\ run[s].step = "begin"
      BY <1>2, <1>6, <1>8 DEF CallFits, Begin, At
  <2>2. row'[j] = [row[j] EXCEPT !.status = "RUNNING"] /\ \A k \in Jobs \ {j} : row'[k] = row[k]
      BY <1>2, <1>3, <1>8 DEF Begin
  <2>3. row'[j].status = "RUNNING"
      BY <1>3, <2>2 DEF Rows
  <2>4. begun'[j] = 1 /\ \A k \in Jobs \ {j} : begun'[k] = begun[k]
      BY <1>2, <1>3, <1>8, <2>1 DEF Begin, Fresh
  <2>5. Shown(j)' = "RUNNING"
      BY <1>4, <2>3, NullAssumption DEF Shown
  <2>6. run'[s].step = "work"
      BY <1>3, <1>8 DEF Begin, Runs
  <2> QED
      BY <1>1, <1>2, <2>1, <2>2, <2>4, <2>5, <2>6, <1>7 DEF CallFits, Alive, Fresh
<1>9. CASE Land(s)
  <2>1. Alive(j) /\ run[s].step = "work"
      BY <1>2, <1>6, <1>9 DEF CallFits, Land, At
  <2>2. PICK c : /\ row' = [row EXCEPT ![j].counts = c]
                 /\ run' = [run EXCEPT ![s].sent = @ \ {c}]
      BY <1>2, <1>9 DEF Land
  <2>3. row'[j].status = row[j].status /\ row'[j].error = row[j].error
      BY <1>3, <2>2 DEF Rows
  <2>4. Shown(j)' = Shown(j)
      BY <1>3, <1>4, <2>3, NullAssumption DEF Shown
  <2>5. \A k \in Jobs \ {j} : row'[k] = row[k]
      BY <1>3, <2>2
  <2>6. UNCHANGED begun
      BY <1>9 DEF Land, history
  <2>7. run'[s].step = "work"
      BY <1>3, <2>1, <2>2 DEF Runs
  <2> QED
      BY <1>1, <1>2, <2>1, <2>4, <2>5, <2>6, <2>7, <1>7 DEF CallFits, Alive, RowsFit
<1>10. CASE (\E ok \in BOOLEAN : WorkItem(s, ok)) \/ Return(s) \/ Throw(s)
  <2>1. Alive(j)
      BY <1>2, <1>6, <1>10 DEF CallFits, WorkItem, Return, Throw, At
  <2>2. UNCHANGED <<row, begun>>
      BY <1>10 DEF WorkItem, Return, Throw, history
  <2>3. Shown(j)' = Shown(j)
      BY <2>2, ShownSame
  <2>4. run'[s].step \in {"work", "finish"}
    <3>1. CASE Return(s)
        BY <1>3, <3>1 DEF Return, Runs
    <3>2. CASE Throw(s)
        BY <1>3, <3>2 DEF Throw, Runs
    <3>3. ASSUME NEW ok \in BOOLEAN, WorkItem(s, ok) PROVE run'[s].step = "work"
        BY <1>3, <3>3 DEF WorkItem, At, Runs
    <3> QED
        BY <1>10, <3>1, <3>2, <3>3
  <2> QED
      BY <1>1, <1>2, <2>1, <2>2, <2>3, <2>4, <1>7 DEF CallFits, Alive, RowsFit
<1>11. CASE Finish(s)
  <2>1. Alive(j) /\ run[s].outcome \in Outcomes
      BY <1>1, <1>2, <1>6, <1>11 DEF CallFits, Finish, At, TInv, Sound
  <2> DEFINE e == IF run[s].error = "none" THEN row[j].error ELSE run[s].error
  <2>2. row' = [row EXCEPT ![j].status = run[s].outcome, ![j].error = e]
      BY <1>2, <1>11 DEF Finish
  <2> HIDE DEF e
  <2>3. row'[j].status = run[s].outcome /\ \A k \in Jobs \ {j} : row'[k] = row[k]
      BY <1>3, <2>2 DEF Rows
  <2>4. Shown(j)' \in Outcomes \cup {"INTERRUPTED"} /\ ~Unfinished(j)'
      BY <1>4, <2>1, <2>3, NullAssumption DEF Shown, Unfinished, Outcomes
  <2>5. UNCHANGED begun
      BY <1>11 DEF Finish, history
  <2>6. run'[s].step = "notify"
      BY <1>3, <1>11 DEF Finish, Runs
  <2> QED
      BY <1>1, <1>2, <2>1, <2>3, <2>4, <2>5, <2>6, <1>7 DEF CallFits, Alive, RowsFit
<1> QED
    BY <1>8, <1>9, <1>10, <1>11

LEMMA NotifyPlace == ASSUME PInv, ~Durable, NEW s \in Slots, Notify(s)
                     PROVE  Idle' /\ OnePlace' /\ RowsFit' /\ NoneStuck' /\ BoardNext
<1> USE DEF PInv
<1>1. /\ UNCHANGED <<row, adding, queue, phase, sweeping, stranded, begun>>
      /\ run[s] # Null /\ run[s].step = "notify"
    BY DEF Notify, At, process, history
<1>2. run'[s] = Null /\ \A t \in Slots \ {s} : run'[t] = run[t]
    BY DEF Notify, TInv, TypeOK
<1>3. Waiting' = Waiting
    BY <1>1 DEF Waiting
<1>4. \A k : Shown(k)' = Shown(k) /\ (Unfinished(k)' <=> Unfinished(k)) /\ begun'[k] = begun[k]
    BY <1>1 DEF Shown, Unfinished
<1>5. claim' = claim
  <2>1. run[s].job \in Jobs
      BY <1>1 DEF TInv, TypeOK, Runs
  <2>2. claim \in [Jobs -> Slots \cup {Null}] /\ claim[run[s].job] = Null
      BY <2>1 DEF Idle, TInv, TypeOK
  <2> QED
      BY <2>1, <2>2, NullAssumption DEF Notify
<1>6. Idle'
    BY <1>1, <1>2, <1>5 DEF Idle
<1>7. OnePlace'
    BY <1>1, <1>2, <1>3 DEF OnePlace
<1>8. RowsFit'
  <2>1. \A k \in adding' \cup Waiting' : Fresh(k)'
      BY <1>1, <1>3, <1>4 DEF RowsFit, Fresh
  <2>2. ASSUME NEW t \in Slots, run'[t] # Null PROVE CallFits(run[t])'
    <3>1. run'[t] = run[t] /\ CallFits(run[t])
        BY <2>2, <1>2 DEF RowsFit
    <3> QED
        BY <3>1, <1>4 DEF CallFits, Fresh, Alive
  <2> QED
      BY <2>1, <2>2, <1>1 DEF RowsFit
<1>9. NoneStuck'
  <2> SUFFICES ASSUME NEW k \in Jobs, Unfinished(k)'
               PROVE  \/ k \in adding' \cup Waiting' \/ Runners(k)' # {}
                      \/ phase' = "down" \/ sweeping' \/ k \in stranded'
      BY DEF NoneStuck
  <2>1. Unfinished(k)
      BY <1>4
  <2>2. \/ k \in adding \cup Waiting \/ Runners(k) # {}
        \/ phase = "down" \/ sweeping \/ k \in stranded
      BY <2>1 DEF NoneStuck, Idle
  <2>3. run[s].job # k
      BY <2>1, <1>1 DEF RowsFit, CallFits
  <2>4. Runners(k) \subseteq Runners(k)'
      BY <1>2, <2>3 DEF Runners
  <2> QED
      BY <1>1, <1>3, <2>2, <2>4
<1>10. BoardNext
    BY <1>4, BoardSame DEF BoardNext, board
<1> QED
    BY <1>6, <1>7, <1>8, <1>9, <1>10

LEMMA ProcessPlace == ASSUME PInv, ~Durable, Crash \/ Boot \/ Registered
                      PROVE  Idle' /\ OnePlace' /\ RowsFit' /\ NoneStuck' /\ BoardNext
<1> USE DEF PInv
<1>1. UNCHANGED <<row, begun, claim>>
    BY DEF Crash, Boot, Registered, bull, history
<1>2. \A k : Shown(k)' = Shown(k) /\ (Unfinished(k)' <=> Unfinished(k)) /\ begun'[k] = begun[k]
    BY <1>1 DEF Shown, Unfinished
<1>3. /\ adding' = {} /\ queue' = <<>> /\ \A t \in Slots : run'[t] = Null
      /\ \/ phase' = "down" \/ sweeping'
         \/ phase' = "up" /\ phase = "booting" /\ sweeping' = sweeping /\ stranded' = stranded
  <2>1. CASE Crash
      BY <2>1 DEF Crash
  <2>2. CASE Boot
      BY <2>2 DEF Boot, Idle
  <2>3. CASE Registered
      BY <2>3 DEF Registered, Idle
  <2> QED
      BY <2>1, <2>2, <2>3
<1>4. Waiting' = {}
    BY <1>3 DEF Waiting
<1>5. Idle' /\ OnePlace'
    BY <1>1, <1>3, <1>4 DEF Idle, OnePlace
<1>6. RowsFit'
    BY <1>1, <1>3, <1>4 DEF RowsFit
<1>7. NoneStuck'
  <2>1. CASE phase' = "down" \/ sweeping'
      BY <2>1 DEF NoneStuck
  <2>2. CASE phase = "booting" /\ ~sweeping
    <3>1. adding = {} /\ queue = <<>> /\ \A t \in Slots : run[t] = Null
        BY <2>2 DEF Idle
    <3>2. \A k \in Jobs : Unfinished(k) => k \in stranded
        BY <2>2, <3>1 DEF NoneStuck, Idle, Runners, Waiting
    <3> QED
        BY <1>2, <1>3, <3>2 DEF NoneStuck
  <2> QED
      BY <1>3, <2>1, <2>2
<1>8. BoardNext
    BY <1>2, BoardSame DEF BoardNext, board
<1> QED
    BY <1>5, <1>6, <1>7, <1>8

LEMMA SweepPlace == ASSUME PInv, ~Durable, Sweep
                    PROVE  Idle' /\ OnePlace' /\ RowsFit' /\ NoneStuck' /\ BoardNext
<1> USE DEF PInv
<1>1. UNCHANGED <<adding, queue, run, claim, phase, begun>>
    BY DEF Sweep, bull, history
<1>2. Waiting' = Waiting /\ Waiting \subseteq Jobs /\ adding \subseteq Jobs
    BY <1>1 DEF Waiting, TInv, TypeOK
<1>3. row \in [Jobs -> Rows \cup {Null}] /\ row' \in [Jobs -> Rows \cup {Null}]
    BY SweepType DEF TInv, TypeOK
<1>4. ASSUME NEW k \in Jobs, Unfinished(k)
      PROVE  Shown(k)' = "INTERRUPTED" /\ ~Unfinished(k)' /\ row[k] # Null
             /\ Shown(k) \in {"QUEUED", "RUNNING"}
  <2>1. row'[k] = [row[k] EXCEPT !.status = "FAILED", !.error = "interrupted"]
      BY <1>4 DEF Sweep
  <2>2. row[k] \in Rows /\ row[k] # Null /\ row'[k] # Null
      BY <1>3, <1>4, SweepType DEF Unfinished, TInv, RowsStay
  <2>3. row'[k].status = "FAILED" /\ row'[k].error = "interrupted"
      BY <2>1, <2>2 DEF Rows
  <2>4. Shown(k)' = "INTERRUPTED" /\ ~Unfinished(k)'
      BY <2>2, <2>3 DEF Shown, Unfinished
  <2>5. Shown(k) \in {"QUEUED", "RUNNING"}
      BY <1>4 DEF Shown, Unfinished
  <2> QED
      BY <2>2, <2>4, <2>5
<1>5. ASSUME NEW k \in Jobs, ~Unfinished(k)
      PROVE  /\ row'[k] = row[k] /\ Shown(k)' = Shown(k) /\ ~Unfinished(k)'
             /\ Shown(k) \notin {"QUEUED", "RUNNING"}
  <2>1. row'[k] = row[k]
      BY <1>5 DEF Sweep
  <2>2. Shown(k)' = Shown(k) /\ ~Unfinished(k)'
      BY <1>5, <2>1 DEF Shown, Unfinished
  <2>3. Shown(k) \notin {"QUEUED", "RUNNING"}
      BY <1>5, NullAssumption DEF Shown, Unfinished
  <2> QED
      BY <2>1, <2>2, <2>3
<1>6. \A k \in Jobs : (Fresh(k) => Fresh(k)') /\ (Alive(k) => Alive(k)') /\ ~Unfinished(k)'
    BY <1>1, <1>4, <1>5 DEF Fresh, Alive
<1>7. Idle'
    BY <1>1 DEF Idle
<1>8. OnePlace'
    BY <1>1, <1>2 DEF OnePlace
<1>9. RowsFit'
  <2>1. \A k \in adding' \cup Waiting' : Fresh(k)'
    <3>1. \A k \in adding \cup Waiting : Fresh(k) /\ k \in Jobs
        BY <1>2 DEF RowsFit
    <3> QED
        BY <1>1, <1>2, <1>6, <3>1
  <2>2. ASSUME NEW t \in Slots, run'[t] # Null PROVE CallFits(run[t])'
    <3>1. run'[t] = run[t] /\ CallFits(run[t])
        BY <2>2, <1>1 DEF RowsFit
    <3>2. run[t].job \in Jobs
        BY <2>2, <1>1 DEF TInv, TypeOK, Runs
    <3> QED
        BY <1>6, <3>1, <3>2, Zenon DEF CallFits
  <2>3. \A k \in Jobs : begun'[k] <= 1 /\ (row'[k] = Null => begun'[k] = 0)
    <3>1. \A k \in Jobs : row'[k] = Null => row[k] = Null
        BY SweepType DEF TInv, RowsStay
    <3> QED
        BY <3>1, <1>1 DEF RowsFit
  <2> QED
      BY <2>1, <2>2, <2>3 DEF RowsFit
<1>10. NoneStuck'
    BY <1>6, Zenon DEF NoneStuck
<1>11. BoardNext
  <2>1. \A k \in Jobs :
           Shown(k)' = IF Shown(k) \in {"QUEUED", "RUNNING"} THEN "INTERRUPTED" ELSE Shown(k)
      BY <1>4, <1>5
  <2>2. board' = [k \in Jobs |->
                    IF board[k] \in {"QUEUED", "RUNNING"} THEN "INTERRUPTED" ELSE board[k]]
      BY <2>1 DEF board
  <2> QED
      BY <2>2 DEF BoardNext, board, Board!Next, Board!Interrupt
<1> QED
    BY <1>7, <1>8, <1>9, <1>10, <1>11

(* The rows the failed sweep leaves to nobody are remembered, and no other. *)
LEMMA SweepFailsPlace == ASSUME PInv, ~Durable, SweepFails
                         PROVE  Idle' /\ OnePlace' /\ RowsFit' /\ NoneStuck' /\ BoardNext
<1> USE DEF PInv
<1>1. UNCHANGED <<row, adding, queue, run, claim, phase, begun>>
    BY DEF SweepFails, bull, history
<1>2. Waiting' = Waiting /\ \A k \in Jobs : Runners(k)' = Runners(k)
    BY <1>1 DEF Waiting, Runners
<1>3. \A k : Shown(k)' = Shown(k) /\ (Unfinished(k)' <=> Unfinished(k)) /\ begun'[k] = begun[k]
    BY <1>1 DEF Shown, Unfinished
<1>4. Idle' /\ OnePlace'
    BY <1>1, <1>2 DEF Idle, OnePlace
<1>5. RowsFit'
    BY <1>1, <1>2, <1>3 DEF RowsFit, Fresh, CallFits, Alive
<1>6. NoneStuck'
  <2>1. \A k \in Jobs : Orphan(k)' => k \in stranded'
      BY DEF SweepFails, Strands
  <2> QED
      BY <2>1 DEF NoneStuck, Orphan
<1>7. BoardNext
    BY <1>3, BoardSame DEF BoardNext, board
<1> QED
    BY <1>4, <1>5, <1>6, <1>7

-----------------------------------------------------------------------------
LEMMA PInvInit == Init => PInv
<1> SUFFICES ASSUME Init PROVE PInv
    OBVIOUS
<1>1. TInv
    BY InitType, SoundInit DEF TInv
<1>2. Waiting = {} /\ adding = {} /\ \A s \in Slots : run[s] = Null
    BY DEF Init, Waiting
<1>3. Idle /\ OnePlace
    BY <1>2 DEF Init, Idle, OnePlace
<1>4. RowsFit
    BY <1>2 DEF Init, RowsFit
<1>5. NoneStuck
    BY DEF Init, NoneStuck, Unfinished
<1> QED
    BY <1>1, <1>3, <1>4, <1>5 DEF PInv

LEMMA PInvStep == ASSUME PInv, ~Durable, [Next]_vars PROVE PInv' /\ BoardNext
<1>1. TInv'
    BY TInvStep DEF PInv
<1>2. Idle' /\ OnePlace' /\ RowsFit' /\ NoneStuck' /\ BoardNext
  <2>1. ASSUME NEW j \in Jobs, CreateRow(j) \/ Push(j) \/ PushFails(j) \/ Stall(j)
        PROVE  Idle' /\ OnePlace' /\ RowsFit' /\ NoneStuck' /\ BoardNext
      BY <2>1, CreateRowPlace, PushPlace DEF Stall, PushFails
  <2>2. ASSUME NEW s \in Slots, Step(s) \/ GivesUp(s)
        PROVE  Idle' /\ OnePlace' /\ RowsFit' /\ NoneStuck' /\ BoardNext
      BY <2>2, TakePlace, BusyStepPlace, NotifyPlace DEF Step, GivesUp
  <2>3. CASE Crash \/ Boot \/ Registered
      BY <2>3, ProcessPlace
  <2>4. CASE Sweep
      BY <2>4, SweepPlace
  <2>6. CASE SweepFails
      BY <2>6, SweepFailsPlace
  <2>5. CASE UNCHANGED vars
    <3>1. Idle' /\ OnePlace' /\ RowsFit' /\ NoneStuck'
        BY <2>5 DEF vars, PInv, Idle, OnePlace, RowsFit, NoneStuck, Waiting, Runners, Fresh,
                    CallFits, Alive, Shown, Unfinished
    <3>2. \A k \in Jobs : Shown(k)' = Shown(k)
        BY <2>5 DEF vars, Shown
    <3> QED
        BY <3>1, <3>2, BoardSame DEF BoardNext, board
  <2> QED
      BY <2>1, <2>2, <2>3, <2>4, <2>5, <2>6 DEF Next
<1> QED
    BY <1>1, <1>2 DEF PInv

(* Without Redis no job is ever left behind: an unfinished row is being      *)
(* enqueued, waits, runs, or will be reached by a boot's sweep; the one way  *)
(* to be left to nobody is that this boot's sweep failed.                    *)
THEOREM NoJobLost == ASSUME ~Durable PROVE Spec => []NoneStuck
<1>1. PInv => NoneStuck
    BY DEF PInv
<1>2. PInv /\ [Next]_vars => PInv'
    BY PInvStep
<1> QED
    BY <1>1, <1>2, PInvInit, PTL DEF Spec

(* Without Redis no batch is ever started twice, whatever restarts happen.   *)
THEOREM BatchesOnce == ASSUME ~Durable PROVE Spec => []RunsBounded
<1>1. PInv => RunsBounded
  <2>1. PInv => \A j \in Jobs : begun[j] \in Nat /\ begun[j] <= 1 /\ stalls[j] \in 0..MaxStalls
      BY DEF PInv, RowsFit, TInv, TypeOK
  <2> QED
      BY <2>1, SizesAssumption DEF RunsBounded
<1>2. PInv /\ [Next]_vars => PInv'
    BY PInvStep
<1> QED
    BY <1>1, <1>2, PInvInit, PTL DEF Spec

(* Without Redis the runner implements the job board: every job is queued,   *)
(* started at most once and given one outcome, and only a job the sweep      *)
(* interrupted can still change.                                             *)
THEOREM ImplementsBoard == ASSUME ~Durable PROVE Spec => BoardSpec
<1>1. Init => Board!Init
  <2> SUFFICES ASSUME Init PROVE [j \in Jobs |-> Shown(j)] = [j \in Jobs |-> "ABSENT"]
      BY DEF Board!Init
  <2>1. \A j \in Jobs : Shown(j) = "ABSENT"
      BY DEF Init, Shown
  <2> QED
      BY <2>1
<1>2. PInv /\ [Next]_vars => PInv' /\ [Board!Next]_([j \in Jobs |-> Shown(j)])
    BY PInvStep DEF BoardNext, board
<1> QED
    BY <1>1, <1>2, PInvInit, PTL DEF Spec, BoardSpec, Board!Spec

-----------------------------------------------------------------------------
(* The outcome of a batch that works on one item at a time, in both modes.   *)

(* The slot has started the handler of the job. *)
Working(s, j) ==
    /\ run[s] # Null
    /\ run[s].job = j
    /\ \/ run[s].step = "work"
       \/ run[s].step = "finish" /\ run[s].error # "no handler"

(* The outcome is the one the items had. *)
Deserved(o, c) ==
    /\ o = "SUCCEEDED" => c = [ok |-> Total, bad |-> 0]
    /\ o = "PARTIAL" => c.ok > 0 /\ c.bad > 0
    /\ o = "FAILED" => c.ok = 0

(* The counters of a call add up, and at most one progress() write is out. *)
CallCounted(q) ==
    /\ q.step = "begin" => q.counts = None /\ q.left = Total /\ q.sent = {} /\ q.error = "none"
    /\ q.step = "work" =>
         /\ q.error = "none"
         /\ q.counts.ok + q.counts.bad + q.left = Total
         /\ q.sent = {} \/ q.sent = {q.counts}
    /\ q.step = "finish" /\ q.error # "none" => q.outcome = "FAILED"

(* A handler at work has the counters of the job's items, and the row shows  *)
(* them once the progress() write has landed.                                *)
WorkCounted(s, j) ==
    /\ \/ row[j].status = "RUNNING"
       \/ row[j].status = "FAILED" /\ row[j].error # "none"
    /\ run[s].step = "work" =>
          /\ tally[j] = run[s].counts
          /\ run[s].sent = {} => row[j].counts = run[s].counts
    /\ run[s].step = "finish" /\ run[s].error = "none" => Deserved(run[s].outcome, tally[j])

(* OutcomeTruthful, of one job. *)
Truthful(j) ==
    Settled(j) /\ begun[j] = 1 =>
        /\ row[j].status = "SUCCEEDED" => tally[j] = [ok |-> Total, bad |-> 0]
        /\ row[j].status = "PARTIAL" => tally[j].ok > 0 /\ tally[j].bad > 0
        /\ row[j].status = "FAILED" /\ row[j].error = "none" => tally[j].ok = 0

(* A job never started has no items done; one started once has one handler   *)
(* at most.                                                                  *)
JobCounted(j) ==
    /\ begun[j] = 0 => /\ tally[j] = None
                       /\ row[j] # Null => row[j].counts = None
                       /\ \A s \in Slots : ~Working(s, j)
    /\ begun[j] = 1 => \A s, t \in Slots : Working(s, j) /\ Working(t, j) => s = t
    /\ begun[j] = 1 => \A s \in Slots : Working(s, j) => WorkCounted(s, j)
    /\ Truthful(j)

AllCounted ==
    /\ \A s \in Slots : run[s] # Null => CallCounted(run[s])
    /\ \A j \in Jobs : JobCounted(j)

OInv == TInv /\ AllCounted

(* A step of one slot, and of its job, leaves the other jobs' counts alone. *)
LEMMA OtherJobCounted ==
    ASSUME OInv, NEW s \in Slots, NEW k \in Jobs,
           run[s] # Null => run[s].job # k,
           run'[s] # Null => run'[s].job # k,
           \A t \in Slots \ {s} : run'[t] = run[t],
           row'[k] = row[k], begun'[k] = begun[k], tally'[k] = tally[k]
    PROVE  JobCounted(k)'
<1>1. \A t \in Slots : Working(t, k)' <=> Working(t, k)
    BY DEF Working
<1>2. \A t \in Slots : Working(t, k) => run'[t] = run[t]
    BY DEF Working
<1>3. \A t \in Slots : Working(t, k) /\ WorkCounted(t, k) => WorkCounted(t, k)'
    BY <1>2 DEF WorkCounted
<1>4. Truthful(k)'
    BY DEF OInv, AllCounted, JobCounted, Truthful, Settled
<1> QED
    BY <1>1, <1>3, <1>4 DEF OInv, AllCounted, JobCounted

(* Without working calls of a job before or after, and with the row, the     *)
(* count of starts and the items as they were, nothing changes for it.       *)
LEMMA FewerCalls ==
    ASSUME OInv, NEW j \in Jobs,
           \A s \in Slots : Working(s, j)' => Working(s, j) /\ run'[s] = run[s],
           row'[j] = row[j], begun'[j] = begun[j], tally'[j] = tally[j]
    PROVE  JobCounted(j)'
<1>1. \A s \in Slots : Working(s, j)' /\ WorkCounted(s, j) => WorkCounted(s, j)'
    BY DEF WorkCounted
<1>2. Truthful(j)'
    BY DEF OInv, AllCounted, JobCounted, Truthful, Settled
<1> QED
    BY <1>1, <1>2 DEF OInv, AllCounted, JobCounted

LEMMA InitOInv == Init => OInv
<1> SUFFICES ASSUME Init PROVE OInv
    OBVIOUS
<1>1. TInv
    BY InitType, SoundInit DEF TInv
<1>2. \A s \in Slots : run[s] = Null
    BY DEF Init
<1>3. \A j \in Jobs : row[j] = Null /\ begun[j] = 0 /\ tally[j] = None
    BY DEF Init
<1>4. \A j \in Jobs : JobCounted(j)
    BY <1>2, <1>3 DEF JobCounted, Working, Truthful, Settled
<1> QED
    BY <1>1, <1>2, <1>4 DEF OInv, AllCounted

(* Before it runs, a job gains a row, waits in the queue, or is taken back. *)
LEMMA WaitingCounted ==
    ASSUME OInv, NEW j \in Jobs, CreateRow(j) \/ Push(j) \/ PushFails(j) \/ Stall(j)
    PROVE  AllCounted'
<1>1. run' = run /\ begun' = begun /\ tally' = tally
    BY DEF CreateRow, Push, PushFails, Stall, history
<1>2. ASSUME NEW k \in Jobs PROVE JobCounted(k)'
    <2>1. \A s \in Slots : Working(s, k)' => Working(s, k) /\ run'[s] = run[s]
        BY <1>1 DEF Working
    <2>2. CASE row'[k] = row[k]
        BY <1>1, <2>1, <2>2, FewerCalls
    <2>3. CASE row'[k] # row[k]
        <3>1. CreateRow(j) /\ row[j] = Null
            BY <2>3 DEF CreateRow, Push, PushFails, Stall
        <3>2. k = j /\ row'[j] = [status |-> "QUEUED", error |-> "none", counts |-> None]
            BY <2>3, <3>1 DEF CreateRow, OInv, TInv, TypeOK
        <3>3. \A s \in Slots : ~Working(s, k) /\ ~Working(s, k)'
            BY <1>1, <3>1, <3>2 DEF OInv, TInv, Sound, Working
        <3>4. Truthful(k)'
            BY <3>2 DEF Truthful, Settled, Outcomes
        <3> QED
            BY <1>1, <3>2, <3>3, <3>4 DEF OInv, AllCounted, JobCounted
    <2> QED
        BY <2>2, <2>3
<1> QED
    BY <1>1, <1>2 DEF OInv, AllCounted, CallCounted

LEMMA NewRunFields ==
    ASSUME NEW j, NEW known \in BOOLEAN
    PROVE  LET q == NewRun(j, known) IN
           /\ q.counts = None /\ q.left = Total /\ q.sent = {}
           /\ known => q.step = "begin" /\ q.error = "none"
           /\ ~known => q.step = "finish" /\ q.outcome = "FAILED" /\ q.error = "no handler"
BY DEF NewRun

LEMMA TakeCounted ==
    ASSUME OInv, NEW s \in Slots, Take(s)
    PROVE  AllCounted'
<1>1. PICK known \in BOOLEAN : run' = [run EXCEPT ![s] = NewRun(Head(queue), known)]
    BY DEF Take
<1>2. run[s] = Null /\ run'[s] = NewRun(Head(queue), known)
      /\ \A t \in Slots \ {s} : run'[t] = run[t]
    BY <1>1 DEF Take, OInv, TInv, TypeOK
<1>3. row' = row /\ begun' = begun /\ tally' = tally
    BY DEF Take, history
<1>n. /\ run'[s].counts = None /\ run'[s].left = Total /\ run'[s].sent = {}
      /\ known => run'[s].step = "begin" /\ run'[s].error = "none"
      /\ ~known => /\ run'[s].step = "finish" /\ run'[s].outcome = "FAILED"
                   /\ run'[s].error = "no handler"
    BY <1>2, NewRunFields
<1>4. CallCounted(run'[s])
    <2>1. CASE known
        BY <1>n, <2>1 DEF CallCounted
    <2>2. CASE ~known
        BY <1>n, <2>2 DEF CallCounted
    <2> QED
        BY <2>1, <2>2
<1>5. \A j \in Jobs : ~Working(s, j)'
    BY <1>n DEF Working
<1>6. \A j \in Jobs : JobCounted(j)'
    BY <1>2, <1>3, <1>5, FewerCalls DEF Working
<1> QED
    BY <1>2, <1>4, <1>6 DEF OInv, AllCounted, CallCounted

LEMMA NotifyCounted ==
    ASSUME OInv, NEW s \in Slots, Notify(s) \/ GivesUp(s)
    PROVE  AllCounted'
<1>1. run'[s] = Null /\ \A t \in Slots \ {s} : run'[t] = run[t]
    BY DEF Notify, GivesUp, OInv, TInv, TypeOK
<1>2. row' = row /\ begun' = begun /\ tally' = tally
    BY DEF Notify, GivesUp, history
<1>3. \A j \in Jobs : JobCounted(j)'
    BY <1>1, <1>2, FewerCalls DEF Working
<1> QED
    BY <1>1, <1>3 DEF OInv, AllCounted, CallCounted

(* What a step of a busy slot keeps of the counts, once its own call and job *)
(* are known to be counted.                                                  *)
LEMMA BusyCounted ==
    ASSUME OInv, NEW s \in Slots, NEW j \in Jobs,
           run[s] # Null, run[s].job = j, run'[s] # Null, run'[s].job = j,
           \A t \in Slots \ {s} : run'[t] = run[t],
           \A k \in Jobs \ {j} : row'[k] = row[k] /\ begun'[k] = begun[k] /\ tally'[k] = tally[k],
           CallCounted(run'[s]), JobCounted(j)'
    PROVE  AllCounted'
<1>1. \A k \in Jobs \ {j} : JobCounted(k)'
    BY OtherJobCounted
<1> QED
    BY <1>1 DEF OInv, AllCounted, CallCounted

(* The only handler of a job that was started once. *)
LEMMA OnlyWorker ==
    ASSUME OInv, NEW s \in Slots, NEW j \in Jobs, Working(s, j), begun[j] = 1
    PROVE  WorkCounted(s, j) /\ \A t \in Slots : Working(t, j) => t = s
BY DEF OInv, AllCounted, JobCounted

LEMMA BeginCounted ==
    ASSUME OInv, NEW s \in Slots, Begin(s)
    PROVE  AllCounted'
<1>1. /\ TInv' /\ run[s] # Null /\ run'[s] # Null /\ run'[s].job = run[s].job
      /\ \A t \in Slots \ {s} : run'[t] = run[t]
    BY BusyStepSound DEF OInv
<1>2. PICK j \in Jobs : run[s].job = j /\ row[j] \in Rows /\ run[s] \in Runs
    BY <1>1, Busy DEF OInv, TInv, Sound
<1>3. /\ row \in [Jobs -> Rows \cup {Null}] /\ begun \in [Jobs -> Nat]
      /\ run \in [Slots -> Runs \cup {Null}]
    BY DEF OInv, TInv, TypeOK
<1>4. run'[s] = [run[s] EXCEPT !.step = "work"]
    BY <1>3 DEF Begin
<1>5. /\ run'[s].step = "work" /\ run'[s].counts = run[s].counts /\ run'[s].left = run[s].left
      /\ run'[s].sent = run[s].sent /\ run'[s].error = run[s].error
    BY <1>2, <1>4, Zenon DEF Runs
<1>6. run[s].step = "begin" /\ CallCounted(run[s])
    BY <1>1 DEF Begin, At, OInv, AllCounted
<1>7. CallCounted(run'[s])
    <2>1. Total \in Nat /\ 0 + 0 + Total = Total
        BY SizesAssumption
    <2>2. None.ok = 0 /\ None.bad = 0
        BY DEF None
    <2> QED
        BY <1>5, <1>6, <2>1, <2>2 DEF CallCounted
<1>8. row' = [row EXCEPT ![j] = [row[j] EXCEPT !.status = "RUNNING"]]
    BY <1>2 DEF Begin
<1>9. row'[j].status = "RUNNING" /\ row'[j].counts = row[j].counts
    BY <1>2, <1>3, <1>8, Zenon DEF Rows
<1>10. begun' = [begun EXCEPT ![j] = @ + 1] /\ tally' = tally
    BY <1>2 DEF Begin
<1>11. begun'[j] = begun[j] + 1 /\ begun[j] \in Nat
    BY <1>3, <1>10
<1>12. JobCounted(j)'
    <2>1. Truthful(j)'
        BY <1>9 DEF Truthful, Settled, Outcomes
    <2>2. CASE begun[j] = 0
        <3>1. tally[j] = None /\ row[j].counts = None /\ \A t \in Slots : ~Working(t, j)
            BY <1>2, <2>2, NullAssumption DEF OInv, AllCounted, JobCounted
        <3>2. \A t \in Slots : Working(t, j)' => t = s
            BY <1>1, <3>1 DEF Working
        <3>3. WorkCounted(s, j)'
            BY <1>5, <1>6, <1>9, <1>10, <3>1 DEF WorkCounted, CallCounted
        <3> QED
            BY <1>11, <2>1, <2>2, <3>2, <3>3 DEF JobCounted
    <2>3. CASE begun[j] # 0
        BY <1>11, <2>1, <2>3 DEF JobCounted
    <2> QED
        BY <2>2, <2>3
<1>13. \A k \in Jobs \ {j} : row'[k] = row[k] /\ begun'[k] = begun[k] /\ tally'[k] = tally[k]
    BY <1>3, <1>8, <1>10
<1> QED
    BY <1>1, <1>2, <1>7, <1>12, <1>13, BusyCounted

(* One item at a time: an item is worked on only when the last counters have *)
(* landed.                                                                   *)
LEMMA WorkItemCounted ==
    ASSUME OInv, Parallel = 1, NEW s \in Slots, NEW ok \in BOOLEAN, WorkItem(s, ok)
    PROVE  AllCounted'
<1>1. /\ TInv' /\ run[s] # Null /\ run'[s] # Null /\ run'[s].job = run[s].job
      /\ \A t \in Slots \ {s} : run'[t] = run[t]
    BY BusyStepSound DEF OInv
<1>2. PICK j \in Jobs : run[s].job = j /\ row[j] \in Rows /\ run[s] \in Runs
    BY <1>1, Busy DEF OInv, TInv, Sound
<1>3. run \in [Slots -> Runs \cup {Null}] /\ tally \in [Jobs -> Counts] /\ begun \in [Jobs -> Nat]
    BY DEF OInv, TInv, TypeOK
<1> DEFINE c == More(run[s].counts, ok)
<1>4. /\ run[s].step = "work" /\ run[s].left > 0 /\ Cardinality(run[s].sent) < 1
      /\ CallCounted(run[s])
    BY <1>1 DEF WorkItem, At, OInv, AllCounted
<1>5. run[s].sent = {}
    <2>1. run[s].sent = {} \/ run[s].sent = {run[s].counts}
        BY <1>4 DEF CallCounted
    <2>2. Cardinality({run[s].counts}) = 1
        BY FS_Singleton, Zenon
    <2> QED
        BY <1>4, <2>1, <2>2
<1>6. run'[s] = [run[s] EXCEPT !.counts = c, !.left = run[s].left - 1, !.sent = run[s].sent \cup {c}]
    BY <1>3 DEF WorkItem
<1>7. /\ run'[s].step = "work" /\ run'[s].counts = c /\ run'[s].left = run[s].left - 1
      /\ run'[s].sent = run[s].sent \cup {c} /\ run'[s].error = run[s].error
    BY <1>2, <1>4, <1>6, Zenon DEF Runs
<1>8. /\ run[s].counts \in Counts /\ run[s].left \in Nat
    BY <1>2, SizesAssumption DEF Runs
<1>9. c.ok + c.bad = run[s].counts.ok + run[s].counts.bad + 1 /\ c.ok \in Nat /\ c.bad \in Nat
    BY <1>8 DEF More, Counts
<1>10. CallCounted(run'[s])
    <2>1. run[s].error = "none" /\ run[s].counts.ok + run[s].counts.bad + run[s].left = Total
        BY <1>4 DEF CallCounted
    <2>2. run[s].counts.ok \in Nat /\ run[s].counts.bad \in Nat
        BY <1>8 DEF Counts
    <2>3. c.ok + c.bad + (run[s].left - 1) = Total
        BY <1>8, <1>9, <2>1, <2>2
    <2>4. run'[s].sent = {c}
        BY <1>5, <1>7
    <2> HIDE DEF c
    <2> QED
        BY <1>7, <2>1, <2>3, <2>4 DEF CallCounted
<1>11. row' = row /\ begun' = begun /\ tally' = [tally EXCEPT ![j] = More(tally[j], ok)]
    BY <1>2 DEF WorkItem
<1>12. Working(s, j)
    BY <1>1, <1>2, <1>4 DEF Working
<1>13. JobCounted(j)'
    <2>1. begun[j] # 0
        BY <1>12 DEF OInv, AllCounted, JobCounted
    <2>2. CASE begun[j] = 1
        <3>1. WorkCounted(s, j) /\ \A t \in Slots : Working(t, j) => t = s
            BY <1>12, <2>2, OnlyWorker
        <3>2. \A t \in Slots : Working(t, j)' => t = s
            BY <1>1, <3>1 DEF Working
        <3>3. tally'[j] = c
            BY <1>3, <1>4, <1>11, <3>1 DEF WorkCounted
        <3> HIDE DEF c
        <3>4. WorkCounted(s, j)'
            BY <1>7, <1>11, <3>1, <3>3 DEF WorkCounted
        <3>5. Truthful(j)'
            BY <3>4 DEF WorkCounted, Truthful, Settled, Outcomes
        <3> QED
            BY <1>11, <2>2, <3>2, <3>4, <3>5 DEF JobCounted
    <2>3. CASE begun[j] # 1
        BY <1>11, <2>1, <2>3 DEF JobCounted, Truthful
    <2> QED
        BY <2>2, <2>3
<1>14. \A k \in Jobs \ {j} : row'[k] = row[k] /\ begun'[k] = begun[k] /\ tally'[k] = tally[k]
    BY <1>3, <1>11
<1> QED
    BY <1>1, <1>2, <1>10, <1>13, <1>14, BusyCounted

LEMMA LandCounted ==
    ASSUME OInv, NEW s \in Slots, Land(s)
    PROVE  AllCounted'
<1>1. /\ TInv' /\ run[s] # Null /\ run'[s] # Null /\ run'[s].job = run[s].job
      /\ \A t \in Slots \ {s} : run'[t] = run[t]
    BY BusyStepSound DEF OInv
<1>2. PICK j \in Jobs : run[s].job = j /\ row[j] \in Rows /\ run[s] \in Runs
    BY <1>1, Busy DEF OInv, TInv, Sound
<1>3. run \in [Slots -> Runs \cup {Null}] /\ row \in [Jobs -> Rows \cup {Null}]
    BY DEF OInv, TInv, TypeOK
<1>4. run[s].step = "work" /\ CallCounted(run[s])
    BY <1>1 DEF Land, At, OInv, AllCounted
<1>5. PICK c \in run[s].sent : /\ row' = [row EXCEPT ![run[s].job].counts = c]
                               /\ run' = [run EXCEPT ![s].sent = @ \ {c}]
    BY DEF Land
<1>6. c = run[s].counts /\ run[s].sent \ {c} = {}
    BY <1>4, <1>5 DEF CallCounted
<1>7. run'[s] = [run[s] EXCEPT !.sent = {}]
    BY <1>3, <1>5, <1>6
<1>8. /\ run'[s].step = "work" /\ run'[s].counts = run[s].counts /\ run'[s].left = run[s].left
      /\ run'[s].sent = {} /\ run'[s].error = run[s].error
    BY <1>2, <1>4, <1>7, Zenon DEF Runs
<1>9. row' = [row EXCEPT ![j] = [row[j] EXCEPT !.counts = c]]
    BY <1>2, <1>5
<1>10. row'[j].counts = c /\ row'[j].status = row[j].status /\ row'[j].error = row[j].error
    BY <1>2, <1>3, <1>9, Zenon DEF Rows
<1>11. begun' = begun /\ tally' = tally
    BY DEF Land, history
<1>12. CallCounted(run'[s])
    BY <1>4, <1>8 DEF CallCounted
<1>13. Working(s, j)
    BY <1>1, <1>2, <1>4 DEF Working
<1>14. JobCounted(j)'
    <2>1. begun[j] # 0
        BY <1>13 DEF OInv, AllCounted, JobCounted
    <2>2. CASE begun[j] = 1
        <3>1. WorkCounted(s, j) /\ \A t \in Slots : Working(t, j) => t = s
            BY <1>13, <2>2, OnlyWorker
        <3>2. \A t \in Slots : Working(t, j)' => t = s
            BY <1>1, <3>1 DEF Working
        <3>3. WorkCounted(s, j)'
            BY <1>4, <1>6, <1>8, <1>10, <1>11, <3>1 DEF WorkCounted
        <3>4. Truthful(j)'
            BY <3>3 DEF WorkCounted, Truthful, Settled, Outcomes
        <3> QED
            BY <1>11, <2>2, <3>2, <3>3, <3>4 DEF JobCounted
    <2>3. CASE begun[j] # 1
        BY <1>11, <2>1, <2>3 DEF JobCounted, Truthful
    <2> QED
        BY <2>2, <2>3
<1>15. \A k \in Jobs \ {j} : row'[k] = row[k] /\ begun'[k] = begun[k] /\ tally'[k] = tally[k]
    BY <1>3, <1>9, <1>11
<1> QED
    BY <1>1, <1>2, <1>12, <1>14, <1>15, BusyCounted

(* What the counters of a finished batch deserve. *)
LEMMA VerdictDeserved ==
    ASSUME NEW c \in Counts, c.ok + c.bad = Total
    PROVE  Deserved(Verdict(c), c)
<1>1. c = [ok |-> c.ok, bad |-> c.bad] /\ c.ok \in Nat /\ c.bad \in Nat
    BY DEF Counts
<1>2. CASE c.bad = 0
    BY <1>1, <1>2 DEF Verdict, Deserved
<1>3. CASE c.bad # 0
    BY <1>1, <1>3 DEF Verdict, Deserved
<1> QED
    BY <1>2, <1>3

LEMMA ReturnCounted ==
    ASSUME OInv, NEW s \in Slots, Return(s) \/ Throw(s)
    PROVE  AllCounted'
<1>1. /\ TInv' /\ run[s] # Null /\ run'[s] # Null /\ run'[s].job = run[s].job
      /\ \A t \in Slots \ {s} : run'[t] = run[t]
    BY BusyStepSound DEF OInv
<1>2. PICK j \in Jobs : run[s].job = j /\ row[j] \in Rows /\ run[s] \in Runs
    BY <1>1, Busy DEF OInv, TInv, Sound
<1>3. run \in [Slots -> Runs \cup {Null}] /\ tally \in [Jobs -> Counts]
    BY DEF OInv, TInv, TypeOK
<1>4. /\ CallCounted(run[s])
      /\ \/ run[s].step = "work"
         \/ Throw(s) /\ run[s].step = "finish" /\ run[s].error = "none"
    BY <1>1 DEF Return, Throw, At, OInv, AllCounted
<1>5. row' = row /\ begun' = begun /\ tally' = tally
    BY DEF Return, Throw, history
<1>6. Working(s, j)
    BY <1>1, <1>2, <1>4 DEF Working
<1>7. /\ run'[s].step = "finish"
      /\ \/ Throw(s) /\ run'[s].error = "thrown" /\ run'[s].outcome = "FAILED"
         \/ /\ Return(s) /\ run'[s].error = run[s].error
            /\ run'[s].outcome = Verdict(row[j].counts)
    <2>1. CASE Throw(s)
        <3>1. run'[s] = [run[s] EXCEPT !.step = "finish", !.sent = {},
                                       !.outcome = "FAILED", !.error = "thrown"]
            BY <1>3, <2>1 DEF Throw
        <3> QED
            BY <1>2, <2>1, <3>1, Zenon DEF Runs
    <2>2. CASE Return(s)
        <3>1. run'[s] = [run[s] EXCEPT !.step = "finish", !.outcome = Verdict(row[j].counts)]
            BY <1>2, <1>3, <2>2 DEF Return
        <3> QED
            BY <1>2, <2>2, <3>1, Zenon DEF Runs
    <2> QED
        BY <2>1, <2>2
<1>8. CallCounted(run'[s])
    BY <1>4, <1>7 DEF CallCounted
<1>9. JobCounted(j)'
    <2>1. begun[j] # 0
        BY <1>6 DEF OInv, AllCounted, JobCounted
    <2>2. CASE begun[j] = 1
        <3>1. WorkCounted(s, j) /\ \A t \in Slots : Working(t, j) => t = s
            BY <1>6, <2>2, OnlyWorker
        <3>2. \A t \in Slots : Working(t, j)' => t = s
            BY <1>1, <3>1 DEF Working
        <3>3. ASSUME Return(s) PROVE Deserved(Verdict(row[j].counts), tally[j])
            <4>1. run[s].step = "work" /\ run[s].left = 0 /\ run[s].sent = {}
                BY <3>3 DEF Return, At
            <4>2. row[j].counts = tally[j] /\ tally[j] = run[s].counts
                BY <1>4, <3>1, <4>1 DEF WorkCounted
            <4>3. /\ tally[j] \in Counts /\ tally[j].ok \in Nat /\ tally[j].bad \in Nat
                BY <1>3 DEF Counts
            <4>4. tally[j].ok + tally[j].bad = Total
                BY <1>4, <4>1, <4>2, <4>3 DEF CallCounted
            <4> QED
                BY <4>2, <4>3, <4>4, VerdictDeserved
        <3>4. run'[s].error = "none" => Deserved(run'[s].outcome, tally'[j])
            BY <1>5, <1>7, <3>3
        <3>5. WorkCounted(s, j)'
            BY <1>5, <1>7, <3>1, <3>4 DEF WorkCounted
        <3>6. Truthful(j)'
            BY <3>5 DEF WorkCounted, Truthful, Settled, Outcomes
        <3> QED
            BY <1>5, <2>2, <3>2, <3>5, <3>6 DEF JobCounted
    <2>3. CASE begun[j] # 1
        BY <1>5, <2>1, <2>3 DEF JobCounted, Truthful
    <2> QED
        BY <2>2, <2>3
<1> QED
    BY <1>1, <1>2, <1>5, <1>8, <1>9, BusyCounted

(* finish() writes the outcome: of the handler, or that there was none. *)
LEMMA FinishCounted ==
    ASSUME OInv, NEW s \in Slots, Finish(s)
    PROVE  AllCounted'
<1>1. /\ TInv' /\ run[s] # Null /\ run'[s] # Null /\ run'[s].job = run[s].job
      /\ \A t \in Slots \ {s} : run'[t] = run[t]
    BY BusyStepSound DEF OInv
<1>2. PICK j \in Jobs : run[s].job = j /\ row[j] \in Rows /\ run[s] \in Runs
    BY <1>1, Busy DEF OInv, TInv, Sound
<1>3. run \in [Slots -> Runs \cup {Null}] /\ row \in [Jobs -> Rows \cup {Null}]
    BY DEF OInv, TInv, TypeOK
<1>4. run[s].step = "finish" /\ CallCounted(run[s])
    BY <1>1 DEF Finish, At, OInv, AllCounted
<1>5. begun' = begun /\ tally' = tally
    BY DEF Finish, history
<1>6. run'[s].step = "notify"
    <2>1. run'[s] = [run[s] EXCEPT !.step = "notify"]
        BY <1>3 DEF Finish
    <2> QED
        BY <1>2, <2>1, Zenon DEF Runs
<1> DEFINE e == IF run[s].error = "none" THEN row[j].error ELSE run[s].error
<1>7. row' = [row EXCEPT ![j] = [row[j] EXCEPT !.status = run[s].outcome, !.error = e]]
    BY <1>2 DEF Finish
<1>8. row'[j].status = run[s].outcome /\ row'[j].counts = row[j].counts /\ row'[j].error = e
    <2> HIDE DEF e
    <2> QED
        BY <1>2, <1>3, <1>7, Zenon DEF Rows
<1>9. CallCounted(run'[s])
    BY <1>6 DEF CallCounted
<1>10. ~Working(s, j)' /\ \A t \in Slots \ {s} : (Working(t, j)' <=> Working(t, j))
    BY <1>1, <1>6 DEF Working
<1>11. JobCounted(j)'
    <2>1. CASE begun[j] = 0
        <3>1. tally[j] = None /\ row[j].counts = None /\ \A t \in Slots : ~Working(t, j)
            BY <1>2, <2>1, NullAssumption DEF OInv, AllCounted, JobCounted
        <3> QED
            BY <1>5, <1>8, <1>10, <2>1, <3>1 DEF JobCounted, Truthful
    <2>2. CASE begun[j] = 1 /\ Working(s, j)
        <3>1. WorkCounted(s, j) /\ \A t \in Slots : Working(t, j) => t = s
            BY <2>2, OnlyWorker
        <3>2. \A t \in Slots : ~Working(t, j)'
            BY <1>10, <3>1
        <3>3. CASE run[s].error = "none"
            <4>1. Deserved(run[s].outcome, tally[j])
                BY <1>4, <3>1, <3>3 DEF WorkCounted
            <4>2. Truthful(j)'
                BY <1>5, <1>8, <4>1 DEF Truthful, Deserved
            <4> QED
                BY <1>5, <2>2, <3>2, <4>2 DEF JobCounted
        <3>4. CASE run[s].error # "none"
            <4>1. row'[j].status = "FAILED" /\ row'[j].error # "none"
                BY <1>4, <1>8, <3>4 DEF CallCounted
            <4>2. Truthful(j)'
                BY <4>1 DEF Truthful
            <4> QED
                BY <1>5, <2>2, <3>2, <4>2 DEF JobCounted
        <3> QED
            BY <3>3, <3>4
    <2>3. CASE begun[j] = 1 /\ ~Working(s, j)
        <3>1. run[s].error = "no handler"
            BY <1>1, <1>2, <1>4, <2>3 DEF Working
        <3>2. row'[j].status = "FAILED" /\ row'[j].error # "none"
            BY <1>4, <1>8, <3>1 DEF CallCounted
        <3>3. Truthful(j)'
            BY <3>2 DEF Truthful
        <3>4. ASSUME NEW t \in Slots, Working(t, j)' PROVE WorkCounted(t, j)'
            <4>1. t # s /\ run'[t] = run[t] /\ Working(t, j)
                BY <1>1, <1>10, <3>4
            <4>3. WorkCounted(t, j)
                BY <2>3, <4>1, OnlyWorker
            <4> QED
                BY <1>5, <1>8, <3>2, <4>1, <4>3 DEF WorkCounted
        <3>5. \A t, u \in Slots : Working(t, j)' /\ Working(u, j)' => t = u
            BY <1>10, <2>3 DEF OInv, AllCounted, JobCounted
        <3> QED
            BY <1>5, <2>3, <3>3, <3>4, <3>5 DEF JobCounted
    <2>4. CASE begun[j] \notin {0, 1}
        BY <1>5, <2>4 DEF JobCounted, Truthful
    <2> QED
        BY <2>1, <2>2, <2>3, <2>4
<1>12. \A k \in Jobs \ {j} : row'[k] = row[k] /\ begun'[k] = begun[k] /\ tally'[k] = tally[k]
    BY <1>3, <1>5, <1>7
<1> QED
    BY <1>1, <1>2, <1>9, <1>11, <1>12, BusyCounted

(* A restart loses the calls and none of the counts. *)
LEMMA ProcessCounted ==
    ASSUME OInv, Crash \/ Boot \/ Registered \/ SweepFails
    PROVE  AllCounted'
<1>1. row' = row /\ begun' = begun /\ tally' = tally
    BY DEF Crash, Boot, Registered, SweepFails, history
<1>2. \A s \in Slots : run'[s] = Null \/ run'[s] = run[s]
    BY DEF Crash, Boot, Registered, SweepFails
<1>3. \A j \in Jobs : \A s \in Slots : Working(s, j)' => Working(s, j) /\ run'[s] = run[s]
    BY <1>2 DEF Working
<1>4. \A j \in Jobs : JobCounted(j)'
    BY <1>1, <1>3, FewerCalls
<1> QED
    BY <1>2, <1>4 DEF OInv, AllCounted, CallCounted

(* The sweep fails what has no outcome yet, and says why. *)
LEMMA SweepCounted ==
    ASSUME OInv, Sweep
    PROVE  AllCounted'
<1>1. run' = run /\ begun' = begun /\ tally' = tally
    BY DEF Sweep, history
<1>2. ASSUME NEW j \in Jobs PROVE JobCounted(j)'
    <2>1. CASE ~Unfinished(j)
        <3>1. row'[j] = row[j]
            BY <2>1 DEF Sweep
        <3> QED
            BY <1>1, <3>1, FewerCalls DEF Working
    <2>2. CASE Unfinished(j)
        <3>1. row'[j] = [row[j] EXCEPT !.status = "FAILED", !.error = "interrupted"]
            BY <2>2 DEF Sweep
        <3>2. row[j] \in Rows /\ row[j] # Null
            BY <2>2 DEF Unfinished, OInv, TInv, TypeOK
        <3>3. /\ row'[j].status = "FAILED" /\ row'[j].error = "interrupted"
              /\ row'[j].counts = row[j].counts
            BY <3>1, <3>2, Zenon DEF Rows
        <3>4. Truthful(j)'
            BY <3>3 DEF Truthful
        <3>5. \A s \in Slots : (Working(s, j)' <=> Working(s, j)) /\ run'[s] = run[s]
            BY <1>1 DEF Working
        <3>6. \A s \in Slots : WorkCounted(s, j) => WorkCounted(s, j)'
            BY <1>1, <3>3 DEF WorkCounted
        <3> QED
            BY <1>1, <3>2, <3>3, <3>4, <3>5, <3>6 DEF OInv, AllCounted, JobCounted
    <2> QED
        BY <2>1, <2>2
<1> QED
    BY <1>1, <1>2 DEF OInv, AllCounted, CallCounted

LEMMA OInvStep ==
    ASSUME Parallel = 1
    PROVE  OInv /\ [Next]_vars => OInv'
<1> SUFFICES ASSUME OInv, [Next]_vars PROVE AllCounted'
    BY TInvStep DEF OInv
<1>1. ASSUME NEW j \in Jobs, CreateRow(j) \/ Push(j) \/ PushFails(j) \/ Stall(j) PROVE AllCounted'
    BY <1>1, WaitingCounted
<1>2. ASSUME NEW s \in Slots, Step(s) \/ GivesUp(s) PROVE AllCounted'
    BY <1>2, TakeCounted, BeginCounted, WorkItemCounted, LandCounted, ReturnCounted,
       FinishCounted, NotifyCounted DEF Step
<1>3. CASE Crash \/ Boot \/ Registered \/ Sweep \/ SweepFails
    BY <1>3, ProcessCounted, SweepCounted
<1>4. CASE UNCHANGED vars
    <2>1. \A j \in Jobs : JobCounted(j)'
        BY <1>4, FewerCalls DEF vars, Working
    <2> QED
        BY <1>4, <2>1 DEF vars, OInv, AllCounted, CallCounted
<1> QED
    BY <1>1, <1>2, <1>3, <1>4 DEF Next

(* A batch that works on one item at a time gets the outcome its items had,   *)
(* with Redis or without, whatever restarts and lost locks happen, as long as *)
(* its handler ran once.                                                      *)
THEOREM OutcomesAreTruthful ==
    ASSUME Parallel = 1
    PROVE  Spec => []OutcomeTruthful
<1>1. OInv => OutcomeTruthful
    BY DEF OInv, AllCounted, JobCounted, Truthful, OutcomeTruthful
<1> QED
    BY <1>1, InitOInv, OInvStep, PTL DEF Spec

-----------------------------------------------------------------------------
(* The job occurs at most once in the queue. *)
Once(q, j) == \A a, b \in 1..Len(q) : q[a] = j /\ q[b] = j => a = b

LEMMA OnceAppend ==
    ASSUME NEW q \in Seq(Jobs), NEW j \in Jobs, NEW k, Once(q, k),
           k = j => k \notin {q[i] : i \in 1..Len(q)}
    PROVE  Once(Append(q, j), k)
<1>1. Len(Append(q, j)) = Len(q) + 1 /\ Append(q, j)[Len(q) + 1] = j /\ Len(q) \in Nat
    OBVIOUS
<1>2. \A i \in 1..Len(q) : Append(q, j)[i] = q[i]
    OBVIOUS
<1> DEFINE a == Append(q, j)
<1> HIDE DEF a
<1> QED
    BY <1>1, <1>2 DEF a, Once

LEMMA OnceTail ==
    ASSUME NEW q \in Seq(Jobs), q # <<>>, NEW k, Once(q, k)
    PROVE  /\ Once(Tail(q), k)
           /\ k = Head(q) => k \notin {Tail(q)[i] : i \in 1..Len(Tail(q))}
<1>1. Len(q) \in Nat \ {0} /\ Head(q) = q[1] /\ Len(Tail(q)) = Len(q) - 1
    OBVIOUS
<1>2. \A i \in 1..Len(Tail(q)) : Tail(q)[i] = q[i + 1] /\ i + 1 \in 2..Len(q)
    OBVIOUS
<1> DEFINE t == Tail(q)
<1> HIDE DEF t
<1> QED
    BY <1>1, <1>2 DEF t, Once

(* What the bell told, in both modes.  A job BullMQ never took back is in    *)
(* one place: being enqueued, queued once, run by one slot, or told.         *)
Alone(j) ==
    /\ j \in adding => j \notin Waiting
    /\ Once(queue, j)
    /\ j \in adding \cup Waiting => told[j] = Null
    /\ \A s \in Slots : run[s] # Null /\ run[s].job = j =>
          /\ j \notin adding \cup Waiting
          /\ told[j] = Null
          /\ \A t \in Slots : run[t] # Null /\ run[t].job = j => s = t
          /\ run[s].step = "notify" => row[j].status = run[s].outcome
    /\ told[j] # Null => row[j] # Null /\ row[j].status = told[j]

AInv == TInv /\ \A j \in Jobs : stalls[j] = 0 => Alone(j)

LEMMA InitAInv == Init => AInv
<1> SUFFICES ASSUME Init PROVE AInv
    OBVIOUS
<1>1. TInv
    BY InitType, SoundInit DEF TInv
<1>2. adding = {} /\ queue = <<>> /\ Waiting = {}
    BY DEF Init, Waiting
<1>3. \A s \in Slots : run[s] = Null
    BY DEF Init
<1>4. \A j \in Jobs : told[j] = Null
    BY DEF Init
<1> QED
    BY <1>1, <1>2, <1>3, <1>4 DEF AInv, Alone, Once

(* A step that leaves a job's row and what was told of it, and adds no place *)
(* for it, keeps it alone.                                                   *)
LEMMA StaysAlone ==
    ASSUME NEW j \in Jobs, Alone(j), Once(queue', j),
           j \in adding' => j \in adding,
           j \in Waiting' => j \in Waiting,
           \A s \in Slots : run'[s] # Null /\ run'[s].job = j => run'[s] = run[s],
           row'[j] = row[j], told'[j] = told[j]
    PROVE  Alone(j)'
BY DEF Alone

(* Stalls are never taken back. *)
LEMMA StallsGrow ==
    ASSUME AInv, [Next]_vars, NEW j \in Jobs, stalls'[j] = 0
    PROVE  Alone(j)
<1>1. stalls[j] = 0
    <2>1. ASSUME NEW k \in Jobs, Stall(k) PROVE stalls[j] = 0
        BY <2>1, SizesAssumption DEF Stall, AInv, TInv, TypeOK
    <2>2. CASE UNCHANGED vars
        BY <2>2 DEF vars
    <2> QED
        BY <2>1, <2>2 DEF Next, CreateRow, Push, Step, Take, Begin, WorkItem, Land, Return,
           Throw, Finish, Notify, GivesUp, PushFails, Crash, Boot, Registered, Sweep, SweepFails, bull
<1> QED
    BY <1>1 DEF AInv

LEMMA WaitingAlone ==
    ASSUME AInv, NEW j \in Jobs, CreateRow(j) \/ Push(j) \/ PushFails(j) \/ Stall(j),
           NEW k \in Jobs, Alone(k), stalls'[k] = 0
    PROVE  Alone(k)'
<1>0. queue \in Seq(Jobs) /\ row \in [Jobs -> Rows \cup {Null}] /\ Once(queue, k)
    BY DEF AInv, TInv, TypeOK, Alone
<1>1. run' = run /\ told' = told
    BY DEF CreateRow, Push, PushFails, Stall
<1>5. CASE PushFails(j)
    <2>1. queue' = queue /\ row' = row /\ Waiting' = Waiting /\ adding' \subseteq adding
        BY <1>5 DEF PushFails, Waiting
    <2> QED
        BY <1>0, <1>1, <2>1, StaysAlone
<1>2. CASE CreateRow(j)
    <2>1. queue' = queue /\ Waiting' = Waiting /\ adding' = adding \cup {j} /\ row[j] = Null
          /\ \A i \in Jobs \ {j} : row'[i] = row[i]
        BY <1>0, <1>2 DEF CreateRow, Waiting
    <2>2. CASE k # j
        BY <1>0, <1>1, <2>1, <2>2, StaysAlone
    <2>3. CASE k = j
        <3>1. k \notin Waiting /\ \A s \in Slots : run[s] # Null => run[s].job # k
            BY <2>1, <2>3 DEF AInv, TInv, Sound
        <3>2. told[k] = Null
            BY <2>1, <2>3 DEF Alone
        <3> QED
            BY <1>0, <1>1, <2>1, <3>1, <3>2 DEF Alone
    <2> QED
        BY <2>2, <2>3
<1>3. CASE Push(j) \/ (Stall(j) /\ queue' # queue)
    <2>1. queue' = Append(queue, j) /\ row' = row
        BY <1>3 DEF Push, Stall
    <2>2. Waiting' = Waiting \cup {j}
        BY <1>0, <2>1, QueueAppend DEF Waiting
    <2>3. CASE k # j
        <3>1. Once(queue', k)
            BY <1>0, <2>1, <2>3, OnceAppend
        <3>2. k \in adding' => k \in adding
            BY <1>3 DEF Push, Stall
        <3> QED
            BY <1>1, <2>1, <2>2, <2>3, <3>1, <3>2, StaysAlone
    <2>4. CASE k = j
        <3>1. Push(j)
            <4>1. CASE Stall(j) /\ queue' # queue
                <5>1. stalls' = [stalls EXCEPT ![j] = @ + 1]
                    BY <4>1 DEF Stall
                <5>2. stalls[j] \in Nat
                    BY SizesAssumption DEF AInv, TInv, TypeOK
                <5>3. stalls'[j] = stalls[j] + 1
                    BY <5>1 DEF AInv, TInv, TypeOK
                <5> QED
                    BY <2>4, <5>2, <5>3
            <4> QED
                BY <1>3, <4>1
        <3>2. j \in adding /\ adding' = adding \ {j}
            BY <3>1 DEF Push
        <3>3. k \notin Waiting /\ told[k] = Null
              /\ \A s \in Slots : run[s] # Null => run[s].job # k
            BY <2>4, <3>2 DEF Alone
        <3>4. Once(queue', k)
            BY <1>0, <2>1, <3>3, OnceAppend DEF Waiting
        <3> QED
            BY <1>1, <2>4, <3>2, <3>3, <3>4 DEF Alone
    <2> QED
        BY <2>3, <2>4
<1>4. CASE Stall(j) /\ queue' = queue
    <2>1. adding' = adding /\ row' = row /\ Waiting' = Waiting
        BY <1>4 DEF Stall, Waiting
    <2> QED
        BY <1>0, <1>1, <1>4, <2>1, StaysAlone
<1> QED
    BY <1>2, <1>3, <1>4, <1>5

LEMMA TakeAlone ==
    ASSUME AInv, NEW s \in Slots, Take(s), NEW k \in Jobs, Alone(k)
    PROVE  Alone(k)'
<1>0. queue \in Seq(Jobs) /\ queue # <<>> /\ queue' = Tail(queue) /\ Once(queue, k)
    BY DEF AInv, TInv, TypeOK, Alone, Take
<1>1. row' = row /\ adding' = adding /\ told' = told /\ run[s] = Null
    BY DEF Take
<1>2. PICK known \in BOOLEAN : run' = [run EXCEPT ![s] = NewRun(Head(queue), known)]
    BY DEF Take
<1>3. run'[s] = NewRun(Head(queue), known) /\ \A t \in Slots \ {s} : run'[t] = run[t]
    BY <1>2 DEF AInv, TInv, TypeOK
<1>4. run'[s].job = Head(queue) /\ run'[s].step # "notify"
    <2>1. \A j : NewRun(j, known).job = j /\ NewRun(j, known).step # "notify"
        BY DEF NewRun
    <2> QED
        BY <1>3, <2>1
<1>5. Waiting = Waiting' \cup {Head(queue)}
    BY <1>0, QueueTail DEF Waiting
<1>6. Once(queue', k) /\ (k = Head(queue) => k \notin Waiting')
    BY <1>0, OnceTail DEF Waiting
<1>7. CASE k # Head(queue)
    BY <1>1, <1>3, <1>4, <1>5, <1>6, <1>7, StaysAlone
<1>8. CASE k = Head(queue)
    <2>1. /\ k \notin adding /\ told[k] = Null
          /\ \A t \in Slots : run[t] # Null => run[t].job # k
        BY <1>5, <1>8 DEF Alone
    <2>2. \A t \in Slots : run'[t] # Null /\ run'[t].job = k => t = s
        BY <1>3, <2>1
    <2> QED
        BY <1>1, <1>4, <1>6, <1>8, <2>1, <2>2 DEF Alone
<1> QED
    BY <1>7, <1>8

(* A step of a busy slot that leaves what was told alone. *)
LEMMA BusyAlone ==
    ASSUME AInv, NEW s \in Slots,
           Begin(s) \/ (\E ok \in BOOLEAN : WorkItem(s, ok)) \/ Land(s) \/ Return(s)
             \/ Throw(s) \/ Finish(s),
           NEW k \in Jobs, Alone(k)
    PROVE  Alone(k)'
<1>1. /\ TInv' /\ run[s] # Null /\ run'[s] # Null /\ run'[s].job = run[s].job
      /\ \A t \in Slots \ {s} : run'[t] = run[t]
    BY BusyStepSound DEF AInv
<1>2. PICK j \in Jobs : run[s].job = j /\ row[j] \in Rows /\ run[s] \in Runs
    BY <1>1, Busy DEF AInv, TInv, Sound
<1>3. run \in [Slots -> Runs \cup {Null}] /\ row \in [Jobs -> Rows \cup {Null}]
    BY DEF AInv, TInv, TypeOK
<1>4. UNCHANGED <<adding, queue, told>>
    BY DEF Begin, WorkItem, Land, Return, Throw, Finish, bull, process, history
<1>5. Waiting' = Waiting /\ Once(queue', k)
    BY <1>4 DEF Waiting, Alone
<1>6. \A i \in Jobs \ {j} : row'[i] = row[i]
    BY <1>2, <1>3 DEF Begin, WorkItem, Land, Return, Throw, Finish
<1>7. CASE k # j
    BY <1>1, <1>2, <1>4, <1>5, <1>6, <1>7, StaysAlone
<1>8. CASE k = j
    <2>1. /\ k \notin adding \cup Waiting /\ told[k] = Null
          /\ \A t \in Slots : run[t] # Null /\ run[t].job = k => t = s
        BY <1>1, <1>2, <1>8 DEF Alone
    <2>2. \A t \in Slots : run'[t] # Null /\ run'[t].job = k => t = s
        BY <1>1, <2>1
    <2>3. run'[s].step = "notify" => row'[k].status = run'[s].outcome
        <3>1. CASE Finish(s)
            <4> DEFINE e == IF run[s].error = "none" THEN row[j].error ELSE run[s].error
            <4>1. row' = [row EXCEPT ![j] = [row[j] EXCEPT !.status = run[s].outcome, !.error = e]]
                BY <1>2, <3>1 DEF Finish
            <4> HIDE DEF e
            <4>2. row'[j].status = run[s].outcome
                BY <1>2, <1>3, <4>1, Zenon DEF Rows
            <4>3. run'[s] = [run[s] EXCEPT !.step = "notify"]
                BY <1>3, <3>1 DEF Finish
            <4>4. run'[s].outcome = run[s].outcome
                BY <1>2, <4>3, Zenon DEF Runs
            <4> QED
                BY <1>8, <4>2, <4>4
        <3>2. CASE Begin(s)
            BY <1>2, <1>3, <3>2 DEF Begin, Runs
        <3>3. ASSUME NEW ok \in BOOLEAN, WorkItem(s, ok)
              PROVE  run'[s].step = "work"
            BY <1>2, <1>3, <3>3 DEF WorkItem, At, Runs
        <3>4. CASE Land(s)
            BY <1>2, <1>3, <3>4 DEF Land, At, Runs
        <3>5. CASE Return(s)
            BY <1>2, <1>3, <3>5 DEF Return, Runs
        <3>6. CASE Throw(s)
            BY <1>2, <1>3, <3>6 DEF Throw, Runs
        <3> QED
            BY <3>1, <3>2, <3>3, <3>4, <3>5, <3>6
    <2> QED
        BY <1>4, <1>5, <2>1, <2>2, <2>3 DEF Alone
<1> QED
    BY <1>7, <1>8

(* The bell tells the outcome the row has, once. *)
LEMMA NotifyAlone ==
    ASSUME AInv, NEW s \in Slots, Notify(s) \/ GivesUp(s), NEW k \in Jobs, Alone(k)
    PROVE  Alone(k)'
<1>1. /\ run[s] # Null /\ run'[s] = Null
      /\ Notify(s) => run[s].step = "notify"
      /\ \A t \in Slots \ {s} : run'[t] = run[t]
    BY DEF Notify, GivesUp, At, AInv, TInv, TypeOK
<1>2. UNCHANGED <<row, adding, queue>>
    BY DEF Notify, GivesUp
<1>3. Waiting' = Waiting /\ Once(queue', k)
    BY <1>2 DEF Waiting, Alone
<1>4. told' = told \/ (told' = [told EXCEPT ![run[s].job] = run[s].outcome] /\ Notify(s))
    BY DEF Notify, GivesUp
<1>5. CASE told'[k] = told[k]
    BY <1>1, <1>2, <1>3, <1>5, StaysAlone
<1>6. CASE told'[k] # told[k]
    <2>1. run[s].job = k /\ told'[k] = run[s].outcome
        BY <1>4, <1>6 DEF AInv, TInv, TypeOK
    <2>5. Notify(s)
        BY <1>4, <1>6
    <2>2. /\ k \notin adding \cup Waiting /\ row[k].status = run[s].outcome
          /\ \A t \in Slots : run[t] # Null /\ run[t].job = k => t = s
        BY <1>1, <2>1, <2>5 DEF Alone
    <2>3. row[k] # Null
        BY <1>1, <2>1 DEF AInv, TInv, Sound
    <2>4. \A t \in Slots : run'[t] # Null => run'[t].job # k
        BY <1>1, <2>2
    <2> QED
        BY <1>2, <1>3, <2>1, <2>2, <2>3, <2>4 DEF Alone
<1> QED
    BY <1>5, <1>6

(* A restart takes places away; the sweep fails only what nobody was told of. *)
LEMMA ProcessAlone ==
    ASSUME AInv, Crash \/ Boot \/ Registered \/ Sweep \/ SweepFails, NEW k \in Jobs, Alone(k)
    PROVE  Alone(k)'
<1>1. /\ queue' = queue \/ queue' = <<>>
      /\ adding' = adding \/ adding' = {}
      /\ \A s \in Slots : run'[s] = run[s] \/ run'[s] = Null
      /\ told' = told
    BY DEF Crash, Boot, Registered, Sweep, SweepFails
<1>2. Once(queue', k) /\ (k \in Waiting' => k \in Waiting) /\ (k \in adding' => k \in adding)
    BY <1>1 DEF Waiting, Alone, Once
<1>3. CASE row'[k] = row[k]
    BY <1>1, <1>2, <1>3, StaysAlone
<1>4. CASE row'[k] # row[k]
    <2>1. Sweep /\ Unfinished(k)
        BY <1>4 DEF Crash, Boot, Registered, Sweep, SweepFails
    <2>2. row[k].status \notin Outcomes
        BY <2>1 DEF Unfinished, Outcomes
    <2>3. told[k] = Null
        BY <2>2 DEF AInv, TInv, TypeOK, Alone
    <2>4. \A s \in Slots : run[s] # Null /\ run[s].job = k => run[s].step # "notify"
        BY <2>2 DEF AInv, TInv, Sound, Alone
    <2> QED
        BY <1>1, <1>2, <2>3, <2>4 DEF Alone
<1> QED
    BY <1>3, <1>4

LEMMA AInvStep == AInv /\ [Next]_vars => AInv'
<1> SUFFICES ASSUME AInv, [Next]_vars, NEW k \in Jobs, stalls'[k] = 0
             PROVE  Alone(k)'
    BY TInvStep DEF AInv
<1>0. Alone(k)
    BY StallsGrow
<1>1. ASSUME NEW j \in Jobs, CreateRow(j) \/ Push(j) \/ PushFails(j) \/ Stall(j) PROVE Alone(k)'
    BY <1>0, <1>1, WaitingAlone
<1>2. ASSUME NEW s \in Slots, Step(s) \/ GivesUp(s) PROVE Alone(k)'
    BY <1>0, <1>2, TakeAlone, BusyAlone, NotifyAlone DEF Step
<1>3. CASE Crash \/ Boot \/ Registered \/ Sweep \/ SweepFails
    BY <1>0, <1>3, ProcessAlone
<1>4. CASE UNCHANGED vars
    BY <1>0, <1>4 DEF vars, Alone, Once, Waiting
<1> QED
    BY <1>1, <1>2, <1>3, <1>4 DEF Next

(* What the bell last told the user is what the row says, with Redis or       *)
(* without, whatever restarts happen, unless BullMQ took the job back.        *)
THEOREM ToldIsTheRow == Spec => []ToldMatchesRow
<1>1. AInv => ToldMatchesRow
    BY DEF AInv, Alone, ToldMatchesRow
<1> QED
    BY <1>1, InitAInv, AInvStep, PTL DEF Spec

-----------------------------------------------------------------------------
(* How often a batch starts, in both modes.  Each lost lock buys one start:  *)
(* the starts a job had, the slots about to start it and its place in the    *)
(* queue never exceed one more than the times it was taken back.             *)
Starting(j) == {s \in Slots : run[s] # Null /\ run[s].job = j /\ run[s].step = "begin"}

Places(j) == IF j \in adding \cup Waiting THEN 1 ELSE 0

Bought(j) ==
    /\ j \in adding => j \notin Waiting
    /\ Once(queue, j)
    /\ claim[j] # Null => j \notin adding \cup Waiting
    /\ row[j] = Null => begun[j] = 0
    /\ begun[j] + Cardinality(Starting(j)) + Places(j) <= 1 + stalls[j]

BInv == TInv /\ \A j \in Jobs : Bought(j)

LEMMA StartingFinite ==
    ASSUME IsFiniteSet(Slots), NEW j
    PROVE  /\ IsFiniteSet(Starting(j)) /\ Cardinality(Starting(j)) \in Nat
           /\ IsFiniteSet(Starting(j)') /\ Cardinality(Starting(j)') \in Nat
<1>1. Starting(j) \subseteq Slots /\ Starting(j)' \subseteq Slots
    BY DEF Starting
<1>2. IsFiniteSet(Starting(j)) /\ IsFiniteSet(Starting(j)')
    BY <1>1, FS_Subset
<1> QED
    BY <1>2, FS_CardinalityType

(* A step that gives a job no place, no start and no slot about to start it. *)
LEMMA StaysBought ==
    ASSUME IsFiniteSet(Slots), TypeOK, TypeOK', NEW j \in Jobs, Bought(j), Once(queue', j),
           j \in adding' => j \in adding,
           j \in Waiting' => j \in Waiting,
           claim'[j] # Null => claim[j] # Null,
           row'[j] = Null => row[j] = Null,
           Starting(j)' \subseteq Starting(j),
           begun'[j] = begun[j], stalls'[j] = stalls[j]
    PROVE  Bought(j)'
<1>1. Cardinality(Starting(j)') <= Cardinality(Starting(j))
    BY StartingFinite, FS_Subset
<1>2. /\ begun[j] \in Nat /\ stalls[j] \in Nat
      /\ Cardinality(Starting(j)) \in Nat /\ Cardinality(Starting(j)') \in Nat
    BY StartingFinite, SizesAssumption DEF TypeOK
<1>3. Places(j) \in {0, 1} /\ Places(j)' \in {0, 1} /\ Places(j)' <= Places(j)
    BY DEF Places
<1>4. begun'[j] + Cardinality(Starting(j)') + Places(j)' <= 1 + stalls'[j]
    BY <1>1, <1>2, <1>3 DEF Bought
<1> QED
    BY <1>4 DEF Bought

LEMMA InitBInv ==
    ASSUME IsFiniteSet(Slots)
    PROVE  Init => BInv
<1> SUFFICES ASSUME Init PROVE BInv
    OBVIOUS
<1>1. TInv
    BY InitType, SoundInit DEF TInv
<1>2. ASSUME NEW j \in Jobs PROVE Bought(j)
    <2>1. Starting(j) = {} /\ Places(j) = 0 /\ begun[j] = 0 /\ stalls[j] = 0 /\ claim[j] = Null
        BY DEF Init, Starting, Places, Waiting
    <2>2. Cardinality(Starting(j)) = 0
        BY <2>1, FS_EmptySet
    <2>3. adding = {} /\ Once(queue, j)
        BY DEF Init, Once
    <2> QED
        BY <2>1, <2>2, <2>3 DEF Bought
<1> QED
    BY <1>1, <1>2 DEF BInv

(* A new row takes the one place a job may have before it is started. *)
LEMMA CreateRowBought ==
    ASSUME BInv, IsFiniteSet(Slots), NEW j \in Jobs, CreateRow(j), TypeOK', NEW k \in Jobs
    PROVE  Bought(k)'
<1>0. Bought(k) /\ Once(queue, k) /\ row \in [Jobs -> Rows \cup {Null}] /\ TypeOK
    BY DEF BInv, Bought, TInv, TypeOK
<1>1. /\ UNCHANGED <<queue, run, claim, stalls, begun>>
      /\ adding' = adding \cup {j} /\ row[j] = Null /\ row'[j] # Null
      /\ \A i \in Jobs \ {j} : row'[i] = row[i]
    <2>1. [status |-> "QUEUED", error |-> "none", counts |-> None] \in Rows
        BY NoneType DEF Rows, Statuses, Errors
    <2> QED
        BY <1>0, <2>1, NullAssumption DEF CreateRow, bull, history
<1>2. Waiting' = Waiting /\ Starting(k)' = Starting(k)
    BY <1>1 DEF Waiting, Starting
<1>3. CASE k # j
    BY <1>0, <1>1, <1>2, <1>3, StaysBought
<1>4. CASE k = j
    <2>1. /\ k \notin Waiting /\ claim[k] = Null /\ begun[k] = 0 /\ Starting(k) = {}
        BY <1>0, <1>1, <1>4 DEF BInv, TInv, Sound, Bought, Starting
    <2>2. Cardinality(Starting(k)') = 0
        BY <1>2, <2>1, FS_EmptySet
    <2>3. Places(k)' = 1
        BY <1>1, <1>4 DEF Places
    <2>4. stalls[k] \in Nat
        BY <1>0, SizesAssumption DEF TypeOK
    <2>5. begun'[k] + Cardinality(Starting(k)') + Places(k)' <= 1 + stalls'[k]
        BY <1>1, <2>1, <2>2, <2>3, <2>4
    <2> QED
        BY <1>0, <1>1, <1>2, <1>4, <2>1, <2>5 DEF Bought
<1> QED
    BY <1>3, <1>4

(* A job joins the queue from enqueue(), its place already counted, or when   *)
(* its lock lapses, which counts as a stall.                                  *)
LEMMA QueuedBought ==
    ASSUME BInv, IsFiniteSet(Slots), NEW j \in Jobs, Push(j) \/ Stall(j), TypeOK', NEW k \in Jobs
    PROVE  Bought(k)'
<1>0. /\ Bought(k) /\ Once(queue, k) /\ TypeOK /\ queue \in Seq(Jobs)
      /\ claim \in [Jobs -> Slots \cup {Null}] /\ stalls \in [Jobs -> 0..MaxStalls]
    BY DEF BInv, Bought, TInv, TypeOK
<1>1. UNCHANGED <<row, run, begun>> /\ Starting(k)' = Starting(k)
    BY DEF Push, Stall, history, Starting
<1>2. CASE Push(j) \/ (Stall(j) /\ stalls[j] < MaxStalls)
    <2>1. queue' = Append(queue, j)
        BY <1>2 DEF Push, Stall
    <2>2. Waiting' = Waiting \cup {j}
        BY <1>0, <2>1, QueueAppend DEF Waiting
    <2>3. CASE k # j
        <3>1. Once(queue', k)
            BY <1>0, <2>1, <2>3, OnceAppend
        <3>2. /\ k \in adding' => k \in adding
              /\ claim'[k] = claim[k] /\ stalls'[k] = stalls[k]
            BY <1>0, <1>2, <2>3 DEF Push, Stall, bull
        <3> QED
            BY <1>0, <1>1, <2>2, <2>3, <3>1, <3>2, StaysBought
    <2>4. CASE k = j
        <3>1. k \notin Waiting
            BY <1>0, <1>2, <2>4 DEF Push, Stall, Bought
        <3>2. Once(queue', k)
            BY <1>0, <2>1, <3>1, OnceAppend DEF Waiting
        <3>3. /\ k \notin adding' /\ claim'[k] = Null
              /\ stalls'[k] = stalls[k] + (1 - Places(k))
            <4>1. CASE Push(j)
                <5>1. Places(k) = 1 /\ k \notin adding' /\ UNCHANGED <<claim, stalls>>
                    BY <2>4, <4>1 DEF Push, Places, bull
                <5>2. claim[k] = Null
                    BY <1>0, <2>4, <4>1 DEF Push, Bought
                <5> QED
                    BY <1>0, <5>1, <5>2, SizesAssumption
            <4>2. CASE Stall(j) /\ stalls[j] < MaxStalls
                <5>1. Places(k) = 0 /\ k \notin adding /\ adding' = adding
                    BY <1>0, <2>4, <4>2 DEF Stall, Places, Bought
                <5>2. claim'[k] = Null /\ stalls'[k] = stalls[k] + 1
                    BY <1>0, <2>4, <4>2 DEF Stall
                <5> QED
                    BY <5>1, <5>2
            <4> QED
                BY <1>2, <4>1, <4>2
        <3>4. Places(k)' = 1
            BY <2>2, <2>4 DEF Places
        <3>5. /\ begun[k] \in Nat /\ stalls[k] \in Nat /\ Places(k) \in {0, 1}
              /\ Cardinality(Starting(k)) \in Nat
            BY <1>0, StartingFinite, SizesAssumption DEF TypeOK, Places
        <3>6. begun[k] + Cardinality(Starting(k)) + Places(k) <= 1 + stalls[k]
            BY <1>0 DEF Bought
        <3>7. begun'[k] + Cardinality(Starting(k)') + Places(k)' <= 1 + stalls'[k]
            BY <1>1, <3>3, <3>4, <3>5, <3>6
        <3> QED
            BY <1>0, <1>1, <3>2, <3>3, <3>7 DEF Bought
    <2> QED
        BY <2>3, <2>4
<1>3. CASE Stall(j) /\ ~(stalls[j] < MaxStalls)
    <2>1. UNCHANGED <<queue, stalls, adding>> /\ claim' = [claim EXCEPT ![j] = Null]
        BY <1>3 DEF Stall
    <2>2. Waiting' = Waiting /\ (claim'[k] # Null => claim[k] # Null)
        BY <1>0, <2>1 DEF Waiting
    <2> QED
        BY <1>0, <1>1, <2>1, <2>2, StaysBought
<1> QED
    BY <1>2, <1>3

(* A slot that takes a job turns its place in the queue into a start to come. *)
LEMMA TakeBought ==
    ASSUME BInv, IsFiniteSet(Slots), NEW s \in Slots, Take(s), TypeOK', NEW k \in Jobs
    PROVE  Bought(k)'
<1>0. /\ Bought(k) /\ Once(queue, k) /\ TypeOK /\ queue \in Seq(Jobs) /\ queue # <<>>
      /\ queue' = Tail(queue) /\ claim \in [Jobs -> Slots \cup {Null}]
    BY DEF BInv, Bought, TInv, TypeOK, Take
<1>1. UNCHANGED <<row, adding, stalls, begun>> /\ run[s] = Null
    BY DEF Take, history
<1>2. PICK known \in BOOLEAN : run' = [run EXCEPT ![s] = NewRun(Head(queue), known)]
    BY DEF Take
<1>3. run'[s] = NewRun(Head(queue), known) /\ \A t \in Slots \ {s} : run'[t] = run[t]
    BY <1>0, <1>2 DEF TypeOK
<1>4. run'[s].job = Head(queue)
    <2>1. \A j : NewRun(j, known).job = j
        BY DEF NewRun
    <2> QED
        BY <1>3, <2>1
<1>5. Waiting = Waiting' \cup {Head(queue)}
    BY <1>0, QueueTail DEF Waiting
<1>6. Once(queue', k) /\ (k = Head(queue) => k \notin Waiting')
    BY <1>0, OnceTail DEF Waiting
<1>7. Head(queue) \in Jobs
    BY <1>0
<1>8. CASE k # Head(queue)
    <2>1. claim'[k] = claim[k]
        BY <1>0, <1>7, <1>8 DEF Take
    <2>2. Starting(k)' \subseteq Starting(k)
        BY <1>3, <1>4, <1>8 DEF Starting
    <2> QED
        BY <1>0, <1>1, <1>5, <1>6, <1>8, <2>1, <2>2, StaysBought
<1>9. CASE k = Head(queue)
    <2>1. k \in Waiting /\ k \notin adding
        BY <1>0, <1>5, <1>9 DEF Bought
    <2>2. Places(k) = 1 /\ Places(k)' = 0
        BY <1>1, <1>6, <1>9, <2>1 DEF Places
    <2>3. Starting(k)' \subseteq Starting(k) \cup {s}
        BY <1>3 DEF Starting
    <2>4. /\ IsFiniteSet(Starting(k) \cup {s})
          /\ Cardinality(Starting(k) \cup {s}) <= Cardinality(Starting(k)) + 1
        <3>1. IsFiniteSet(Starting(k)) /\ Cardinality(Starting(k)) \in Nat
            BY StartingFinite
        <3>2. /\ IsFiniteSet(Starting(k) \cup {s})
              /\ Cardinality(Starting(k) \cup {s}) =
                    IF s \in Starting(k) THEN Cardinality(Starting(k))
                                         ELSE Cardinality(Starting(k)) + 1
            BY <3>1, FS_AddElement
        <3> QED
            BY <3>1, <3>2
    <2>5. Cardinality(Starting(k)') <= Cardinality(Starting(k) \cup {s})
        BY <2>3, <2>4, FS_Subset
    <2>6. /\ begun[k] \in Nat /\ stalls[k] \in Nat
          /\ Cardinality(Starting(k)) \in Nat /\ Cardinality(Starting(k)') \in Nat
          /\ Cardinality(Starting(k) \cup {s}) \in Nat
        BY <1>0, <2>4, StartingFinite, FS_CardinalityType, SizesAssumption DEF TypeOK
    <2>7. begun[k] + Cardinality(Starting(k)) + Places(k) <= 1 + stalls[k]
        BY <1>0 DEF Bought
    <2>8. begun'[k] + Cardinality(Starting(k)') + Places(k)' <= 1 + stalls'[k]
        BY <1>1, <2>2, <2>4, <2>5, <2>6, <2>7
    <2> QED
        BY <1>0, <1>1, <1>6, <1>9, <2>1, <2>8 DEF Bought
<1> QED
    BY <1>8, <1>9

(* A handler that starts uses up a start. *)
LEMMA BeginBought ==
    ASSUME BInv, IsFiniteSet(Slots), NEW s \in Slots, Begin(s), TypeOK', NEW k \in Jobs
    PROVE  Bought(k)'
<1>0. /\ Bought(k) /\ Once(queue, k) /\ TypeOK
      /\ run \in [Slots -> Runs \cup {Null}] /\ row \in [Jobs -> Rows \cup {Null}]
    BY DEF BInv, Bought, TInv, TypeOK
<1>1. UNCHANGED <<queue, adding, claim, stalls>> /\ run[s] # Null /\ run[s].step = "begin"
    BY DEF Begin, At, bull
<1>2. Waiting' = Waiting
    BY <1>1 DEF Waiting
<1>3. PICK j \in Jobs : run[s].job = j /\ row[j] # Null /\ row[j] \in Rows /\ run[s] \in Runs
    BY <1>1, Busy DEF BInv, TInv, Sound
<1>4. /\ run'[s] = [run[s] EXCEPT !.step = "work"] /\ \A t \in Slots \ {s} : run'[t] = run[t]
    BY <1>0 DEF Begin
<1>5. run'[s].step = "work"
    BY <1>3, <1>4, Zenon DEF Runs
<1>6. row'[k] = Null => row[k] = Null
    BY BeginType, <1>3 DEF BInv, TInv, RowsStay
<1>7. CASE k # j
    <2>1. Starting(k)' \subseteq Starting(k) /\ begun'[k] = begun[k]
        BY <1>0, <1>3, <1>4, <1>5, <1>7 DEF Starting, Begin, TypeOK
    <2> QED
        BY <1>0, <1>1, <1>2, <1>6, <2>1, StaysBought
<1>8. CASE k = j
    <2>1. s \in Starting(k) /\ Starting(k)' \subseteq Starting(k) \ {s}
        BY <1>1, <1>3, <1>4, <1>5, <1>8 DEF Starting
    <2>2. /\ IsFiniteSet(Starting(k) \ {s})
          /\ Cardinality(Starting(k) \ {s}) = Cardinality(Starting(k)) - 1
        BY <2>1, StartingFinite, FS_RemoveElement
    <2>3. Cardinality(Starting(k)') <= Cardinality(Starting(k) \ {s})
        BY <2>1, <2>2, FS_Subset
    <2>4. begun'[k] = begun[k] + 1
        BY <1>0, <1>3, <1>8 DEF Begin, TypeOK
    <2>5. /\ begun[k] \in Nat /\ stalls[k] \in Nat /\ Places(k) \in {0, 1}
          /\ Cardinality(Starting(k)) \in Nat /\ Cardinality(Starting(k)') \in Nat
          /\ Places(k)' = Places(k)
        BY <1>0, <1>1, <1>2, StartingFinite, SizesAssumption DEF TypeOK, Places
    <2>6. begun[k] + Cardinality(Starting(k)) + Places(k) <= 1 + stalls[k]
        BY <1>0 DEF Bought
    <2>7. begun'[k] + Cardinality(Starting(k)') + Places(k)' <= 1 + stalls'[k]
        BY <1>1, <2>2, <2>3, <2>4, <2>5, <2>6
    <2>8. row'[k] # Null
        BY <1>3, <1>6, <1>8
    <2> QED
        BY <1>0, <1>1, <1>2, <2>7, <2>8 DEF Bought
<1> QED
    BY <1>7, <1>8

(* Nothing else gives a job a place or a start. *)
LEMMA OthersBought ==
    ASSUME BInv, IsFiniteSet(Slots), TypeOK', NEW k \in Jobs,
           \/ \E s \in Slots : \/ (\E ok \in BOOLEAN : WorkItem(s, ok)) \/ Land(s) \/ Return(s)
                               \/ Throw(s) \/ Finish(s) \/ Notify(s) \/ GivesUp(s)
           \/ \E j \in Jobs : PushFails(j)
           \/ Crash \/ Boot \/ Registered \/ Sweep \/ SweepFails \/ UNCHANGED vars
    PROVE  Bought(k)'
<1>0. /\ Bought(k) /\ Once(queue, k) /\ TypeOK
      /\ run \in [Slots -> Runs \cup {Null}] /\ row \in [Jobs -> Rows \cup {Null}]
      /\ claim \in [Jobs -> Slots \cup {Null}]
    BY DEF BInv, Bought, TInv, TypeOK
<1>1. /\ queue' = queue \/ queue' = <<>>
      /\ adding' \subseteq adding
      /\ UNCHANGED <<stalls, begun>>
    BY DEF WorkItem, Land, Return, Throw, Finish, Notify, GivesUp, PushFails, Crash, Boot, Registered, Sweep,
           SweepFails, vars,
           bull, history
<1>2. Once(queue', k) /\ (k \in Waiting' => k \in Waiting) /\ (k \in adding' => k \in adding)
    BY <1>0, <1>1 DEF Waiting, Once
<1>3. claim'[k] # Null => claim[k] # Null
    BY <1>0 DEF WorkItem, Land, Return, Throw, Finish, Notify, GivesUp, PushFails, Crash, Boot, Registered, Sweep,
           SweepFails, vars, bull
<1>4. (row'[k] = Null => row[k] = Null) /\ Starting(k)' \subseteq Starting(k)
    <2>1. ASSUME NEW s \in Slots,
                 \/ (\E ok \in BOOLEAN : WorkItem(s, ok)) \/ Land(s) \/ Return(s)
                 \/ Throw(s) \/ Finish(s) \/ Notify(s) \/ GivesUp(s)
          PROVE  (row'[k] = Null => row[k] = Null) /\ Starting(k)' \subseteq Starting(k)
        <3>1. /\ run[s] # Null /\ (run[s].step # "begin" \/ run'[s] = Null) /\ \A t \in Slots \ {s} : run'[t] = run[t]
            BY <1>0, <2>1 DEF WorkItem, Land, Return, Throw, Finish, Notify, GivesUp, At
        <3>2. run[s] \in Runs /\ row[run[s].job] # Null
            BY <1>0, <3>1 DEF BInv, TInv, Sound
        <3>3. run'[s] = Null \/ run'[s].step # "begin"
            <4>1. ASSUME NEW ok \in BOOLEAN, WorkItem(s, ok) PROVE run'[s].step # "begin"
                BY <1>0, <3>1, <3>2, <4>1 DEF WorkItem, At, Runs
            <4>2. CASE Land(s)
                BY <1>0, <3>1, <3>2, <4>2 DEF Land, Runs
            <4>3. CASE Return(s)
                BY <1>0, <3>2, <4>3 DEF Return, Runs
            <4>4. CASE Throw(s)
                BY <1>0, <3>2, <4>4 DEF Throw, Runs
            <4>5. CASE Finish(s)
                BY <1>0, <3>2, <4>5 DEF Finish, Runs
            <4>6. CASE Notify(s) \/ GivesUp(s)
                BY <1>0, <4>6 DEF Notify, GivesUp
            <4> QED
                BY <2>1, <4>1, <4>2, <4>3, <4>4, <4>5, <4>6
        <3>4. Starting(k)' \subseteq Starting(k)
            BY <3>1, <3>3 DEF Starting
        <3>5. row'[k] = Null => row[k] = Null
            <4>1. CASE row' = row
                BY <4>1
            <4>2. CASE Land(s) \/ Finish(s)
                <5>1. Finish(s) => run[s].outcome \in Outcomes
                    BY <3>1 DEF Finish, At, BInv, TInv, Sound
                <5> QED
                    BY <1>0, <3>2, <4>2, <5>1, LandType, FinishType DEF RowsStay
            <4> QED
                BY <2>1, <4>1, <4>2 DEF WorkItem, Return, Throw, Notify, GivesUp
        <3> QED
            BY <3>4, <3>5
    <2>2. CASE \/ \E j \in Jobs : PushFails(j)
               \/ Crash \/ Boot \/ Registered \/ SweepFails \/ UNCHANGED vars
        BY <1>0, <2>2 DEF PushFails, Crash, Boot, Registered, SweepFails, vars, Starting
    <2>3. CASE Sweep
        <3>1. row'[k] = Null => row[k] = Null
            BY <2>3, SweepType DEF BInv, TInv, RowsStay
        <3> QED
            BY <2>3, <3>1 DEF Sweep, Starting
    <2> QED
        BY <2>1, <2>2, <2>3
<1> QED
    BY <1>0, <1>1, <1>2, <1>3, <1>4, StaysBought

LEMMA BInvStep ==
    ASSUME IsFiniteSet(Slots)
    PROVE  BInv /\ [Next]_vars => BInv'
<1> SUFFICES ASSUME BInv, [Next]_vars PROVE BInv'
    OBVIOUS
<1>0. TInv' /\ TypeOK'
    BY TInvStep DEF BInv, TInv
<1> SUFFICES ASSUME NEW k \in Jobs PROVE Bought(k)'
    BY <1>0 DEF BInv
<1>1. ASSUME NEW j \in Jobs, CreateRow(j) \/ Push(j) \/ PushFails(j) \/ Stall(j)
      PROVE  Bought(k)'
    BY <1>0, <1>1, CreateRowBought, QueuedBought, OthersBought
<1>2. ASSUME NEW s \in Slots, Step(s) \/ GivesUp(s) PROVE Bought(k)'
    BY <1>0, <1>2, TakeBought, BeginBought, OthersBought DEF Step
<1>3. CASE Crash \/ Boot \/ Registered \/ Sweep \/ SweepFails \/ UNCHANGED vars
    BY <1>0, <1>3, OthersBought
<1> QED
    BY <1>1, <1>2, <1>3 DEF Next

(* With Redis or without, only a lost BullMQ lock makes a batch start again:  *)
(* a job starts at most once more than it was taken back from its worker.     *)
THEOREM StartsAreBounded ==
    ASSUME IsFiniteSet(Slots)
    PROVE  Spec => []RunsBounded
<1>1. BInv => RunsBounded
    <2> SUFFICES ASSUME BInv, NEW j \in Jobs PROVE begun[j] <= 1 + stalls[j]
        BY DEF RunsBounded
    <2>1. begun[j] \in Nat /\ stalls[j] \in Nat
        BY SizesAssumption DEF BInv, TInv, TypeOK
    <2>2. Cardinality(Starting(j)) \in Nat /\ Places(j) \in {0, 1}
        BY StartingFinite DEF Places
    <2>3. begun[j] + Cardinality(Starting(j)) + Places(j) <= 1 + stalls[j]
        BY DEF BInv, Bought
    <2> QED
        BY <2>1, <2>2, <2>3
<1> QED
    BY <1>1, InitBInv, BInvStep, PTL DEF Spec
=============================================================================
