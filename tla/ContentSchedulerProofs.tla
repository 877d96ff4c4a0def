------------------------ MODULE ContentSchedulerProofs ------------------------
(***************************************************************************)
(* Proofs about ContentScheduler, for any instances, entries, calls,       *)
(* failures and crashes: types; that a schedule fires once, for instances  *)
(* behind a lease that outlives their passes and for one instance alone;   *)
(* and, while users leave entries alone, that only due entries             *)
(* are published, with their version.                                      *)
(***************************************************************************)
EXTENDS ContentScheduler, TLAPS

Active(p) == pass[p] # Null

(* A pass has entries to publish only after it read them. *)
Fresh ==
    \A p \in Passes : Active(p) /\ pass[p].stage # "work"
        => \A e \in Entries : pass[p].item[e] = "none"

(* No two passes are past the lease. *)
Single == \A p, q \in Passes : Working(p) /\ Working(q) => p = q

Opened(e) == row[e].status = "SCHEDULED" \/ \E p \in Passes : At(p, e, "row")
InFlight(e) == \E p \in Passes : At(p, e, "version") \/ At(p, e, "webhook")

(* Every webhook fired has a booking of its own, and so does every           *)
(* publication under way and every one still to come.                        *)
Claims ==
    \A e \in Entries :
        /\ fired[e] <= booked[e]
        /\ Opened(e) => fired[e] + 1 <= booked[e]
        /\ InFlight(e) => fired[e] + 1 <= booked[e]
        /\ Opened(e) /\ InFlight(e) => fired[e] + 2 <= booked[e]

(* What a pass has read is still so when it writes. *)
Current ==
    \A p \in Passes, e \in Entries :
        At(p, e, "row") => Due(e) /\ pass[p].body[e] = row[e].body

-----------------------------------------------------------------------------
(* The records a step writes are rows, and passes, again. *)
LEMMA RowUpdates ==
    ASSUME NEW r \in Rows
    PROVE  /\ \A at \in {"none", "future", "past"} :
                 /\ [r EXCEPT !.status = "SCHEDULED", !.at = at] \in Rows
                 /\ [r EXCEPT !.status = "PUBLISHED", !.at = at] \in Rows
                 /\ [r EXCEPT !.at = at] \in Rows
           /\ [r EXCEPT !.status = "DRAFT"] \in Rows
           /\ \A b \in 0..MaxCalls : [r EXCEPT !.body = b] \in Rows
<1> DEFINE B == 0..MaxCalls
<1> HIDE DEF B
<1>1. Rows = [status : {"DRAFT", "SCHEDULED", "PUBLISHED"},
              at : {"none", "future", "past"}, body : B]
    BY DEF Rows, B
<1>2. \A at \in {"none", "future", "past"} :
          [r EXCEPT !.status = "SCHEDULED", !.at = at] \in Rows
    BY <1>1, Zenon
<1>3. \A at \in {"none", "future", "past"} :
          [r EXCEPT !.status = "PUBLISHED", !.at = at] \in Rows
    BY <1>1, Zenon
<1>4. \A at \in {"none", "future", "past"} : [r EXCEPT !.at = at] \in Rows
    BY <1>1, Zenon
<1>5. [r EXCEPT !.status = "DRAFT"] \in Rows
    BY <1>1, Zenon
<1>6. \A b \in B : [r EXCEPT !.body = b] \in Rows
    BY <1>1, Zenon
<1> QED
    BY <1>2, <1>3, <1>4, <1>5, <1>6 DEF B

LEMMA PassUpdates ==
    ASSUME NEW q \in PassRecords
    PROVE  /\ [q EXCEPT !.stage = "read"] \in PassRecords
           /\ \A items \in [Entries -> Items], bodies \in [Entries -> 0..MaxCalls] :
                 [q EXCEPT !.stage = "work", !.item = items, !.body = bodies] \in PassRecords
           /\ \A items \in [Entries -> Items] : [q EXCEPT !.item = items] \in PassRecords
           /\ \A items \in [Entries -> Items] :
                 [q EXCEPT !.item = items, !.threw = TRUE] \in PassRecords
<1>1. [q EXCEPT !.stage = "read"] \in PassRecords
    BY Zenon DEF PassRecords
<1>2. \A items \in [Entries -> Items], bodies \in [Entries -> 0..MaxCalls] :
          [q EXCEPT !.stage = "work", !.item = items, !.body = bodies] \in PassRecords
    BY Zenon DEF PassRecords
<1>3. \A items \in [Entries -> Items] : [q EXCEPT !.item = items] \in PassRecords
    BY Zenon DEF PassRecords
<1>4. \A items \in [Entries -> Items] :
          [q EXCEPT !.item = items, !.threw = TRUE] \in PassRecords
    BY Zenon DEF PassRecords
<1> QED
    BY <1>1, <1>2, <1>3, <1>4

(* How one entry of a pass moves on: its record, with one item changed. *)
Moves(p, e, to) == pass' = [pass EXCEPT ![p].item[e] = to]

LEMMA ItemMoves ==
    ASSUME TypeOK, NEW p \in Passes, NEW e \in Entries, NEW to \in Items, pass[p] # Null,
           Moves(p, e, to)
    PROVE  /\ pass' \in [Passes -> PassRecords \cup {Null}]
           /\ pass'[p] \in PassRecords /\ pass'[p] # Null
           /\ pass'[p].by = pass[p].by /\ pass'[p].stage = pass[p].stage
           /\ pass'[p].threw = pass[p].threw /\ pass'[p].body = pass[p].body
           /\ pass'[p].item[e] = to
           /\ \A f \in Entries : f # e => pass'[p].item[f] = pass[p].item[f]
           /\ \A q \in Passes : q # p => pass'[q] = pass[q]
<1> DEFINE items == [pass[p].item EXCEPT ![e] = to]
           r == [pass[p] EXCEPT !.item = items]
<1>1. pass[p] \in PassRecords
    BY DEF TypeOK
<1>2. pass[p].item \in [Entries -> Items]
    BY <1>1, Zenon DEF PassRecords
<1>3. /\ items \in [Entries -> Items]
      /\ items[e] = to /\ \A f \in Entries : f # e => items[f] = pass[p].item[f]
    BY <1>2
<1>4. pass' = [pass EXCEPT ![p] = r]
    BY DEF TypeOK, Moves
<1> HIDE DEF items
<1>5. /\ r \in PassRecords
      /\ r.by = pass[p].by /\ r.stage = pass[p].stage
      /\ r.threw = pass[p].threw /\ r.body = pass[p].body
      /\ r.item = items
    BY <1>1, <1>3, Zenon DEF PassRecords
<1> HIDE DEF r
<1>6. r # Null
    BY <1>5, NullAssumption
<1> QED
    BY <1>3, <1>4, <1>5, <1>6 DEF TypeOK

-----------------------------------------------------------------------------
LEMMA TypeInit == ASSUME Init PROVE TypeOK
<1>1. [status |-> "DRAFT", at |-> "none", body |-> 0] \in Rows
    BY BoundsAssumption DEF Rows
<1>2. row \in [Entries -> Rows]
    BY <1>1 DEF Init
<1>3. running \in [Instances -> BOOLEAN] /\ lease \in BOOLEAN
    BY DEF Init
<1>4. pass \in [Passes -> PassRecords \cup {Null}]
    BY DEF Init
<1>5. calls \in 0..MaxCalls /\ failures \in 0..MaxFailures /\ crashes \in 0..MaxCrashes
    BY BoundsAssumption DEF Init
<1>7. blind \in BOOLEAN /\ meddled \in BOOLEAN
    BY DEF Init
<1>6. {booked, published, fired} \subseteq [Entries -> Nat]
  <2>1. booked \in [Entries -> Nat] /\ published \in [Entries -> Nat] /\ fired \in [Entries -> Nat]
      BY DEF Init
  <2> QED
      BY <2>1
<1> QED
    BY <1>2, <1>3, <1>4, <1>5, <1>6, <1>7 DEF TypeOK

(* What a user's call writes is a row. *)
LEMMA UserStep ==
    ASSUME TypeOK, NEW e \in Entries, Users(e)
    PROVE  \E new \in Rows :
              /\ Call(e, new)
              /\ \/ new.status = "SCHEDULED" /\ booked' = [booked EXCEPT ![e] = @ + 1]
                 \/ (new.status = "SCHEDULED" => row[e].status = "SCHEDULED") /\ UNCHANGED booked
<1>1. row[e] \in Rows /\ row[e].at \in {"none", "future", "past"}
  <2>1. row[e] \in Rows
      BY DEF TypeOK
  <2>2. row[e].at \in {"none", "future", "past"}
      BY <2>1, Zenon DEF Rows
  <2> QED
      BY <2>1, <2>2
<1>2. CASE Schedule(e)
  <2>1. PICK at \in {"future", row[e].at} :
            Call(e, [row[e] EXCEPT !.status = "SCHEDULED", !.at = at])
      BY <1>2 DEF Schedule
  <2> DEFINE new == [row[e] EXCEPT !.status = "SCHEDULED", !.at = at]
  <2>2. new \in Rows
    <3>1. at \in {"none", "future", "past"}
        BY <1>1, <2>1
    <3> QED
        BY <1>1, <3>1, RowUpdates, Zenon
  <2>3. new.status = "SCHEDULED"
      BY <1>1, Zenon DEF Rows
  <2>4. Call(e, new)
      BY <2>1
  <2> HIDE DEF new
  <2> QED
      BY <1>2, <2>2, <2>3, <2>4 DEF Schedule
<1>3. CASE Withdraw(e)
  <2> DEFINE new == [row[e] EXCEPT !.status = "DRAFT"]
  <2>1. new \in Rows
      BY <1>1, RowUpdates, Zenon
  <2>2. new.status = "DRAFT"
      BY <1>1, Zenon DEF Rows
  <2>3. Call(e, new) /\ UNCHANGED booked
      BY <1>3 DEF Withdraw
  <2> HIDE DEF new
  <2> QED
      BY <2>1, <2>2, <2>3
<1>4. CASE Edit(e)
  <2> DEFINE new == [row[e] EXCEPT !.body = calls + 1]
  <2>1. Call(e, new) /\ UNCHANGED booked
      BY <1>4 DEF Edit
  <2>2. calls + 1 \in 0..MaxCalls
      BY <2>1, BoundsAssumption DEF Call, TypeOK
  <2>3. new \in Rows
      BY <1>1, <2>2, RowUpdates, Zenon
  <2>4. new.status = row[e].status
      BY <1>1, Zenon DEF Rows
  <2> HIDE DEF new
  <2> QED
      BY <2>1, <2>3, <2>4
<1>5. CASE PublishNow(e)
  <2> DEFINE new == [row[e] EXCEPT !.status = "PUBLISHED", !.at = "none"]
  <2>1. new \in Rows
      BY <1>1, RowUpdates, Zenon
  <2>2. new.status = "PUBLISHED"
      BY <1>1, Zenon DEF Rows
  <2>3. Call(e, new) /\ UNCHANGED booked
      BY <1>5 DEF PublishNow
  <2> HIDE DEF new
  <2> QED
      BY <2>1, <2>2, <2>3
<1> QED
    BY <1>2, <1>3, <1>4, <1>5 DEF Users

LEMMA CallType ==
    ASSUME TypeOK, NEW e \in Entries, NEW new \in Rows, Call(e, new),
           booked' \in {booked, [booked EXCEPT ![e] = @ + 1]}
    PROVE  TypeOK'
<1>1. /\ UNCHANGED <<running, lease, pass, failures, crashes, blind, published, fired>>
      /\ meddled' \in BOOLEAN
    BY DEF Call, TypeOK
<1>2. row' \in [Entries -> Rows]
    BY DEF Call, TypeOK
<1>3. calls' \in 0..MaxCalls
    BY BoundsAssumption DEF Call, TypeOK
<1>4. booked \in [Entries -> Nat] /\ published \in [Entries -> Nat] /\ fired \in [Entries -> Nat]
    BY DEF TypeOK
<1>5. booked' \in [Entries -> Nat]
    BY <1>4
<1> QED
    BY <1>1, <1>2, <1>3, <1>4, <1>5 DEF TypeOK

LEMMA DateComesType ==
    ASSUME TypeOK, NEW e \in Entries, DateComes(e)
    PROVE  TypeOK'
<1>1. [row[e] EXCEPT !.at = "past"] \in Rows
  <2>1. row[e] \in Rows
      BY DEF TypeOK
  <2> QED
      BY <2>1, RowUpdates, Zenon
<1>2. row' \in [Entries -> Rows]
    BY <1>1 DEF DateComes, TypeOK
<1> QED
    BY <1>2 DEF DateComes, TypeOK, bounds, upsets, counts

(* A new pass holds nothing yet. *)
LEMMA NewPass ==
    ASSUME NEW i \in Instances,
           NEW q, q = [by |-> i, stage |-> "lock", threw |-> FALSE,
                       item |-> [e \in Entries |-> "none"],
                       body |-> [e \in Entries |-> 0]]
    PROVE  /\ q \in PassRecords /\ q.stage = "lock" /\ q.by = i
           /\ \A e \in Entries : q.item[e] = "none"
BY BoundsAssumption DEF PassRecords, Items

LEMMA TickType ==
    ASSUME TypeOK, NEW i \in Instances, Tick(i)
    PROVE  TypeOK'
<1>1. PICK p \in Passes :
          pass' = [pass EXCEPT ![p] = [by |-> i, stage |-> "lock", threw |-> FALSE,
                                       item |-> [e \in Entries |-> "none"],
                                       body |-> [e \in Entries |-> 0]]]
    BY DEF Tick
<1>2. pass' \in [Passes -> PassRecords \cup {Null}]
    BY <1>1, NewPass DEF TypeOK
<1>3. running' \in [Instances -> BOOLEAN]
    BY DEF Tick, TypeOK
<1> QED
    BY <1>2, <1>3 DEF Tick, TypeOK, bounds, upsets, counts

LEMMA OverType ==
    ASSUME TypeOK, NEW p \in Passes, pass[p] # Null,
           running' = [running EXCEPT ![pass[p].by] = pass[p].threw /\ @]
    PROVE  running' \in [Instances -> BOOLEAN]
<1>1. pass[p] \in PassRecords
    BY DEF TypeOK
<1>2. pass[p].by \in Instances /\ pass[p].threw \in BOOLEAN
    BY <1>1, Zenon DEF PassRecords
<1>3. running \in [Instances -> BOOLEAN]
    BY DEF TypeOK
<1>4. (pass[p].threw /\ running[pass[p].by]) \in BOOLEAN
    OBVIOUS
<1> QED
    BY <1>2, <1>3, <1>4, Zenon

LEMMA LockType ==
    ASSUME TypeOK, NEW p \in Passes, Lock(p)
    PROVE  TypeOK'
<1>1. pass[p] \in PassRecords
    BY DEF Lock, TypeOK
<1>2. [pass[p] EXCEPT !.stage = "read"] \in PassRecords
    BY <1>1, PassUpdates
<1>3. UNCHANGED <<row, calls, failures, crashes, meddled, booked, published, fired>>
    BY DEF Lock, counts
<1>4. lease' \in BOOLEAN
    BY SwitchesAssumption DEF Lock, TypeOK
<1>5. pass' \in [Passes -> PassRecords \cup {Null}]
    BY <1>2 DEF Lock, Over, TypeOK
<1>6. running' \in [Instances -> BOOLEAN]
  <2>1. CASE UNCHANGED running
      BY <2>1 DEF TypeOK
  <2>2. CASE Over(p)
      BY <2>2, OverType DEF Over, Lock
  <2> QED
      BY <2>1, <2>2 DEF Lock
<1>7. blind' \in BOOLEAN
    BY DEF Lock, TypeOK
<1> QED
    BY <1>3, <1>4, <1>5, <1>6, <1>7 DEF TypeOK

LEMMA ExpireType == ASSUME TypeOK, Expire PROVE TypeOK'
BY DEF Expire, TypeOK, bounds, upsets, counts

(* The record a pass that has read its entries holds. *)
LEMMA ReadPass ==
    ASSUME TypeOK, NEW p \in Passes, Read(p)
    PROVE  /\ pass' \in [Passes -> PassRecords \cup {Null}]
           /\ pass[p] \in PassRecords /\ pass[p] # Null /\ pass[p].stage = "read"
           /\ pass'[p] # Null /\ pass'[p].stage = "work" /\ pass'[p].by = pass[p].by
           /\ \A e \in Entries :
                 /\ pass'[p].item[e] = IF Due(e) THEN "row" ELSE "none"
                 /\ pass'[p].body[e] = row[e].body
           /\ \A q \in Passes : q # p => pass'[q] = pass[q]
<1> DEFINE items == [e \in Entries |-> IF Due(e) THEN "row" ELSE "none"]
           bodies == [e \in Entries |-> row[e].body]
           r == [pass[p] EXCEPT !.stage = "work", !.item = items, !.body = bodies]
<1>1. pass[p] # Null /\ pass[p].stage = "read" /\ pass[p] \in PassRecords
    BY DEF Read, TypeOK
<1>2. items \in [Entries -> Items]
    BY DEF Items
<1>3. bodies \in [Entries -> 0..MaxCalls]
  <2>1. \A e \in Entries : row[e].body \in 0..MaxCalls
    <3>1. \A e \in Entries : row[e] \in Rows
        BY DEF TypeOK
    <3>2. \A e \in Entries : row[e].body \in 0..MaxCalls
        BY <3>1, Zenon DEF Rows
    <3> QED
        BY <3>2
  <2> QED
      BY <2>1
<1>4. pass' = [pass EXCEPT ![p] = r]
    BY DEF Read
<1>5. /\ \A e \in Entries : items[e] = IF Due(e) THEN "row" ELSE "none"
      /\ \A e \in Entries : bodies[e] = row[e].body
  <2>1. \A e \in Entries : items[e] = IF Due(e) THEN "row" ELSE "none"
      BY Zenon
  <2>2. \A e \in Entries : bodies[e] = row[e].body
      BY Zenon
  <2> QED
      BY <2>1, <2>2
<1> HIDE DEF items, bodies
<1>6. r \in PassRecords
    BY <1>1, <1>2, <1>3, PassUpdates, Zenon
<1>7. r.stage = "work" /\ r.by = pass[p].by /\ r.item = items /\ r.body = bodies
    BY <1>1, Zenon DEF PassRecords
<1> HIDE DEF r
<1>8. r # Null
    BY <1>6, NullAssumption
<1>9. pass'[p] = r /\ \A q \in Passes : q # p => pass'[q] = pass[q]
    BY <1>4 DEF TypeOK
<1>10. pass' \in [Passes -> PassRecords \cup {Null}]
    BY <1>4, <1>6 DEF TypeOK
<1>11. pass'[p].item = items /\ pass'[p].body = bodies
    BY <1>7, <1>9
<1>12. \A e \in Entries :
          /\ pass'[p].item[e] = IF Due(e) THEN "row" ELSE "none"
          /\ pass'[p].body[e] = row[e].body
    BY <1>5, <1>11, Zenon
<1> QED
    BY <1>1, <1>7, <1>8, <1>9, <1>10, <1>12

LEMMA ReadType == ASSUME TypeOK, NEW p \in Passes, Read(p) PROVE TypeOK'
BY ReadPass DEF Read, TypeOK, bounds, upsets, counts

LEMMA ItemFails ==
    ASSUME TypeOK, NEW p \in Passes, NEW e \in Entries, WriteFails(p, e)
    PROVE  /\ pass' \in [Passes -> PassRecords \cup {Null}]
           /\ pass[p] # Null /\ pass[p].item[e] \in {"row", "version"}
           /\ pass'[p] # Null /\ pass'[p].stage = pass[p].stage
           /\ pass'[p].by = pass[p].by /\ pass'[p].body = pass[p].body
           /\ pass'[p].item = [pass[p].item EXCEPT ![e] = "done"]
           /\ pass[p].item \in [Entries -> Items]
           /\ \A q \in Passes : q # p => pass'[q] = pass[q]
<1> DEFINE items == [pass[p].item EXCEPT ![e] = "done"]
           r == [pass[p] EXCEPT !.item = items, !.threw = TRUE]
<1>1. /\ pass[p] \in PassRecords /\ pass[p] # Null
      /\ pass[p].item[e] \in {"row", "version"}
    BY DEF TypeOK, WriteFails, At
<1>2. pass[p].item \in [Entries -> Items]
    BY <1>1, Zenon DEF PassRecords
<1>3. items \in [Entries -> Items]
    BY <1>2 DEF Items
<1>4. pass' = [pass EXCEPT ![p] = r]
    BY DEF TypeOK, WriteFails
<1> HIDE DEF items
<1>5. r \in PassRecords
    BY <1>1, <1>3, PassUpdates, Zenon
<1>6. r.by = pass[p].by /\ r.stage = pass[p].stage /\ r.body = pass[p].body /\ r.item = items
    BY <1>1, <1>3, Zenon DEF PassRecords
<1> HIDE DEF r
<1>7. r # Null
    BY <1>5, NullAssumption
<1>8. pass'[p] = r /\ \A q \in Passes : q # p => pass'[q] = pass[q]
    BY <1>4 DEF TypeOK
<1>9. pass' \in [Passes -> PassRecords \cup {Null}]
    BY <1>4, <1>5 DEF TypeOK
<1> QED
    BY <1>1, <1>2, <1>6, <1>7, <1>8, <1>9 DEF items

LEMMA WriteFailsType ==
    ASSUME TypeOK, NEW p \in Passes, NEW e \in Entries, WriteFails(p, e)
    PROVE  TypeOK'
<1>1. pass' \in [Passes -> PassRecords \cup {Null}] /\ pass[p] # Null
    BY ItemFails
<1>2. running' \in [Instances -> BOOLEAN]
    BY <1>1, OverType DEF WriteFails
<1>3. failures' \in 0..MaxFailures
    BY BoundsAssumption DEF WriteFails, TypeOK
<1> QED
    BY <1>1, <1>2, <1>3 DEF WriteFails, TypeOK, upsets, counts

LEMMA WriteType ==
    ASSUME TypeOK, NEW p \in Passes, NEW e \in Entries, Write(p, e)
    PROVE  TypeOK'
<1>1. pass' \in [Passes -> PassRecords \cup {Null}]
  <2>1. "version" \in Items /\ pass[p] # Null
      BY DEF Items, Write, At
  <2> QED
      BY <2>1, ItemMoves DEF Write, Moves
<1>2. [row[e] EXCEPT !.status = "PUBLISHED", !.at = "none"] \in Rows
  <2>1. row[e] \in Rows
      BY DEF TypeOK
  <2> QED
      BY <2>1, RowUpdates, Zenon
<1>3. row' \in [Entries -> Rows]
    BY <1>2 DEF Write, TypeOK
<1>4. booked \in [Entries -> Nat] /\ published \in [Entries -> Nat] /\ fired \in [Entries -> Nat]
    BY DEF TypeOK
<1>5. published' \in [Entries -> Nat]
    BY <1>4 DEF Write
<1> QED
    BY <1>1, <1>3, <1>4, <1>5 DEF Write, TypeOK, bounds, upsets

LEMMA VersionType ==
    ASSUME TypeOK, NEW p \in Passes, NEW e \in Entries, Version(p, e)
    PROVE  TypeOK'
<1>1. pass' \in [Passes -> PassRecords \cup {Null}]
  <2>1. "webhook" \in Items /\ pass[p] # Null
      BY DEF Items, Version, At
  <2> QED
      BY <2>1, ItemMoves DEF Version, Moves
<1> QED
    BY <1>1 DEF Version, TypeOK, bounds, upsets, counts

LEMMA FireType ==
    ASSUME TypeOK, NEW p \in Passes, NEW e \in Entries, Fire(p, e)
    PROVE  TypeOK'
<1>1. pass' \in [Passes -> PassRecords \cup {Null}]
  <2>1. "done" \in Items /\ pass[p] # Null
      BY DEF Items, Fire, At
  <2> QED
      BY <2>1, ItemMoves DEF Fire, Moves
<1>2. booked \in [Entries -> Nat] /\ published \in [Entries -> Nat] /\ fired \in [Entries -> Nat]
    BY DEF TypeOK
<1>3. fired' \in [Entries -> Nat]
    BY <1>2 DEF Fire
<1> QED
    BY <1>1, <1>2, <1>3 DEF Fire, TypeOK, bounds, upsets

LEMMA FinishType == ASSUME TypeOK, NEW p \in Passes, Finish(p) PROVE TypeOK'
<1>1. running' \in [Instances -> BOOLEAN]
    BY OverType DEF Finish, Over
<1>2. pass' \in [Passes -> PassRecords \cup {Null}]
    BY DEF Finish, Over, TypeOK
<1> QED
    BY <1>1, <1>2 DEF Finish, TypeOK, bounds, upsets, counts

LEMMA CrashType == ASSUME TypeOK, NEW i \in Instances, Crash(i) PROVE TypeOK'
<1>1. crashes' \in 0..MaxCrashes
    BY BoundsAssumption DEF Crash, TypeOK
<1>2. pass' \in [Passes -> PassRecords \cup {Null}]
    BY DEF Crash, TypeOK
<1>3. running' \in [Instances -> BOOLEAN]
    BY DEF Crash, TypeOK
<1> QED
    BY <1>1, <1>2, <1>3 DEF Crash, TypeOK, upsets, counts

LEMMA TypeStep == ASSUME TypeOK, [Next]_vars PROVE TypeOK'
<1>1. ASSUME NEW e \in Entries, Users(e) PROVE TypeOK'
  <2>1. PICK new \in Rows : Call(e, new)
                            /\ booked' \in {booked, [booked EXCEPT ![e] = @ + 1]}
      BY <1>1, UserStep
  <2> QED
      BY <2>1, CallType
<1>2. ASSUME NEW p \in Passes, Step(p) PROVE TypeOK'
    BY <1>2, LockType, ReadType, FinishType, WriteType, VersionType, FireType
    DEF Step, Publishing
<1>3. ASSUME NEW p \in Passes, NEW e \in Entries, WriteFails(p, e) PROVE TypeOK'
    BY <1>3, WriteFailsType
<1>4. ASSUME NEW i \in Instances, Tick(i) \/ Crash(i) PROVE TypeOK'
    BY <1>4, TickType, CrashType
<1>5. CASE UNCHANGED vars
    BY <1>5 DEF vars, TypeOK
<1> QED
    BY <1>1, <1>2, <1>3, <1>4, <1>5, DateComesType, ExpireType DEF Next

(* The type invariant holds in every deployment. *)
THEOREM TypeCorrect == Spec => []TypeOK
BY TypeInit, TypeStep, PTL DEF Spec

-----------------------------------------------------------------------------
FInv == TypeOK /\ Fresh /\ Claims

Steps == {"row", "version", "webhook"}

(* Only the one pass past the lease has anything under way. *)
LEMMA Sole ==
    ASSUME Fresh, Single, NEW p \in Passes, Working(p)
    PROVE  \A q \in Passes, e \in Entries, st \in Steps : At(q, e, st) => q = p
BY DEF Fresh, Single, Working, Active, At, Steps

LEMMA ItemWorks ==
    ASSUME Fresh, NEW p \in Passes, NEW e \in Entries, NEW st \in Steps, At(p, e, st)
    PROVE  Working(p) /\ pass[p] # Null /\ pass[p].stage = "work"
BY DEF Fresh, Working, Active, At, Steps

(* A step that books no less, fires nothing, and opens nothing new.          *)
LEMMA ClaimsKept ==
    ASSUME FInv, TypeOK', UNCHANGED fired,
           \A e \in Entries : booked'[e] >= booked[e],
           \A e \in Entries : Opened(e)' => Opened(e),
           \A e \in Entries : InFlight(e)' => InFlight(e)
    PROVE  Claims'
<1>1. \A e \in Entries : booked[e] \in Nat /\ booked'[e] \in Nat /\ fired[e] \in Nat
    BY DEF FInv, TypeOK
<1> SUFFICES ASSUME NEW e \in Entries
             PROVE  /\ fired'[e] <= booked'[e]
                    /\ Opened(e)' => fired'[e] + 1 <= booked'[e]
                    /\ InFlight(e)' => fired'[e] + 1 <= booked'[e]
                    /\ Opened(e)' /\ InFlight(e)' => fired'[e] + 2 <= booked'[e]
    BY DEF Claims
<1> DEFINE o == Opened(e)  i == InFlight(e)  oo == Opened(e)'  ii == InFlight(e)'
<1>2. /\ fired[e] <= booked[e]
      /\ o => fired[e] + 1 <= booked[e]
      /\ i => fired[e] + 1 <= booked[e]
      /\ o /\ i => fired[e] + 2 <= booked[e]
    BY DEF FInv, Claims
<1>3. (oo => o) /\ (ii => i) /\ booked'[e] >= booked[e] /\ fired'[e] = fired[e]
    OBVIOUS
<1> HIDE DEF o, i, oo, ii
<1>4. /\ fired'[e] <= booked'[e]
      /\ oo => fired'[e] + 1 <= booked'[e]
      /\ ii => fired'[e] + 1 <= booked'[e]
      /\ oo /\ ii => fired'[e] + 2 <= booked'[e]
    BY <1>1, <1>2, <1>3
<1> QED
    BY <1>4 DEF oo, ii

(* The same for a step under which passes only lose what they had.           *)
LEMMA ClaimsShrink ==
    ASSUME FInv, TypeOK', UNCHANGED <<fired, booked>>,
           \A e \in Entries : row'[e].status = "SCHEDULED" => row[e].status = "SCHEDULED",
           \A p \in Passes, e \in Entries, st \in Steps : At(p, e, st)' => At(p, e, st)
    PROVE  Claims'
<1>1. \A e \in Entries : Opened(e)' => Opened(e)
    BY DEF Opened, Steps
<1>2. \A e \in Entries : InFlight(e)' => InFlight(e)
    BY DEF InFlight, Steps
<1>3. \A e \in Entries : booked'[e] >= booked[e]
  <2>1. \A e \in Entries : booked[e] \in Nat
      BY DEF FInv, TypeOK
  <2> QED
      BY <2>1
<1> QED
    BY <1>1, <1>2, <1>3, ClaimsKept

LEMMA FInvInit == ASSUME Init PROVE FInv
<1>1. \A p \in Passes : pass[p] = Null
    BY DEF Init
<1>2. \A e \in Entries : fired[e] = 0 /\ booked[e] = 0 /\ row[e].status = "DRAFT"
    BY DEF Init
<1>3. \A e \in Entries : ~Opened(e) /\ ~InFlight(e)
    BY <1>1, <1>2 DEF Opened, InFlight, At
<1>4. Fresh /\ Claims
    BY <1>1, <1>2, <1>3 DEF Fresh, Claims, Active
<1> QED
    BY <1>4, TypeInit DEF FInv

LEMMA UserClaims ==
    ASSUME FInv, TypeOK', NEW e \in Entries, Users(e)
    PROVE  Fresh' /\ Claims'
<1>1. PICK new \in Rows :
          /\ Call(e, new)
          /\ \/ new.status = "SCHEDULED" /\ booked' = [booked EXCEPT ![e] = @ + 1]
             \/ (new.status = "SCHEDULED" => row[e].status = "SCHEDULED") /\ UNCHANGED booked
    BY UserStep DEF FInv
<1>2. UNCHANGED <<pass, fired>> /\ row' = [row EXCEPT ![e] = new]
    BY <1>1 DEF Call
<1>3. Fresh'
    BY <1>2 DEF FInv, Fresh, Active
<1>4. \A p \in Passes, f \in Entries, st \in Steps : At(p, f, st)' = At(p, f, st)
    BY <1>2 DEF At
<1>5. row'[e] = new /\ \A f \in Entries : f # e => row'[f] = row[f]
    BY <1>2 DEF FInv, TypeOK
<1>6. CASE (new.status = "SCHEDULED" => row[e].status = "SCHEDULED") /\ UNCHANGED booked
  <2>1. \A f \in Entries : row'[f].status = "SCHEDULED" => row[f].status = "SCHEDULED"
      BY <1>5, <1>6
  <2> QED
      BY <1>2, <1>3, <1>4, <1>6, <2>1, ClaimsShrink
<1>7. CASE booked' = [booked EXCEPT ![e] = @ + 1]
  <2>1. \A f \in Entries : InFlight(f)' = InFlight(f)
      BY <1>4 DEF InFlight, Steps
  <2>2. \A f \in Entries : f # e => (Opened(f)' => Opened(f))
      BY <1>4, <1>5 DEF Opened, Steps
  <2>3. /\ \A f \in Entries : fired[f] \in Nat /\ booked[f] \in Nat
        /\ booked'[e] = booked[e] + 1 /\ \A f \in Entries : f # e => booked'[f] = booked[f]
      BY <1>7 DEF FInv, TypeOK
  <2>4. /\ \A f \in Entries : fired[f] <= booked[f]
        /\ \A f \in Entries : InFlight(f) => fired[f] + 1 <= booked[f]
        /\ \A f \in Entries : Opened(f) => fired[f] + 1 <= booked[f]
        /\ \A f \in Entries : Opened(f) /\ InFlight(f) => fired[f] + 2 <= booked[f]
      BY DEF FInv, Claims
  <2> SUFFICES ASSUME NEW f \in Entries
               PROVE  /\ fired'[f] <= booked'[f]
                      /\ Opened(f)' => fired'[f] + 1 <= booked'[f]
                      /\ InFlight(f)' => fired'[f] + 1 <= booked'[f]
                      /\ Opened(f)' /\ InFlight(f)' => fired'[f] + 2 <= booked'[f]
      BY <1>3 DEF Claims
  <2>5. CASE f = e
      BY <1>2, <2>1, <2>3, <2>4, <2>5
  <2>6. CASE f # e
      BY <1>2, <2>1, <2>2, <2>3, <2>4, <2>6
  <2> QED
      BY <2>5, <2>6
<1> QED
    BY <1>1, <1>6, <1>7

LEMMA DateClaims ==
    ASSUME FInv, TypeOK', NEW e \in Entries, DateComes(e)
    PROVE  Fresh' /\ Claims'
<1>1. UNCHANGED <<pass, fired, booked>>
    BY DEF DateComes, counts
<1>2. \A f \in Entries : row'[f].status = row[f].status
  <2>1. row[e] \in Rows
      BY DEF FInv, TypeOK
  <2>2. [row[e] EXCEPT !.at = "past"].status = row[e].status
      BY <2>1, Zenon DEF Rows
  <2> QED
      BY <2>2 DEF DateComes, FInv, TypeOK
<1>3. \A p \in Passes, f \in Entries, st \in Steps : At(p, f, st)' = At(p, f, st)
    BY <1>1 DEF At
<1>4. Fresh'
    BY <1>1 DEF FInv, Fresh, Active
<1> QED
    BY <1>1, <1>2, <1>3, <1>4, ClaimsShrink

(* A step of one pass that brings none of its entries under way.             *)
LEMMA PassClaims ==
    ASSUME FInv, TypeOK', NEW p \in Passes, UNCHANGED <<row, fired, booked>>,
           \A q \in Passes : q # p => pass'[q] = pass[q],
           \A e \in Entries, st \in Steps : At(p, e, st)' => At(p, e, st),
           pass'[p] # Null /\ pass'[p].stage # "work"
               => \A e \in Entries : pass'[p].item[e] = "none"
    PROVE  Fresh' /\ Claims'
<1>1. \A q \in Passes, e \in Entries, st \in Steps : At(q, e, st)' => At(q, e, st)
  <2> SUFFICES ASSUME NEW q \in Passes, NEW e \in Entries, NEW st \in Steps, At(q, e, st)'
               PROVE  At(q, e, st)
      OBVIOUS
  <2>1. CASE q = p
      BY <2>1
  <2>2. CASE q # p
      BY <2>2 DEF At
  <2> QED
      BY <2>1, <2>2
<1>2. Claims'
    BY <1>1, ClaimsShrink
<1>3. Fresh'
    BY DEF FInv, Fresh, Active
<1> QED
    BY <1>2, <1>3

LEMMA TickClaims ==
    ASSUME FInv, TypeOK', NEW i \in Instances, Tick(i)
    PROVE  Fresh' /\ Claims'
<1>1. PICK p \in Passes :
          pass' = [pass EXCEPT ![p] = [by |-> i, stage |-> "lock", threw |-> FALSE,
                                       item |-> [e \in Entries |-> "none"],
                                       body |-> [e \in Entries |-> 0]]]
    BY DEF Tick
<1>2. \A e \in Entries : pass'[p].item[e] = "none"
    BY <1>1, NewPass DEF FInv, TypeOK
<1>3. \A q \in Passes : q # p => pass'[q] = pass[q]
    BY <1>1 DEF FInv, TypeOK
<1>4. \A e \in Entries, st \in Steps : ~At(p, e, st)'
    BY <1>2 DEF At, Steps
<1>5. UNCHANGED <<row, fired, booked>>
    BY DEF Tick, counts
<1> QED
    BY <1>2, <1>3, <1>4, <1>5, PassClaims

LEMMA LockClaims ==
    ASSUME FInv, TypeOK', NEW p \in Passes, Lock(p)
    PROVE  Fresh' /\ Claims'
<1>1. /\ pass[p] \in PassRecords /\ pass[p] # Null /\ pass[p].stage = "lock"
      /\ \A e \in Entries : pass[p].item[e] = "none"
    BY DEF Lock, FInv, TypeOK, Fresh, Active
<1>2. [pass[p] EXCEPT !.stage = "read"].item = pass[p].item
    BY <1>1, Zenon DEF PassRecords
<1>3. /\ \A q \in Passes : q # p => pass'[q] = pass[q]
      /\ pass'[p] = Null \/ pass'[p] = [pass[p] EXCEPT !.stage = "read"]
    BY DEF Lock, Over, FInv, TypeOK
<1>4. pass'[p] # Null => \A e \in Entries : pass'[p].item[e] = "none"
    BY <1>1, <1>2, <1>3, ZenonT(60)
<1>5. \A e \in Entries, st \in Steps : ~At(p, e, st)'
    BY <1>4 DEF At, Steps
<1>6. UNCHANGED <<row, fired, booked>>
    BY DEF Lock, counts
<1> QED
    BY <1>3, <1>4, <1>5, <1>6, PassClaims

LEMMA ExpireClaims == ASSUME FInv, TypeOK', Expire PROVE Fresh' /\ Claims'
<1>1. UNCHANGED <<row, pass, fired, booked>>
    BY DEF Expire, counts
<1>2. Fresh'
    BY <1>1 DEF FInv, Fresh, Active
<1>3. \A p \in Passes, e \in Entries, st \in Steps : At(p, e, st)' = At(p, e, st)
    BY <1>1 DEF At
<1> QED
    BY <1>1, <1>2, <1>3, ClaimsShrink

LEMMA ReadClaims ==
    ASSUME FInv, TypeOK', NEW p \in Passes, Read(p)
    PROVE  Fresh' /\ Claims'
<1>1. /\ pass'[p].stage = "work"
      /\ \A e \in Entries : pass'[p].item[e] = IF Due(e) THEN "row" ELSE "none"
      /\ \A q \in Passes : q # p => pass'[q] = pass[q]
    BY ReadPass DEF FInv
<1>2. UNCHANGED <<row, fired, booked>>
    BY DEF Read, counts
<1>3. Fresh'
    BY <1>1 DEF FInv, Fresh, Active
<1>4. \A e \in Entries : Opened(e)' => Opened(e)
  <2> SUFFICES ASSUME NEW e \in Entries, Opened(e)' PROVE Opened(e)
      OBVIOUS
  <2>1. CASE row'[e].status = "SCHEDULED"
      BY <1>2, <2>1 DEF Opened
  <2>2. ASSUME NEW q \in Passes, At(q, e, "row")' PROVE Opened(e)
    <3>1. CASE q = p
        BY <1>1, <2>2, <3>1 DEF At, Due, Opened
    <3>2. CASE q # p
        BY <1>1, <2>2, <3>2 DEF At, Opened
    <3> QED
        BY <3>1, <3>2
  <2> QED
      BY <2>1, <2>2 DEF Opened
<1>5. \A e \in Entries : InFlight(e)' => InFlight(e)
    BY <1>1 DEF InFlight, At
<1>6. \A e \in Entries : booked'[e] >= booked[e]
  <2>1. \A e \in Entries : booked[e] \in Nat
      BY DEF FInv, TypeOK
  <2> QED
      BY <1>2, <2>1
<1> QED
    BY <1>2, <1>3, <1>4, <1>5, <1>6, ClaimsKept

LEMMA WriteFailsClaims ==
    ASSUME FInv, TypeOK', NEW p \in Passes, NEW e \in Entries, WriteFails(p, e)
    PROVE  Fresh' /\ Claims'
<1>1. /\ pass[p] # Null /\ pass[p].item[e] \in {"row", "version"}
      /\ pass'[p] # Null /\ pass'[p].stage = pass[p].stage
      /\ pass'[p].item = [pass[p].item EXCEPT ![e] = "done"]
      /\ pass[p].item \in [Entries -> Items]
      /\ \A q \in Passes : q # p => pass'[q] = pass[q]
    BY ItemFails DEF FInv
<1>2. pass[p].stage = "work"
    BY <1>1, ItemWorks DEF FInv, At, Steps
<1>3. \A f \in Entries, st \in Steps : At(p, f, st)' => At(p, f, st)
    BY <1>1 DEF At, Steps
<1>4. UNCHANGED <<row, fired, booked>>
    BY DEF WriteFails, counts
<1> QED
    BY <1>1, <1>2, <1>3, <1>4, PassClaims

LEMMA FinishClaims ==
    ASSUME FInv, TypeOK', NEW p \in Passes, Finish(p)
    PROVE  Fresh' /\ Claims'
<1>1. pass'[p] = Null /\ \A q \in Passes : q # p => pass'[q] = pass[q]
    BY DEF Finish, Over, FInv, TypeOK
<1>2. \A f \in Entries, st \in Steps : ~At(p, f, st)'
    BY <1>1 DEF At
<1>3. UNCHANGED <<row, fired, booked>>
    BY DEF Finish, counts
<1> QED
    BY <1>1, <1>2, <1>3, PassClaims

LEMMA CrashClaims ==
    ASSUME FInv, TypeOK', NEW i \in Instances, Crash(i)
    PROVE  Fresh' /\ Claims'
<1>1. \A p \in Passes : pass'[p] = Null \/ pass'[p] = pass[p]
    BY DEF Crash
<1>2. UNCHANGED <<row, fired, booked>>
    BY DEF Crash, counts
<1>3. Fresh'
    BY <1>1 DEF FInv, Fresh, Active
<1>4. \A p \in Passes, e \in Entries, st \in Steps : At(p, e, st)' => At(p, e, st)
    BY <1>1 DEF At
<1> QED
    BY <1>2, <1>3, <1>4, ClaimsShrink

-----------------------------------------------------------------------------
(* The three steps of a publication hand its claim on. *)
LEMMA ItemAt ==
    ASSUME FInv, TypeOK', Single, NEW p \in Passes, NEW e \in Entries,
           NEW from \in Steps, NEW to \in Items, At(p, e, from),
           Moves(p, e, to)
    PROVE  /\ Fresh'
           /\ \A q \in Passes, f \in Entries, st \in Steps :
                 /\ At(q, f, st) => q = p
                 /\ At(q, f, st)' => q = p
           /\ \A f \in Entries, st \in Steps : f # e => (At(p, f, st)' <=> At(p, f, st))
           /\ \A st \in Steps : At(p, e, st) <=> st = from
           /\ \A st \in Steps : At(p, e, st)' <=> st = to
<1>1. Working(p) /\ pass[p] # Null /\ pass[p].stage = "work" /\ pass[p].item[e] = from
    BY ItemWorks DEF FInv, At
<1>2. TypeOK /\ pass[p] # Null
    BY <1>1 DEF FInv
<1>3. /\ pass'[p] # Null /\ pass'[p].stage = pass[p].stage
      /\ \A q \in Passes : q # p => pass'[q] = pass[q]
    BY <1>2, ItemMoves
<1>4. pass'[p].item[e] = to /\ \A f \in Entries : f # e => pass'[p].item[f] = pass[p].item[f]
    BY <1>2, ItemMoves
<1>5. Fresh'
    BY <1>1, <1>3 DEF FInv, Fresh, Active
<1>6. \A q \in Passes, f \in Entries, st \in Steps : At(q, f, st) => q = p
    BY <1>1, Sole DEF FInv
<1>7. \A q \in Passes, f \in Entries, st \in Steps : At(q, f, st)' => q = p
  <2> SUFFICES ASSUME NEW q \in Passes, NEW f \in Entries, NEW st \in Steps, q # p
               PROVE  ~At(q, f, st)'
      OBVIOUS
  <2>1. At(q, f, st)' <=> At(q, f, st)
      BY <1>3 DEF At
  <2> QED
      BY <1>6, <2>1
<1>8. \A f \in Entries, st \in Steps : f # e => (At(p, f, st)' <=> At(p, f, st))
    BY <1>1, <1>3, <1>4 DEF At
<1>9. \A st \in Steps : (At(p, e, st) <=> st = from) /\ (At(p, e, st)' <=> st = to)
  <2> TAKE st \in Steps
  <2>1. At(p, e, st) <=> st = from
      BY <1>1 DEF At
  <2>2. At(p, e, st)' <=> st = to
      BY <1>3, <1>4 DEF At
  <2> QED
      BY <2>1, <2>2
<1> QED
    BY <1>5, <1>6, <1>7, <1>8, <1>9

(* What the claims of one entry become, from the parts they are made of.     *)
LEMMA ClaimsOfParts ==
    ASSUME NEW p \in Passes, NEW f \in Entries,
           \A q \in Passes, st \in Steps : At(q, f, st) => q = p
    PROVE  /\ Opened(f) <=> (row[f].status = "SCHEDULED" \/ At(p, f, "row"))
           /\ InFlight(f) <=> (At(p, f, "version") \/ At(p, f, "webhook"))
BY DEF Opened, InFlight, Steps

LEMMA ClaimsOfPartsNext ==
    ASSUME NEW p \in Passes, NEW f \in Entries,
           \A q \in Passes, st \in Steps : At(q, f, st)' => q = p
    PROVE  /\ Opened(f)' <=> (row'[f].status = "SCHEDULED" \/ At(p, f, "row")')
           /\ InFlight(f)' <=> (At(p, f, "version")' \/ At(p, f, "webhook")')
BY DEF Opened, InFlight, Steps

(* The claims of one entry after a step: either it has no more of them than  *)
(* before, or it spent the one under way on its webhook.                     *)
LEMMA ClaimsOfEntry ==
    ASSUME FInv, NEW e \in Entries, booked'[e] = booked[e], Opened(e)' => Opened(e),
           \/ fired'[e] = fired[e] /\ (InFlight(e)' => InFlight(e))
           \/ fired'[e] = fired[e] /\ Opened(e) /\ ~Opened(e)'
           \/ fired'[e] = fired[e] + 1 /\ InFlight(e) /\ ~InFlight(e)'
    PROVE  /\ fired'[e] <= booked'[e]
           /\ Opened(e)' => fired'[e] + 1 <= booked'[e]
           /\ InFlight(e)' => fired'[e] + 1 <= booked'[e]
           /\ Opened(e)' /\ InFlight(e)' => fired'[e] + 2 <= booked'[e]
<1> DEFINE o == Opened(e)  i == InFlight(e)  oo == Opened(e)'  ii == InFlight(e)'
<1>1. booked[e] \in Nat /\ fired[e] \in Nat
    BY DEF FInv, TypeOK
<1>2. /\ fired[e] <= booked[e]
      /\ o => fired[e] + 1 <= booked[e]
      /\ i => fired[e] + 1 <= booked[e]
      /\ o /\ i => fired[e] + 2 <= booked[e]
    BY DEF FInv, Claims
<1>3. booked'[e] = booked[e] /\ (oo => o)
    OBVIOUS
<1>4. \/ fired'[e] = fired[e] /\ (ii => i)
      \/ fired'[e] = fired[e] /\ o /\ ~oo
      \/ fired'[e] = fired[e] + 1 /\ i /\ ~ii
    OBVIOUS
<1> HIDE DEF o, i, oo, ii
<1>5. /\ fired'[e] <= booked'[e]
      /\ oo => fired'[e] + 1 <= booked'[e]
      /\ ii => fired'[e] + 1 <= booked'[e]
      /\ oo /\ ii => fired'[e] + 2 <= booked'[e]
    BY <1>1, <1>2, <1>3, <1>4
<1> QED
    BY <1>5 DEF oo, ii

LEMMA WriteClaims ==
    ASSUME FInv, TypeOK', Single, NEW p \in Passes, NEW e \in Entries, Write(p, e)
    PROVE  Fresh' /\ Claims'
<1>1. "row" \in Steps /\ "version" \in Items /\ "version" \in Steps /\ "webhook" \in Steps
    BY DEF Steps, Items
<1>2. /\ At(p, e, "row")
      /\ Moves(p, e, "version")
      /\ UNCHANGED <<fired, booked>>
    BY DEF Write, Moves
<1>3. /\ Fresh'
      /\ \A q \in Passes, f \in Entries, st \in Steps :
            /\ At(q, f, st) => q = p
            /\ At(q, f, st)' => q = p
      /\ \A f \in Entries, st \in Steps : f # e => (At(p, f, st)' <=> At(p, f, st))
      /\ \A st \in Steps : At(p, e, st) <=> st = "row"
      /\ \A st \in Steps : At(p, e, st)' <=> st = "version"
    BY <1>1, <1>2, ItemAt
<1>4. row'[e].status = "PUBLISHED" /\ \A f \in Entries : f # e => row'[f] = row[f]
  <2>1. row[e] \in Rows
      BY DEF FInv, TypeOK
  <2>2. [row[e] EXCEPT !.status = "PUBLISHED", !.at = "none"].status = "PUBLISHED"
      BY <2>1, Zenon DEF Rows
  <2> QED
      BY <2>2 DEF Write, FInv, TypeOK
<1>5. Opened(e) /\ ~Opened(e)'
  <2>1. Opened(e)
      BY <1>2 DEF Opened
  <2>2. \A q \in Passes : ~At(q, e, "row")'
      BY <1>1, <1>3
  <2> QED
      BY <1>4, <2>1, <2>2 DEF Opened
<1>6. \A f \in Entries : f # e => (Opened(f)' => Opened(f)) /\ (InFlight(f)' => InFlight(f))
  <2> SUFFICES ASSUME NEW f \in Entries, f # e
               PROVE  (Opened(f)' => Opened(f)) /\ (InFlight(f)' => InFlight(f))
      OBVIOUS
  <2>1. /\ Opened(f) <=> (row[f].status = "SCHEDULED" \/ At(p, f, "row"))
        /\ InFlight(f) <=> (At(p, f, "version") \/ At(p, f, "webhook"))
      BY <1>3, ClaimsOfParts
  <2>2. /\ Opened(f)' <=> (row'[f].status = "SCHEDULED" \/ At(p, f, "row")')
        /\ InFlight(f)' <=> (At(p, f, "version")' \/ At(p, f, "webhook")')
      BY <1>3, ClaimsOfPartsNext
  <2> QED
      BY <1>1, <1>3, <1>4, <2>1, <2>2
<1>7. ASSUME NEW f \in Entries
      PROVE  /\ fired'[f] <= booked'[f]
             /\ Opened(f)' => fired'[f] + 1 <= booked'[f]
             /\ InFlight(f)' => fired'[f] + 1 <= booked'[f]
             /\ Opened(f)' /\ InFlight(f)' => fired'[f] + 2 <= booked'[f]
  <2>1. fired'[f] = fired[f] /\ booked'[f] = booked[f]
      BY <1>2
  <2>2. CASE f = e
      BY <1>5, <2>1, <2>2, ClaimsOfEntry
  <2>3. CASE f # e
      BY <1>6, <2>1, <2>3, ClaimsOfEntry
  <2> QED
      BY <2>2, <2>3
<1> QED
    BY <1>3, <1>7 DEF Claims

LEMMA VersionClaims ==
    ASSUME FInv, TypeOK', Single, NEW p \in Passes, NEW e \in Entries, Version(p, e)
    PROVE  Fresh' /\ Claims'
<1>1. "version" \in Steps /\ "webhook" \in Items /\ "row" \in Steps /\ "webhook" \in Steps
    BY DEF Steps, Items
<1>2. /\ At(p, e, "version")
      /\ Moves(p, e, "webhook")
      /\ UNCHANGED <<row, fired, booked>>
    BY DEF Version, counts, Moves
<1>3. /\ Fresh'
      /\ \A q \in Passes, f \in Entries, st \in Steps :
            /\ At(q, f, st) => q = p
            /\ At(q, f, st)' => q = p
      /\ \A f \in Entries, st \in Steps : f # e => (At(p, f, st)' <=> At(p, f, st))
      /\ \A st \in Steps : At(p, e, st) <=> st = "version"
      /\ \A st \in Steps : At(p, e, st)' <=> st = "webhook"
    BY <1>1, <1>2, ItemAt
<1>4. \A f \in Entries : (Opened(f)' => Opened(f)) /\ (InFlight(f)' => InFlight(f))
  <2> TAKE f \in Entries
  <2>1. /\ Opened(f) <=> (row[f].status = "SCHEDULED" \/ At(p, f, "row"))
        /\ InFlight(f) <=> (At(p, f, "version") \/ At(p, f, "webhook"))
      BY <1>3, ClaimsOfParts
  <2>2. /\ Opened(f)' <=> (row'[f].status = "SCHEDULED" \/ At(p, f, "row")')
        /\ InFlight(f)' <=> (At(p, f, "version")' \/ At(p, f, "webhook")')
      BY <1>3, ClaimsOfPartsNext
  <2>3. CASE f = e
      BY <1>1, <1>2, <1>3, <2>1, <2>2, <2>3
  <2>4. CASE f # e
      BY <1>1, <1>2, <1>3, <2>1, <2>2, <2>4
  <2> QED
      BY <2>3, <2>4
<1>5. \A f \in Entries : booked'[f] >= booked[f]
  <2>1. \A f \in Entries : booked[f] \in Nat
      BY DEF FInv, TypeOK
  <2> QED
      BY <1>2, <2>1
<1> QED
    BY <1>2, <1>3, <1>4, <1>5, ClaimsKept

LEMMA FireClaims ==
    ASSUME FInv, TypeOK', Single, NEW p \in Passes, NEW e \in Entries, Fire(p, e)
    PROVE  Fresh' /\ Claims'
<1>1. "version" \in Steps /\ "done" \in Items /\ "row" \in Steps /\ "webhook" \in Steps
    BY DEF Steps, Items
<1>2. /\ At(p, e, "webhook")
      /\ Moves(p, e, "done")
      /\ fired' = [fired EXCEPT ![e] = @ + 1]
      /\ UNCHANGED <<row, booked>>
    BY DEF Fire, Moves
<1>3. /\ Fresh'
      /\ \A q \in Passes, f \in Entries, st \in Steps :
            /\ At(q, f, st) => q = p
            /\ At(q, f, st)' => q = p
      /\ \A f \in Entries, st \in Steps : f # e => (At(p, f, st)' <=> At(p, f, st))
      /\ \A st \in Steps : At(p, e, st) <=> st = "webhook"
      /\ \A st \in Steps : At(p, e, st)' <=> st = "done"
    BY <1>1, <1>2, ItemAt
<1>4. \A f \in Entries : (Opened(f)' => Opened(f)) /\ (InFlight(f)' => InFlight(f) /\ f # e)
  <2> TAKE f \in Entries
  <2>1. /\ Opened(f) <=> (row[f].status = "SCHEDULED" \/ At(p, f, "row"))
        /\ InFlight(f) <=> (At(p, f, "version") \/ At(p, f, "webhook"))
      BY <1>3, ClaimsOfParts
  <2>2. /\ Opened(f)' <=> (row'[f].status = "SCHEDULED" \/ At(p, f, "row")')
        /\ InFlight(f)' <=> (At(p, f, "version")' \/ At(p, f, "webhook")')
      BY <1>3, ClaimsOfPartsNext
  <2>3. CASE f = e
      BY <1>1, <1>2, <1>3, <2>1, <2>2, <2>3
  <2>4. CASE f # e
      BY <1>1, <1>2, <1>3, <2>1, <2>2, <2>4
  <2> QED
      BY <2>3, <2>4
<1>5. InFlight(e)
    BY <1>2 DEF InFlight
<1>6. /\ UNCHANGED booked /\ fired'[e] = fired[e] + 1
      /\ \A f \in Entries : f # e => fired'[f] = fired[f]
    BY <1>2 DEF FInv, TypeOK
<1>7. ASSUME NEW f \in Entries
      PROVE  /\ fired'[f] <= booked'[f]
             /\ Opened(f)' => fired'[f] + 1 <= booked'[f]
             /\ InFlight(f)' => fired'[f] + 1 <= booked'[f]
             /\ Opened(f)' /\ InFlight(f)' => fired'[f] + 2 <= booked'[f]
  <2>1. booked'[f] = booked[f] /\ (Opened(f)' => Opened(f)) /\ (InFlight(f)' => InFlight(f))
      BY <1>4, <1>6
  <2>2. CASE f = e
    <3>1. fired'[f] = fired[f] + 1 /\ InFlight(f) /\ ~InFlight(f)'
        BY <1>4, <1>5, <1>6, <2>2
    <3> QED
        BY <2>1, <3>1, ClaimsOfEntry
  <2>3. CASE f # e
      BY <1>6, <2>1, <2>3, ClaimsOfEntry
  <2> QED
      BY <2>2, <2>3
<1> QED
    BY <1>3, <1>7 DEF Claims

LEMMA FInvStep == ASSUME FInv, Single, [Next]_vars PROVE FInv'
<1>1. TypeOK'
    BY TypeStep DEF FInv
<1>2. ASSUME NEW e \in Entries, Users(e) \/ DateComes(e) PROVE Fresh' /\ Claims'
    BY <1>1, <1>2, UserClaims, DateClaims
<1>3. ASSUME NEW p \in Passes, Step(p) PROVE Fresh' /\ Claims'
    BY <1>1, <1>3, LockClaims, ReadClaims, FinishClaims, WriteClaims, VersionClaims, FireClaims
    DEF Step, Publishing
<1>4. ASSUME NEW p \in Passes, NEW e \in Entries, WriteFails(p, e) PROVE Fresh' /\ Claims'
    BY <1>1, <1>4, WriteFailsClaims
<1>5. ASSUME NEW i \in Instances, Tick(i) \/ Crash(i) PROVE Fresh' /\ Claims'
    BY <1>1, <1>5, TickClaims, CrashClaims
<1>6. ASSUME UNCHANGED vars PROVE Fresh' /\ Claims'
    BY <1>6 DEF vars, FInv, Fresh, Active, Claims, Opened, InFlight, At
<1>7. Fresh' /\ Claims'
    BY <1>1, <1>2, <1>3, <1>4, <1>5, <1>6, ExpireClaims DEF Next
<1> QED
    BY <1>1, <1>7 DEF FInv

-----------------------------------------------------------------------------
(* How a step may change which passes are past the lease: it brings none     *)
(* there, or one that was granted the lease, or Redis failed.                *)
StageKept == \A p \in Passes : Working(p)' => Working(p)
Granted(p) ==
    /\ Redis => ~lease
    /\ lease' = Redis
    /\ \A q \in Passes : q # p => (Working(q)' => Working(q))


LEMMA LockPassage ==
    ASSUME FInv, NEW p \in Passes, Lock(p)
    PROVE  (StageKept /\ UNCHANGED lease) \/ Granted(p) \/ blind'
<1>1. \A q \in Passes : q # p => pass'[q] = pass[q]
    BY DEF Lock, Over, FInv, TypeOK
<1>2. CASE Over(p) /\ UNCHANGED lease
  <2>1. pass'[p] = Null
      BY <1>2 DEF Over, FInv, TypeOK
  <2> QED
      BY <1>1, <1>2, <2>1 DEF StageKept, Working
<1>3. CASE (Redis => ~lease) /\ lease' = Redis
    BY <1>1, <1>3 DEF Granted, Working
<1> QED
    BY <1>2, <1>3 DEF Lock

LEMMA StepPassage ==
    ASSUME FInv, NEW p \in Passes, Step(p), ~Lock(p)
    PROVE  StageKept /\ UNCHANGED lease
<1>1. CASE Read(p)
  <2>1. \A q \in Passes : q # p => pass'[q] = pass[q]
      BY <1>1, ReadPass DEF FInv
  <2>2. Working(p)
      BY <1>1 DEF Read, Working
  <2> QED
      BY <1>1, <2>1, <2>2 DEF Read, StageKept, Working
<1>2. CASE Finish(p)
  <2>1. pass'[p] = Null /\ \A q \in Passes : q # p => pass'[q] = pass[q]
      BY <1>2 DEF Finish, Over, FInv, TypeOK
  <2> QED
      BY <1>2, <2>1 DEF Finish, StageKept, Working
<1>3. ASSUME NEW e \in Entries, Publishing(p, e) PROVE StageKept /\ UNCHANGED lease
  <2>1. PICK to \in Items : Moves(p, e, to) /\ pass[p] # Null /\ UNCHANGED lease
      BY <1>3 DEF Publishing, Write, Version, Fire, At, Moves, Items
  <2>2. /\ pass'[p] # Null /\ pass'[p].stage = pass[p].stage
        /\ \A q \in Passes : q # p => pass'[q] = pass[q]
      BY <2>1, ItemMoves DEF FInv
  <2> QED
      BY <2>1, <2>2 DEF StageKept, Working
<1> QED
    BY <1>1, <1>2, <1>3 DEF Step

LEMMA Passage ==
    ASSUME FInv, [Next]_vars
    PROVE  \/ StageKept /\ (UNCHANGED lease \/ (Prompt => \A p \in Passes : ~Working(p)))
           \/ \E p \in Passes : Granted(p)
           \/ blind'
<1>1. ASSUME NEW e \in Entries, Users(e) \/ DateComes(e)
      PROVE  StageKept /\ UNCHANGED lease
  <2>1. UNCHANGED <<pass, lease>>
      BY <1>1 DEF Users, Schedule, Withdraw, Edit, PublishNow, Call, DateComes
  <2> QED
      BY <2>1 DEF StageKept, Working
<1>2. ASSUME NEW i \in Instances, Tick(i) PROVE StageKept /\ UNCHANGED lease
  <2>1. PICK p \in Passes :
            pass' = [pass EXCEPT ![p] = [by |-> i, stage |-> "lock", threw |-> FALSE,
                                         item |-> [e \in Entries |-> "none"],
                                         body |-> [e \in Entries |-> 0]]]
      BY <1>2 DEF Tick
  <2>2. pass'[p].stage = "lock" /\ \A q \in Passes : q # p => pass'[q] = pass[q]
      BY <2>1 DEF FInv, TypeOK
  <2> QED
      BY <1>2, <2>2 DEF Tick, StageKept, Working
<1>3. ASSUME NEW i \in Instances, Crash(i) PROVE StageKept /\ UNCHANGED lease
  <2>1. \A p \in Passes : pass'[p] = Null \/ pass'[p] = pass[p]
      BY <1>3 DEF Crash
  <2> QED
      BY <1>3, <2>1 DEF Crash, StageKept, Working
<1>4. ASSUME NEW p \in Passes, Step(p)
      PROVE  (StageKept /\ UNCHANGED lease) \/ Granted(p) \/ blind'
    BY <1>4, LockPassage, StepPassage
<1>5. ASSUME NEW p \in Passes, NEW e \in Entries, WriteFails(p, e)
      PROVE  StageKept /\ UNCHANGED lease
  <2>1. /\ pass[p] # Null /\ pass'[p].stage = pass[p].stage
        /\ \A q \in Passes : q # p => pass'[q] = pass[q]
      BY <1>5, ItemFails DEF FInv
  <2> QED
      BY <1>5, <2>1 DEF WriteFails, StageKept, Working
<1>6. CASE Expire
    BY <1>6 DEF Expire, StageKept, Working
<1>7. CASE UNCHANGED vars
    BY <1>7 DEF vars, StageKept, Working
<1> QED
    BY <1>1, <1>2, <1>3, <1>4, <1>5, <1>6, <1>7 DEF Next

(* Nothing takes back that Redis failed or that a user acted during a pass.  *)
LEMMA UpsetsStay == ASSUME [Next]_vars PROVE (blind => blind') /\ (meddled => meddled')
<1>1. ASSUME NEW e \in Entries, Users(e) \/ DateComes(e)
      PROVE  UNCHANGED blind /\ (meddled => meddled')
  <2>1. CASE DateComes(e)
      BY <2>1 DEF DateComes, bounds, upsets
  <2>2. CASE Users(e)
    <3>1. PICK new : Call(e, new)
        BY <2>2 DEF Users, Schedule, Withdraw, Edit, PublishNow
    <3>2. UNCHANGED blind
        BY <3>1 DEF Call
    <3>3. meddled => meddled'
        BY <3>1, Zenon DEF Call
    <3> QED
        BY <3>2, <3>3
  <2> QED
      BY <1>1, <2>1, <2>2
<1>2. ASSUME NEW i \in Instances, Tick(i) \/ Crash(i) PROVE UNCHANGED upsets
    BY <1>2 DEF Tick, Crash, bounds
<1>3. ASSUME NEW p \in Passes, Lock(p) PROVE (blind => blind') /\ UNCHANGED meddled
    BY <1>3 DEF Lock
<1>4. ASSUME NEW p \in Passes, Read(p) \/ Finish(p) PROVE UNCHANGED upsets
    BY <1>4 DEF Read, Finish, bounds
<1>5. ASSUME NEW p \in Passes, NEW e \in Entries, Publishing(p, e) \/ WriteFails(p, e)
      PROVE  UNCHANGED upsets
    BY <1>5 DEF Publishing, Write, Version, Fire, WriteFails, bounds
<1>6. CASE Expire \/ UNCHANGED vars
    BY <1>6 DEF Expire, vars, bounds, upsets
<1> QED
    BY <1>1, <1>2, <1>3, <1>4, <1>5, <1>6 DEF Next, Step, upsets

(* A lease that outlives its pass keeps every other one out.                 *)
Held == Single /\ \A p \in Passes : Working(p) => lease

LEMMA HeldInit == ASSUME Init PROVE Held
BY DEF Init, Held, Single, Working

LEMMA HeldStep ==
    ASSUME Redis, Prompt, FInv, Held, [Next]_vars, ~blind'
    PROVE  Held'
<1>1. CASE StageKept /\ (UNCHANGED lease \/ \A p \in Passes : ~Working(p))
    BY <1>1 DEF StageKept, Held, Single
<1>2. ASSUME NEW p \in Passes, Granted(p) PROVE Held'
  <2>1. \A q \in Passes : ~Working(q)
      BY <1>2 DEF Granted, Held
  <2>2. lease' = TRUE /\ \A q \in Passes : Working(q)' => q = p
      BY <1>2, <2>1 DEF Granted
  <2> QED
      BY <2>2 DEF Held, Single
<1> QED
    BY <1>1, <1>2, Passage

(* An instance alone starts no pass before the last one is over.             *)
Alone == \A p, q \in Passes : Active(p) /\ Active(q) => p = q

LEMMA AloneSingle == ASSUME Alone PROVE Single
BY DEF Alone, Single, Active, Working

LEMMA AloneStep ==
    ASSUME Prompt, \A i, j \in Instances : i = j, FInv, Alone, [Next]_vars
    PROVE  Alone'
<1>1. CASE \A p \in Passes : Active(p)' => Active(p)
    BY <1>1 DEF Alone
<1>2. ASSUME NEW i \in Instances, Tick(i) PROVE Alone'
  <2>1. \A p \in Passes : ~Active(p)
      BY <1>2 DEF Tick, Active, FInv, TypeOK, PassRecords
  <2>2. PICK p \in Passes : \A q \in Passes : q # p => pass'[q] = pass[q]
      BY <1>2 DEF Tick, FInv, TypeOK
  <2> QED
      BY <2>1, <2>2 DEF Alone, Active
<1>3. ASSUME NEW e \in Entries, Users(e) \/ DateComes(e)
      PROVE  \A p \in Passes : Active(p)' => Active(p)
    BY <1>3 DEF Users, Schedule, Withdraw, Edit, PublishNow, Call, DateComes, Active
<1>4. ASSUME NEW i \in Instances, Crash(i)
      PROVE  \A p \in Passes : Active(p)' => Active(p)
    BY <1>4 DEF Crash, Active
<1>5. ASSUME NEW p \in Passes, Step(p) \/ \E e \in Entries : WriteFails(p, e)
      PROVE  \A q \in Passes : Active(q)' => Active(q)
  <2>1. pass[p] # Null
      BY <1>5 DEF Step, Publishing, Lock, Read, Finish, Write, Version, Fire, WriteFails, At
  <2>2. \A q \in Passes : q # p => pass'[q] = pass[q]
      BY <1>5 DEF Step, Publishing, Lock, Over, Read, Finish, Write, Version, Fire,
                  WriteFails, FInv, TypeOK
  <2> QED
      BY <2>1, <2>2 DEF Active
<1>6. CASE Expire \/ UNCHANGED vars
    BY <1>6 DEF Expire, vars, Alone, Active
<1> QED
    BY <1>1, <1>2, <1>3, <1>4, <1>5, <1>6 DEF Next

LEMMA ClaimsFiredOnce == ASSUME Claims PROVE FiredOnce
BY DEF Claims, FiredOnce

(* Until Redis fails. *)
Guarded == ~blind => FInv /\ Held

LEMMA GuardedStep == ASSUME Redis, Prompt, Guarded, [Next]_vars PROVE Guarded'
BY UpsetsStay, FInvStep, HeldStep DEF Guarded, Held

(* Behind a lease that outlives its pass, a schedule fires its webhook once  *)
(* as long as Redis answers, however many instances there are, whatever      *)
(* users, failures and crashes do meanwhile.                                 *)
THEOREM FiredOnceWithRedis ==
    ASSUME Redis, Prompt
    PROVE  Spec => []FiredOnce
<1>1. Init => Guarded
    BY FInvInit, HeldInit DEF Guarded
<1>2. Guarded => FiredOnce
    BY DEF Guarded, FInv, Claims, FiredOnce
<1> QED
    BY <1>1, <1>2, GuardedStep, PTL DEF Spec

(* So it does where one instance runs alone, without Redis.                  *)
THEOREM FiredOnceAlone ==
    ASSUME Prompt, \A i, j \in Instances : i = j
    PROVE  Spec => []FiredOnce
<1>1. Init => FInv /\ Alone
    BY FInvInit DEF Init, Alone, Active
<1>2. FInv /\ Alone /\ [Next]_vars => (FInv /\ Alone)'
    BY FInvStep, AloneSingle, AloneStep
<1> QED
    BY <1>1, <1>2, ClaimsFiredOnce, PTL DEF Spec, FInv

-----------------------------------------------------------------------------
(* When users leave entries alone during a pass, nothing it has read changes *)
(* before it writes.                                                         *)
LEMMA CurrentKept ==
    ASSUME Current,
           \A p \in Passes, e \in Entries :
               At(p, e, "row")' => /\ At(p, e, "row")
                                   /\ pass'[p].body[e] = pass[p].body[e]
                                   /\ row'[e] = row[e]
    PROVE  Current'
BY DEF Current, Due

LEMMA CurrentInit == ASSUME Init PROVE Current
BY DEF Init, Current, At

LEMMA UserCurrent ==
    ASSUME ~meddled', FInv, Current, NEW e \in Entries, Users(e)
    PROVE  Current'
<1>1. /\ \A p \in Passes : ~Working(p)
      /\ UNCHANGED pass
    BY DEF Users, Schedule, Withdraw, Edit, PublishNow, Call
<1>2. \A p \in Passes, f \in Entries : ~At(p, f, "row")
    BY <1>1, ItemWorks DEF FInv, Steps
<1>3. \A p \in Passes, f \in Entries : ~At(p, f, "row")'
    BY <1>1, <1>2 DEF At
<1> QED
    BY <1>3 DEF Current

LEMMA DateCurrent ==
    ASSUME FInv, Current, NEW e \in Entries, DateComes(e)
    PROVE  Current'
<1>1. UNCHANGED pass /\ \A f \in Entries : f # e => row'[f] = row[f]
    BY DEF DateComes, FInv, TypeOK
<1>2. \A p \in Passes : ~At(p, e, "row")
    BY DEF DateComes, Current, Due
<1>3. \A p \in Passes, f \in Entries : At(p, f, "row")' <=> At(p, f, "row")
    BY <1>1 DEF At
<1> QED
    BY <1>1, <1>2, <1>3, CurrentKept

LEMMA ReadCurrent ==
    ASSUME FInv, Current, NEW p \in Passes, Read(p)
    PROVE  Current'
<1>1. /\ \A e \in Entries : pass'[p].item[e] = IF Due(e) THEN "row" ELSE "none"
      /\ \A e \in Entries : pass'[p].body[e] = row[e].body
      /\ \A q \in Passes : q # p => pass'[q] = pass[q]
    BY ReadPass DEF FInv
<1>2. UNCHANGED row
    BY DEF Read
<1> SUFFICES ASSUME NEW q \in Passes, NEW e \in Entries, At(q, e, "row")'
             PROVE  Due(e) /\ pass'[q].body[e] = row[e].body
    BY <1>2 DEF Current, Due
<1>3. CASE q = p
    BY <1>1, <1>3 DEF At
<1>4. CASE q # p
    BY <1>1, <1>4 DEF At, Current
<1> QED
    BY <1>3, <1>4

LEMMA MoveCurrent ==
    ASSUME FInv, TypeOK', Single, Current, NEW p \in Passes, NEW e \in Entries,
           Publishing(p, e)
    PROVE  Current'
<1>1. PICK from \in Steps, to \in Items \ {"row"} : At(p, e, from) /\ Moves(p, e, to)
    BY DEF Publishing, Write, Version, Fire, Moves, Steps, Items
<1>2. \A f \in Entries : f # e => row'[f] = row[f]
    BY DEF Publishing, Write, Version, Fire, FInv, TypeOK
<1>3. /\ \A q \in Passes, f \in Entries, st \in Steps : At(q, f, st)' => q = p
      /\ \A f \in Entries, st \in Steps : f # e => (At(p, f, st)' <=> At(p, f, st))
      /\ \A st \in Steps : At(p, e, st)' <=> st = to
    BY <1>1, ItemAt
<1>4. pass[p] # Null
    BY <1>1 DEF At
<1>5. pass'[p].body = pass[p].body
    BY <1>1, <1>4, ItemMoves DEF FInv
<1>6. "row" \in Steps
    BY DEF Steps
<1> SUFFICES ASSUME NEW q \in Passes, NEW f \in Entries, At(q, f, "row")'
             PROVE  At(q, f, "row") /\ pass'[q].body[f] = pass[q].body[f] /\ row'[f] = row[f]
    BY CurrentKept
<1>7. q = p /\ f # e
    BY <1>1, <1>3, <1>6
<1> QED
    BY <1>2, <1>3, <1>5, <1>6, <1>7

LEMMA EndCurrent ==
    ASSUME FInv, Current, UNCHANGED row,
           \A p \in Passes : pass'[p] = Null \/ pass'[p] = pass[p]
    PROVE  Current'
BY CurrentKept DEF At

LEMMA TickCurrent ==
    ASSUME FInv, TypeOK', Current, NEW i \in Instances, Tick(i)
    PROVE  Current'
<1>1. PICK p \in Passes :
          pass' = [pass EXCEPT ![p] = [by |-> i, stage |-> "lock", threw |-> FALSE,
                                       item |-> [e \in Entries |-> "none"],
                                       body |-> [e \in Entries |-> 0]]]
    BY DEF Tick
<1>2. \A e \in Entries : ~At(p, e, "row")'
    BY <1>1, NewPass DEF FInv, TypeOK, At
<1>3. UNCHANGED row /\ \A q \in Passes : q # p => pass'[q] = pass[q]
    BY <1>1 DEF Tick, FInv, TypeOK
<1> QED
    BY <1>2, <1>3, CurrentKept DEF At

LEMMA LockCurrent ==
    ASSUME FInv, Current, NEW p \in Passes, Lock(p)
    PROVE  Current'
<1>1. /\ pass[p] \in PassRecords /\ pass[p] # Null /\ pass[p].stage = "lock"
      /\ \A e \in Entries : pass[p].item[e] = "none"
    BY DEF Lock, FInv, TypeOK, Fresh, Active
<1>2. [pass[p] EXCEPT !.stage = "read"].item = pass[p].item
    BY <1>1, Zenon DEF PassRecords
<1>3. /\ UNCHANGED row /\ \A q \in Passes : q # p => pass'[q] = pass[q]
      /\ pass'[p] = Null \/ pass'[p] = [pass[p] EXCEPT !.stage = "read"]
    BY DEF Lock, Over, FInv, TypeOK
<1>4. \A e \in Entries : ~At(p, e, "row")'
    BY <1>1, <1>2, <1>3 DEF At
<1> QED
    BY <1>3, <1>4, CurrentKept DEF At

LEMMA FailCurrent ==
    ASSUME FInv, Current, NEW p \in Passes, NEW e \in Entries, WriteFails(p, e)
    PROVE  Current'
<1>1. /\ pass[p] # Null /\ pass'[p].body = pass[p].body
      /\ pass'[p].item = [pass[p].item EXCEPT ![e] = "done"]
      /\ pass[p].item \in [Entries -> Items]
      /\ \A q \in Passes : q # p => pass'[q] = pass[q]
    BY ItemFails DEF FInv
<1>2. \A f \in Entries : At(p, f, "row")' => At(p, f, "row")
    BY <1>1 DEF At
<1>3. UNCHANGED row
    BY DEF WriteFails
<1> QED
    BY <1>1, <1>2, <1>3, CurrentKept DEF At

LEMMA CurrentStep ==
    ASSUME ~meddled', FInv, Single, Current, [Next]_vars
    PROVE  Current'
<1>1. TypeOK'
    BY TypeStep DEF FInv
<1>2. ASSUME NEW e \in Entries, Users(e) \/ DateComes(e) PROVE Current'
    BY <1>2, UserCurrent, DateCurrent
<1>3. ASSUME NEW i \in Instances, Tick(i) \/ Crash(i) PROVE Current'
  <2>1. CASE Crash(i)
      BY <2>1, EndCurrent DEF Crash
  <2> QED
      BY <1>1, <1>3, <2>1, TickCurrent
<1>4. ASSUME NEW p \in Passes, Step(p) PROVE Current'
  <2>1. CASE Finish(p)
    <3>1. UNCHANGED row /\ \A q \in Passes : pass'[q] = Null \/ pass'[q] = pass[q]
        BY <2>1 DEF Finish, Over, FInv, TypeOK
    <3> QED
        BY <3>1, EndCurrent
  <2> QED
      BY <1>1, <1>4, <2>1, LockCurrent, ReadCurrent, MoveCurrent DEF Step
<1>5. ASSUME NEW p \in Passes, NEW e \in Entries, WriteFails(p, e) PROVE Current'
    BY <1>5, FailCurrent
<1>6. CASE Expire \/ UNCHANGED vars
  <2>1. UNCHANGED <<row, pass>>
      BY <1>6 DEF Expire, vars
  <2> QED
      BY <2>1, EndCurrent
<1> QED
    BY <1>2, <1>3, <1>4, <1>5, <1>6 DEF Next

(* Only Write publishes, and only what its pass still holds at "row".        *)
LEMMA WhatWriteDoes ==
    ASSUME FInv, Current, [Next]_vars, NEW e \in Entries, published'[e] # published[e]
    PROVE  /\ Due(e) /\ row'[e].body = row[e].body
           /\ \A p \in Passes : At(p, e, "row") => pass[p].body[e] = row'[e].body
<1>1. PICK p \in Passes : Write(p, e)
  <2>1. UNCHANGED published \/ \E p \in Passes, f \in Entries : Write(p, f)
      BY DEF Next, vars, Users, Schedule, Withdraw, Edit, PublishNow, Call, DateComes, Tick,
             Crash, Step, Publishing, Lock, Read, Finish, Version, Fire, WriteFails, Expire,
             counts
  <2>2. PICK p \in Passes, f \in Entries : Write(p, f)
      BY <2>1
  <2>3. f = e
      BY <2>2 DEF Write, FInv, TypeOK
  <2> QED
      BY <2>2, <2>3
<1>2. Due(e)
    BY <1>1 DEF Write, Current
<1>3. row'[e].body = row[e].body
  <2>1. row[e] \in Rows
      BY DEF FInv, TypeOK
  <2>2. [row[e] EXCEPT !.status = "PUBLISHED", !.at = "none"].body = row[e].body
      BY <2>1, Zenon DEF Rows
  <2> QED
      BY <1>1, <2>2 DEF Write, FInv, TypeOK
<1> QED
    BY <1>2, <1>3 DEF Current

(* Until Redis fails or a user acts during a pass. *)
Undisturbed == ~blind /\ ~meddled => FInv /\ Held /\ Current

LEMMA UndisturbedInit == ASSUME Init PROVE Undisturbed
BY FInvInit, HeldInit, CurrentInit DEF Undisturbed

LEMMA UndisturbedStep == ASSUME Redis, Prompt, Undisturbed, [Next]_vars PROVE Undisturbed'
BY UpsetsStay, FInvStep, HeldStep, CurrentStep DEF Undisturbed, Held

(* While users leave entries alone during a pass and Redis answers, a lease  *)
(* that outlives its pass lets the scheduler publish an entry only when it   *)
(* is scheduled and due, ...                                                 *)
THEOREM DueOnly ==
    ASSUME Redis, Prompt
    PROVE  Spec => PublishesOnlyDue
<1>1. Undisturbed /\ [Next]_vars =>
        [~blind' /\ ~meddled' =>
            \A e \in Entries : published'[e] # published[e] => Due(e)]_vars
    BY UpsetsStay, WhatWriteDoes DEF Undisturbed
<1> QED
    BY <1>1, UndisturbedInit, UndisturbedStep, PTL DEF Spec, PublishesOnlyDue

(* ... and the body it keeps as the entry's version is the one that went     *)
(* live.                                                                     *)
THEOREM VersionWentLive ==
    ASSUME Redis, Prompt
    PROVE  Spec => VersionIsWhatWentLive
<1>1. Undisturbed /\ [Next]_vars =>
        [~blind' /\ ~meddled' =>
            \A p \in Passes, e \in Entries :
                At(p, e, "row") /\ published'[e] # published[e]
                    => pass[p].body[e] = row'[e].body]_vars
    BY UpsetsStay, WhatWriteDoes DEF Undisturbed
<1> QED
    BY <1>1, UndisturbedInit, UndisturbedStep, PTL DEF Spec, VersionIsWhatWentLive
=============================================================================
