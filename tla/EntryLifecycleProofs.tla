------------------------- MODULE EntryLifecycleProofs -------------------------
(***************************************************************************)
(* Proofs about EntryLifecycle, for any number of actors, slots and bodies:*)
(* everything here holds however calls overlap and wherever the process    *)
(* stops.                                                                  *)
(***************************************************************************)
EXTENDS EntryLifecycle, FiniteSetTheorems, TLAPS

(* The inductive invariant: types, and what each call in flight established. *)
IInv == TypeOK /\ CallsJustified

(* A body or a column that was not sent falls back to the stored value. *)
LEMMA GivenType ==
    ASSUME NEW S, NEW x \in S \cup {Null}, NEW y \in S
    PROVE  Given(x, y) \in S
BY DEF Given

(* Going live keeps the row well typed. *)
LEMMA GoLiveType ==
    ASSUME NEW e \in Rows, NEW read \in Rows, now \in Nat
    PROVE  /\ GoLive(e, read) \in Rows
           /\ GoLive(e, read).status = "PUBLISHED"
           /\ GoLive(e, read).data = e.data
<1>1. FirstDate(read) \in Dates /\ now + 1 \in Dates
    BY DEF FirstDate, Given, Rows, Dates
<1>2. GoLive(e, read) \in Rows
    BY <1>1, Zenon DEF GoLive, Rows, Status
<1>3. GoLive(e, read).status = "PUBLISHED" /\ GoLive(e, read).data = e.data
    BY Zenon DEF GoLive, Rows
<1> QED
    BY <1>2, <1>3

(* A call that starts holds the row as it is, and nothing else changes. *)
LEMMA BeginStep ==
    ASSUME IInv, NEW r \in Requests, NEW step \in Steps, NEW a \in Actors,
           NEW body \in Contents \cup {Null}, NEW to \in Status \cup {Null},
           NEW date \in BOOLEAN \cup {Null},
           Begin(r, step, a, body, to, date),
           CallOK([step |-> step, by |-> a, row |-> entry,
                   body |-> body, to |-> to, date |-> date])
    PROVE  IInv'
<1> DEFINE q == [step |-> step, by |-> a, row |-> entry,
                 body |-> body, to |-> to, date |-> date]
<1>1. q \in Calls
    BY DEF Calls, IInv, TypeOK
<1>2. req' = [req EXCEPT ![r] = q]
    BY DEF Begin
<1> HIDE DEF q
<1>3. req' \in [Requests -> Calls \cup {Null}]
    BY <1>1, <1>2 DEF IInv, TypeOK
<1>4. TypeOK'
    BY <1>3 DEF Begin, ghosts, IInv, TypeOK
<1>5. ASSUME NEW s \in Requests, req'[s] # Null
      PROVE  CallOK(req'[s])
    <2>1. CASE s = r
        BY <2>1, <1>2, <1>5 DEF q, IInv, TypeOK
    <2>2. CASE s # r
        BY <2>2, <1>2, <1>5 DEF IInv, TypeOK, CallsJustified
    <2> QED
        BY <2>1, <2>2
<1> QED
    BY <1>4, <1>5 DEF IInv, CallsJustified, CallOK

(* The three ways a call moves on keep every call in flight justified. *)
LEMMA AnswerStep ==
    ASSUME IInv, NEW r \in Requests, Answer(r)
    PROVE  req' \in [Requests -> Calls \cup {Null}] /\ CallsJustified'
BY DEF IInv, TypeOK, CallsJustified, Answer, CallOK

LEMMA KeepStep ==
    ASSUME IInv, NEW r \in Requests, req[r] # Null,
           NEW body \in Contents, Keep(r, body)
    PROVE  req' \in [Requests -> Calls \cup {Null}] /\ CallsJustified'
<1> DEFINE q == [req[r] EXCEPT !.step = "finish", !.body = body]
<1>1. req[r] \in Calls
    BY DEF IInv, TypeOK
<1>2. q \in Calls /\ q.step = "finish" /\ q.body = body
    BY <1>1, Zenon DEF Calls, Steps
<1>3. req' = [req EXCEPT ![r] = q]
    BY DEF Keep
<1> HIDE DEF q
<1>4. CallOK(q)
    BY <1>2 DEF CallOK
<1> QED
    BY <1>2, <1>3, <1>4 DEF IInv, TypeOK, CallsJustified, CallOK

LEMMA ContinueStep ==
    ASSUME IInv, NEW r \in Requests, req[r] # Null, NEW step \in Steps,
           Continue(r, step), CallOK([req[r] EXCEPT !.step = step])
    PROVE  req' \in [Requests -> Calls \cup {Null}] /\ CallsJustified'
<1> DEFINE q == [req[r] EXCEPT !.step = step]
<1>1. req[r] \in Calls
    BY DEF IInv, TypeOK
<1>2. q \in Calls
    BY <1>1, Zenon DEF Calls
<1>3. req' = [req EXCEPT ![r] = q]
    BY DEF Continue
<1> HIDE DEF q
<1> QED
    BY <1>2, <1>3 DEF q, IInv, TypeOK, CallsJustified, CallOK

(* What is known of the call in a slot whose step is due. *)
LEMMA CallDue ==
    ASSUME IInv, NEW r \in Requests, req[r] # Null
    PROVE  req[r] \in Calls /\ CallOK(req[r])
BY DEF IInv, TypeOK, CallsJustified

(* The history variables have their types. *)
GhostsOK ==
    /\ cycle \subseteq Publishers
    /\ leftover \in BOOLEAN
    /\ signedOff \subseteq Contents
    /\ blind \in Contents \cup {Null}

LEMMA GhostsKept ==
    ASSUME IInv, UNCHANGED ghosts
    PROVE  GhostsOK'
BY DEF IInv, TypeOK, GhostsOK, ghosts
-----------------------------------------------------------------------------
(* Every call that starts is justified by the row it just read. *)
LEMMA StartsStep ==
    ASSUME IInv, NEW r \in Requests, Starts(r)
    PROVE  IInv'
<1>1. ASSUME Update(r) PROVE IInv'
    <2>1. PICK a \in Actors, p \in Patches :
              LET moves == p.to # Null /\ p.to # entry.status
                  staged == entry.status = "PUBLISHED" /\ p.body # Null /\ ~moves
              IN  /\ (moves /\ p.to \in PublishStates) => GrantsPublish(a)
                  /\ IF staged
                     THEN Begin(r, "stage", a, p.body, p.to, p.date)
                     ELSE Begin(r, "save", a, p.body, p.to, p.date)
        BY <1>1 DEF Update
    <2>2. /\ p.body \in Contents \cup {Null}
          /\ p.to \in Status \cup {Null}
          /\ p.date \in BOOLEAN \cup {Null}
        BY PatchesAssumption DEF PatchTypes, Editable
    <2>6. p.to # "PUBLISHED"
        BY PatchesAssumption, NullAssumption DEF PatchTypes, Editable, Status
    <2>3. CASE p.body # Null /\ Begin(r, "stage", a, p.body, p.to, p.date)
        BY <2>2, <2>3, BeginStep DEF CallOK, Steps
    <2>4. CASE /\ Begin(r, "save", a, p.body, p.to, p.date)
               /\ p.to \in PublishStates /\ p.to # entry.status => a \in Publishers
               /\ p.body # Null /\ entry.status = "PUBLISHED" => p.to # Null
        <3>1. PublishStates \subseteq Status /\ (a \in Editors => a \notin Publishers)
            BY ActorsAssumption DEF PublishStates, Status
        <3>2. CallOK([step |-> "save", by |-> a, row |-> entry,
                      body |-> p.body, to |-> p.to, date |-> p.date])
            BY <2>4, <2>6, <3>1 DEF CallOK
        <3> QED
            BY <2>2, <2>4, <3>2, BeginStep DEF Steps
    <2>5. p.to \in PublishStates => p.to # Null
        BY NullAssumption DEF PublishStates, Status
    <2> QED
        BY <2>1, <2>3, <2>4, <2>5 DEF GrantsPublish
<1>2. ASSUME Publish(r) PROVE IInv'
    <2>1. PICK a \in Actors :
              /\ GrantsPublish(a) \/ (IF entry.draft # Null THEN entry.approved
                                                            ELSE entry.status = "APPROVED")
              /\ Begin(r, IF entry.draft # Null THEN "promote" ELSE "setStatus",
                       a, Null, "PUBLISHED", Null)
        BY <1>2 DEF Publish
    <2>2. entry.draft \in Contents \cup {Null}
        BY DEF IInv, TypeOK, Rows
    <2>3. CASE entry.draft # Null
        <3>1. CallOK([step |-> "promote", by |-> a, row |-> entry,
                      body |-> Null, to |-> "PUBLISHED", date |-> Null])
            BY <2>1, <2>2, <2>3, ActorsAssumption DEF CallOK, GrantsPublish
        <3> QED
            BY <2>1, <2>3, <3>1, BeginStep DEF Steps, Status
    <2>4. CASE entry.draft = Null
        BY <2>1, <2>4, BeginStep DEF CallOK, Steps, Status
    <2> QED
        BY <2>3, <2>4
<1>3. ASSUME Unpublish(r) PROVE IInv'
    <2>1. PICK a \in Publishers :
              Begin(r, IF entry.draft # Null THEN "fold" ELSE "setStatus",
                    a, Null, "DRAFT", Null)
        BY <1>3 DEF Unpublish
    <2>2. entry.draft \in Contents \cup {Null} /\ a \in Actors /\ a \notin Editors
        BY ActorsAssumption DEF IInv, TypeOK, Rows, Actors
    <2>3. CASE entry.draft # Null
        BY <2>1, <2>2, <2>3, BeginStep DEF CallOK, Steps, Status
    <2>4. CASE entry.draft = Null
        BY <2>1, <2>2, <2>4, BeginStep DEF CallOK, Steps, Status
    <2> QED
        BY <2>3, <2>4
<1>4. ASSUME ApproveDraft(r) PROVE IInv'
    <2>1. PICK a \in Publishers :
              entry.draft # Null /\ Begin(r, "approve", a, Null, Null, Null)
        BY <1>4 DEF ApproveDraft
    <2>2. entry.draft \in Contents /\ a \in Actors /\ a \notin Editors
        BY <2>1, ActorsAssumption DEF IInv, TypeOK, Rows, Actors
    <2> QED
        BY <2>1, <2>2, BeginStep DEF CallOK, Steps
<1>5. ASSUME DiscardDraft(r) PROVE IInv'
    BY <1>5, BeginStep DEF DiscardDraft, CallOK, Steps
<1>6. ASSUME RecordReview(r) PROVE IInv'
    <2>1. PICK a \in Publishers, to \in {"APPROVED", "DRAFT"} :
              Begin(r, "review", a, Null, to, Null)
        BY <1>6 DEF RecordReview
    <2>2. a \in Actors /\ a \notin Editors /\ to \in Status
        BY ActorsAssumption DEF Actors, Status
    <2> QED
        BY <2>1, <2>2, BeginStep DEF CallOK, Steps
<1>7. ASSUME Restore(r) PROVE IInv'
    <2>1. PICK a \in Actors, body \in history, publish \in BOOLEAN :
              /\ publish => GrantsPublish(a)
              /\ Begin(r, IF publish THEN "restoreLive"
                          ELSE IF entry.status = "PUBLISHED" THEN "restoreDraft"
                          ELSE "restoreSave",
                       a, body, Null, Null)
        BY <1>7 DEF Restore
    <2>2. body \in Contents
        BY DEF IInv, TypeOK
    <2>3. CASE publish
        BY <2>1, <2>2, <2>3, BeginStep DEF CallOK, Steps, GrantsPublish
    <2>4. CASE ~publish /\ entry.status = "PUBLISHED"
        BY <2>1, <2>2, <2>4, BeginStep DEF CallOK, Steps
    <2>5. CASE ~publish /\ entry.status # "PUBLISHED"
        BY <2>1, <2>2, <2>5, BeginStep DEF CallOK, Steps
    <2> QED
        BY <2>3, <2>4, <2>5
<1> QED
    BY <1>1, <1>2, <1>3, <1>4, <1>5, <1>6, <1>7 DEF Starts
-----------------------------------------------------------------------------
(* Every write leaves a well-typed row and only justified calls. *)
LEMMA WritesStep ==
    ASSUME IInv, NEW r \in Requests, Writes(r)
    PROVE  IInv'
<1>0. /\ entry \in Rows /\ now \in Nat /\ starts \in Nat
      /\ reviews \in [Publishers -> Decisions \cup {Null}]
      /\ history \subseteq Contents /\ GhostsOK
    BY DEF IInv, TypeOK, GhostsOK
<1>t. ASSUME entry' \in Rows, now' \in Nat, GhostsOK',
             req' \in [Requests -> Calls \cup {Null}] /\ CallsJustified',
             UNCHANGED <<reviews, history, starts>>
      PROVE  IInv'
    BY <1>0, <1>t DEF IInv, TypeOK, GhostsOK
<1>c. ASSUME req[r] # Null
      PROVE  /\ req[r] \in Calls /\ CallOK(req[r])
             /\ req[r].row \in Rows
             /\ req[r].body \in Contents \cup {Null}
             /\ req[r].to \in Status \cup {Null}
             /\ req[r].date \in BOOLEAN \cup {Null}
             /\ req[r].row.data \in Contents
    BY <1>c, CallDue DEF Calls, Rows
<1>1. ASSUME Stage(r) PROVE IInv'
    <2>1. req[r].body \in Contents
        BY <1>1, <1>c DEF Stage, At, CallOK
    <2>2. entry' \in Rows
        BY <1>0, <1>1, <2>1, Zenon DEF Stage, Rows
    <2> QED
        BY <1>0, <1>1, <1>t, <2>1, <2>2, KeepStep, GhostsKept DEF Stage, At
<1>2. ASSUME Save(r) PROVE IInv'
    <2>1. req[r] # Null
        BY <1>2 DEF Save, At
    <2> DEFINE saved == Given(req[r].body, req[r].row.data)
               status == Given(req[r].to, entry.status)
               scheduled == Given(req[r].date, entry.scheduled)
               data == Given(req[r].body, entry.data)
    <2>2. saved \in Contents
        BY <1>c, <2>1, GivenType
    <2>3. status \in Status
        BY <1>0, <1>c, <2>1, GivenType DEF Rows
    <2>4. scheduled \in BOOLEAN
        <3>1. entry.scheduled \in BOOLEAN
            BY <1>0 DEF Rows
        <3> QED
            BY <1>c, <2>1, <3>1, GivenType
    <2>5. data \in Contents
        BY <1>0, <1>c, <2>1, GivenType DEF Rows
    <2>6. entry' = [entry EXCEPT !.status = status, !.scheduled = scheduled, !.data = data]
        BY <1>2 DEF Save
    <2>7. Keep(r, saved) /\ UNCHANGED <<reviews, history, now, starts>>
        BY <1>2 DEF Save
    <2>8. GhostsOK'
        BY <1>0, <1>2 DEF Save, GhostsOK
    <2> HIDE DEF saved, status, scheduled, data
    <2>10. entry' \in Rows
        BY <1>0, <2>3, <2>4, <2>5, <2>6, Zenon DEF Rows
    <2> QED
        BY <1>0, <1>t, <2>1, <2>2, <2>7, <2>8, <2>10, KeepStep
<1>3. ASSUME Promote(r) PROVE IInv'
    <2>1. req[r] # Null /\ req[r].row.draft \in Contents
        BY <1>3, <1>c DEF Promote, At, CallOK
    <2> DEFINE e == [entry EXCEPT !.data = req[r].row.draft,
                                  !.draft = Null, !.approved = FALSE]
    <2>2. e \in Rows
        BY <1>0, <2>1, Zenon DEF Rows
    <2>3. entry' = GoLive(e, req[r].row)
        BY <1>3 DEF Promote
    <2> HIDE DEF e
    <2>4. entry' \in Rows
        BY <1>0, <1>c, <2>1, <2>2, <2>3, GoLiveType
    <2> QED
        BY <1>0, <1>3, <1>t, <2>1, <2>4, KeepStep, GhostsKept DEF Promote
<1>4. ASSUME WriteStatus(r) PROVE IInv'
    <2>1. req[r] # Null /\ req[r].to \in {"PUBLISHED", "DRAFT"}
        BY <1>4, <1>c DEF WriteStatus, At, CallOK
    <2>2. req' \in [Requests -> Calls \cup {Null}] /\ CallsJustified'
        BY <1>4, <1>c, <2>1, KeepStep, AnswerStep DEF WriteStatus
    <2>3. CASE req[r].to = "PUBLISHED"
        <3>1. entry' \in Rows
            BY <1>0, <1>4, <1>c, <2>1, <2>3, GoLiveType DEF WriteStatus
        <3> QED
            BY <1>0, <1>4, <1>t, <2>2, <2>3, <3>1, GhostsKept DEF WriteStatus
    <2>4. CASE req[r].to # "PUBLISHED"
        <3>1. entry' = [entry EXCEPT !.status = req[r].to, !.publishedAt = Null]
            BY <1>4, <2>4 DEF WriteStatus
        <3>2. req[r].to \in Status
            BY <2>1 DEF Status
        <3>3. entry' \in Rows
            BY <1>0, <3>1, <3>2, Zenon DEF Rows, Dates
        <3> QED
            BY <1>0, <1>4, <1>t, <2>2, <2>4, <3>3, GhostsKept DEF WriteStatus
    <2> QED
        BY <2>3, <2>4
<1>5. ASSUME Fold(r) PROVE IInv'
    <2>1. req[r] # Null /\ req[r].row.draft \in Contents
        BY <1>5, <1>c DEF Fold, At, CallOK
    <2>2. entry' \in Rows
        BY <1>0, <1>5, <2>1, Zenon DEF Fold, Rows, Dates, Status
    <2> QED
        BY <1>0, <1>5, <1>t, <2>1, <2>2, KeepStep, GhostsKept DEF Fold
<1>6. ASSUME Approve(r) PROVE IInv'
    <2>1. req[r] # Null /\ req[r].row.draft \in Contents
        BY <1>6, <1>c DEF Approve, At, CallOK
    <2>2. entry' \in Rows
        BY <1>0, <1>6, Zenon DEF Approve, Rows
    <2>3. GhostsOK'
        BY <1>0, <1>6, <2>1 DEF Approve, GhostsOK, Rows
    <2> QED
        BY <1>0, <1>6, <1>t, <2>2, <2>3, AnswerStep DEF Approve
<1>7. ASSUME Discard(r) PROVE IInv'
    <2>1. entry' \in Rows
        BY <1>0, <1>7, Zenon DEF Discard, Rows
    <2> QED
        BY <1>0, <1>7, <1>t, <2>1, AnswerStep, GhostsKept DEF Discard
<1>8. ASSUME SendBack(r) PROVE IInv'
    <2>1. entry' \in Rows
        BY <1>0, <1>8, Zenon DEF SendBack, Rows, Status
    <2> QED
        BY <1>0, <1>8, <1>t, <2>1, AnswerStep, GhostsKept DEF SendBack
<1>9. ASSUME Flip(r) PROVE IInv'
    <2>1. req[r] # Null /\ req[r].row.data \in Contents
        BY <1>9, <1>c DEF Flip, At
    <2>2. entry' \in Rows
        BY <1>0, <1>9, Zenon DEF Flip, Rows, Status
    <2> QED
        BY <1>0, <1>9, <1>t, <2>1, <2>2, KeepStep, GhostsKept DEF Flip
<1>10. ASSUME RestoreLive(r) PROVE IInv'
    <2>1. req[r] # Null /\ req[r].body \in Contents
        BY <1>10, <1>c DEF RestoreLive, At, CallOK
    <2> DEFINE e == [entry EXCEPT !.data = req[r].body,
                                  !.draft = Null, !.approved = FALSE]
    <2>2. e \in Rows
        BY <1>0, <2>1, Zenon DEF Rows
    <2>3. entry' = GoLive(e, req[r].row)
        BY <1>10 DEF RestoreLive
    <2> HIDE DEF e
    <2>4. entry' \in Rows
        BY <1>0, <1>c, <2>1, <2>2, <2>3, GoLiveType
    <2> QED
        BY <1>0, <1>10, <1>t, <2>1, <2>4, KeepStep, GhostsKept DEF RestoreLive
<1>11. ASSUME RestoreDraft(r) PROVE IInv'
    <2>1. req[r] # Null /\ req[r].body \in Contents
        BY <1>11, <1>c DEF RestoreDraft, At, CallOK
    <2>2. entry' \in Rows
        BY <1>0, <1>11, <2>1, Zenon DEF RestoreDraft, Rows
    <2> QED
        BY <1>0, <1>11, <1>t, <2>1, <2>2, KeepStep, GhostsKept DEF RestoreDraft
<1>12. ASSUME RestoreSave(r) PROVE IInv'
    <2>1. req[r] # Null /\ req[r].body \in Contents
        BY <1>12, <1>c DEF RestoreSave, At, CallOK
    <2>2. entry' \in Rows
        BY <1>0, <1>12, <2>1, Zenon DEF RestoreSave, Rows, Status
    <2> QED
        BY <1>0, <1>12, <1>t, <2>1, <2>2, KeepStep, GhostsKept DEF RestoreSave
<1> QED
    BY <1>1, <1>2, <1>3, <1>4, <1>5, <1>6, <1>7, <1>8, <1>9, <1>10, <1>11, <1>12 DEF Writes
-----------------------------------------------------------------------------
(* The steps that touch no row but the reviews, the versions or the call. *)
LEMMA OthersStep ==
    ASSUME IInv, NEW r \in Requests, Others(r)
    PROVE  IInv'
<1>0. /\ entry \in Rows /\ now \in Nat /\ starts \in Nat
      /\ reviews \in [Publishers -> Decisions \cup {Null}]
      /\ history \subseteq Contents /\ GhostsOK
    BY DEF IInv, TypeOK, GhostsOK
<1>t. ASSUME reviews' \in [Publishers -> Decisions \cup {Null}],
             history' \subseteq Contents, GhostsOK',
             req' \in [Requests -> Calls \cup {Null}] /\ CallsJustified',
             UNCHANGED <<entry, now, starts>>
      PROVE  IInv'
    BY <1>0, <1>t DEF IInv, TypeOK, GhostsOK
<1>1. ASSUME SetStatus(r) PROVE IInv'
    <2>1. req[r] # Null /\ req[r].step = "setStatus" /\ req[r] \in Calls /\ CallOK(req[r])
        BY <1>1, CallDue DEF SetStatus, At
    <2>2. CASE Answer(r)
        BY <1>0, <1>1, <1>t, <2>2, AnswerStep, GhostsKept DEF SetStatus
    <2>3. CASE /\ req[r].to # entry.status => AssertCanPublish(entry.status, req[r].to)
               /\ req' = [req EXCEPT ![r] = [@ EXCEPT !.step = "writeStatus", !.row = entry]]
        <3> DEFINE q == [req[r] EXCEPT !.step = "writeStatus", !.row = entry]
        <3>1. q \in Calls
            BY <1>0, <2>1, Zenon DEF Calls, Steps
        <3>2. /\ q.step = "writeStatus" /\ q.row = entry
              /\ q.to = req[r].to /\ q.by = req[r].by
            BY <2>1, Zenon DEF Calls
        <3>3. req' = [req EXCEPT ![r] = q]
            BY <2>3
        <3> HIDE DEF q
        <3>4. q.to = "PUBLISHED" /\ Licensed => q.row.status \in PublishStates
            BY <2>3, <3>2 DEF AssertCanPublish, PublishStates
        <3>5. CallOK(q)
            BY <2>1, <3>2, <3>4 DEF CallOK
        <3>6. req' \in [Requests -> Calls \cup {Null}] /\ CallsJustified'
            BY <3>1, <3>3, <3>5 DEF IInv, TypeOK, CallsJustified, CallOK
        <3> QED
            BY <1>0, <1>1, <1>t, <3>6, GhostsKept DEF SetStatus
    <2> QED
        BY <1>1, <2>2, <2>3 DEF SetStatus
<1>2. ASSUME UpsertReview(r) PROVE IInv'
    <2>1. /\ req[r] # Null /\ req[r].step = "review"
          /\ req[r] \in Calls /\ req[r].by \in Publishers /\ req[r].by \notin Editors
        BY <1>2, CallDue, ActorsAssumption DEF UpsertReview, At, CallOK
    <2>2. reviews' \in [Publishers -> Decisions \cup {Null}]
        BY <1>0, <1>2 DEF UpsertReview, Decisions
    <2>3. GhostsOK'
        BY <1>0, <1>2, <2>1 DEF UpsertReview, GhostsOK
    <2>4. ASSUME NEW step \in {"count", "sendBack"}
          PROVE  CallOK([req[r] EXCEPT !.step = step])
        <3> DEFINE q == [req[r] EXCEPT !.step = step]
        <3>1. q.step = step /\ q.by = req[r].by
            BY <2>1, Zenon DEF Calls
        <3> HIDE DEF q
        <3>2. CallOK(q)
            BY <2>1, <2>4, <3>1 DEF CallOK
        <3> QED
            BY <3>2 DEF q
    <2>5. req' \in [Requests -> Calls \cup {Null}] /\ CallsJustified'
        <3>1. CASE Continue(r, "count")
            BY <2>1, <2>4, <3>1, ContinueStep DEF Steps
        <3>2. CASE Continue(r, "sendBack")
            BY <2>1, <2>4, <3>2, ContinueStep DEF Steps
        <3>3. CASE Answer(r)
            BY <3>3, AnswerStep
        <3> QED
            BY <1>2, <3>1, <3>2, <3>3 DEF UpsertReview
    <2> QED
        BY <1>0, <1>2, <1>t, <2>2, <2>3, <2>5 DEF UpsertReview
<1>3. ASSUME CountReviews(r) PROVE IInv'
    <2>1. /\ req[r] # Null /\ req[r].step = "count"
          /\ req[r] \in Calls /\ req[r].by \in Publishers /\ req[r].by \notin Editors
        BY <1>3, CallDue, ActorsAssumption DEF CountReviews, At, CallOK
    <2> DEFINE q == [req[r] EXCEPT !.step = "flip"]
    <2>2. q.step = "flip" /\ q.by = req[r].by
        BY <2>1, Zenon DEF Calls
    <2> HIDE DEF q
    <2>3. CallOK(q)
        BY <2>1, <2>2 DEF CallOK
    <2>4. CASE Continue(r, "flip")
        BY <1>0, <1>3, <1>t, <2>1, <2>3, <2>4, ContinueStep, GhostsKept DEF q, CountReviews, Steps
    <2>5. CASE Answer(r)
        BY <1>0, <1>3, <1>t, <2>5, AnswerStep, GhostsKept DEF CountReviews
    <2> QED
        BY <1>3, <2>4, <2>5 DEF CountReviews
<1>4. ASSUME Finish(r) PROVE IInv'
    <2>1. req[r].body \in Contents
        BY <1>4, CallDue DEF Finish, At, CallOK
    <2>2. reviews' \in [Publishers -> Decisions \cup {Null}]
        BY <1>0, <1>4 DEF Finish
    <2>3. GhostsOK'
        BY <1>0, <1>4 DEF Finish, GhostsOK
    <2> QED
        BY <1>0, <1>4, <1>t, <2>1, <2>2, <2>3, AnswerStep DEF Finish
<1>5. ASSUME Abandon(r) PROVE IInv'
    BY <1>0, <1>5, <1>t, AnswerStep, GhostsKept DEF Abandon
<1> QED
    BY <1>1, <1>2, <1>3, <1>4, <1>5 DEF Others

LEMMA InitIInv == Init => IInv
<1> SUFFICES ASSUME Init PROVE IInv
    OBVIOUS
<1>1. entry \in Rows
    BY ContentsAssumption DEF Init, Rows, Status, Dates
<1> QED
    BY <1>1, ContentsAssumption DEF Init, IInv, TypeOK, CallsJustified

LEMMA NextIInv == IInv /\ [Next]_vars => IInv'
<1> SUFFICES ASSUME IInv, [Next]_vars PROVE IInv'
    OBVIOUS
<1>1. CASE Next
    BY <1>1, StartsStep, WritesStep, OthersStep DEF Next
<1>2. CASE UNCHANGED vars
    BY <1>2 DEF vars, ghosts, IInv, TypeOK, CallsJustified
<1> QED
    BY <1>1, <1>2

(* For any actors, bodies, payloads and number of overlapping calls, the row, *)
(* the reviews and the calls in flight are always well typed.                 *)
THEOREM TypeCorrect == Spec => []TypeOK
<1>1. IInv => TypeOK
    BY DEF IInv
<1> QED
    BY <1>1, InitIInv, NextIInv, PTL DEF Spec

(* Every write still to come is justified by the rights of its caller and by  *)
(* the row that caller read: publish rights, approval of the overlay, sign-   *)
(* off status.                                                                *)
THEOREM CallsAlwaysJustified == Spec => []CallsJustified
<1>1. IInv => CallsJustified
    BY DEF IInv
<1> QED
    BY <1>1, InitIInv, NextIInv, PTL DEF Spec
-----------------------------------------------------------------------------
(* A step of one slot leaves the calls in the other slots alone. *)
LEMMA OneCallActs ==
    ASSUME IInv, NEW r \in Requests, Starts(r) \/ Writes(r) \/ Others(r),
           NEW s \in Requests, s # r
    PROVE  req'[s] = req[s]
<1>1. ASSUME NEW q, req' = [req EXCEPT ![r] = q] PROVE req'[s] = req[s]
    BY <1>1 DEF IInv, TypeOK
<1>2. CASE Starts(r)
    BY <1>1, <1>2 DEF Starts, Update, Publish, Unpublish, ApproveDraft,
                      DiscardDraft, RecordReview, Restore, Begin
<1>3. CASE Writes(r)
    BY <1>1, <1>3 DEF Writes, Stage, Save, Promote, WriteStatus, Fold, Approve, Discard,
                      SendBack, Flip, RestoreLive, RestoreDraft, RestoreSave, Keep, Answer
<1>4. CASE Others(r)
    BY <1>1, <1>4 DEF Others, SetStatus, UpsertReview, CountReviews, Finish, Abandon,
                      Continue, Answer
<1> QED
    BY <1>2, <1>3, <1>4

(* Only writes change the row. *)
LEMMA OnlyWritesChangeTheRow ==
    ASSUME NEW r \in Requests, Starts(r) \/ Others(r)
    PROVE  entry' = entry
BY DEF Starts, Update, Publish, Unpublish, ApproveDraft, DiscardDraft, RecordReview,
       Restore, Begin, Others, SetStatus, UpsertReview, CountReviews, Finish, Abandon

(* What an editor's write establishes: it lifts the row only if the row it    *)
(* read was cleared, and it promotes only the approved overlay it read.       *)
LEMMA EditorWrite ==
    ASSUME IInv, Licensed, NEW r \in Requests, Writes(r), req[r].by \in Editors,
           entry'.status # entry.status, entry'.status \in PublishStates
    PROVE  Cleared(req[r].row)
<1>0. entry \in Rows /\ now \in Nat
    BY DEF IInv, TypeOK
<1>c. ASSUME req[r] # Null
      PROVE  req[r] \in Calls /\ CallOK(req[r]) /\ req[r].by \notin Publishers
    BY <1>c, CallDue, ActorsAssumption
<1>1. ASSUME Stage(r) \/ Discard(r) \/ Approve(r) \/ RestoreDraft(r) PROVE FALSE
    <2>1. entry'.status = entry.status
        BY <1>0, <1>1 DEF Stage, Discard, Approve, RestoreDraft, Rows
    <2> QED
        BY <2>1
<1>2. ASSUME Fold(r) \/ SendBack(r) \/ RestoreSave(r) PROVE FALSE
    <2>1. entry'.status = "DRAFT"
        BY <1>0, <1>2 DEF Fold, SendBack, RestoreSave, Rows
    <2> QED
        BY <2>1 DEF PublishStates
<1>3. ASSUME Flip(r) \/ RestoreLive(r) PROVE FALSE
    BY <1>c, <1>3 DEF Flip, RestoreLive, At, CallOK
<1>4. ASSUME Save(r) PROVE Cleared(req[r].row)
    <2>1. entry'.status = Given(req[r].to, entry.status)
        BY <1>0, <1>4, Zenon DEF Save, Rows
    <2>2. entry'.status = req[r].to
        BY <2>1 DEF Given
    <2>3. req[r] # Null /\ req[r].step = "save"
        BY <1>4 DEF Save, At
    <2> QED
        BY <1>c, <2>2, <2>3 DEF CallOK, Cleared
<1>5. ASSUME Promote(r) PROVE Cleared(req[r].row)
    BY <1>c, <1>5, ContentsAssumption DEF Promote, At, CallOK, Cleared
<1>6. ASSUME WriteStatus(r) PROVE Cleared(req[r].row)
    <2>1. req[r] # Null /\ req[r].step = "writeStatus"
        BY <1>6 DEF WriteStatus, At
    <2>2. CASE req[r].to = "PUBLISHED"
        BY <1>c, <2>1, <2>2 DEF CallOK, Cleared
    <2>3. CASE req[r].to = "DRAFT"
        <3>1. entry'.status = "DRAFT"
            BY <1>0, <1>6, <2>3 DEF WriteStatus, Rows
        <3> QED
            BY <3>1 DEF PublishStates
    <2> QED
        BY <1>c, <2>1, <2>2, <2>3 DEF CallOK
<1> QED
    BY <1>1, <1>2, <1>3, <1>4, <1>5, <1>6 DEF Writes

(* With the approval gate licensed, an actor without publish rights lifts an  *)
(* entry into a sign-off or live state only if the row its call read last was *)
(* cleared, for any number of overlapping calls and any crash.                *)
THEOREM LiftsOnlyWhatItSawCleared ==
    ASSUME Licensed
    PROVE  Spec => LiftsWhatItSawCleared
<1> DEFINE Lift(r) == EditorActs(r) /\ entry'.status # entry.status
                      /\ entry'.status \in PublishStates => Cleared(req[r].row)
<1>1. ASSUME IInv, [Next]_vars PROVE [\A r \in Requests : Lift(r)]_vars
    <2> SUFFICES ASSUME NEW s \in Requests, Next, EditorActs(s),
                        entry'.status # entry.status, entry'.status \in PublishStates
                 PROVE  Cleared(req[s].row)
        BY <1>1
    <2>1. PICK r \in Requests : Starts(r) \/ Writes(r) \/ Others(r)
        BY DEF Next
    <2>2. s = r
        BY <1>1, <2>1, OneCallActs DEF EditorActs, Acts
    <2>3. Writes(r)
        BY <2>1, OnlyWritesChangeTheRow
    <2> QED
        BY <1>1, <2>2, <2>3, EditorWrite DEF EditorActs
<1> QED
    BY <1>1, InitIInv, NextIInv, PTL DEF Spec, LiftsWhatItSawCleared

(* An editor's promotion puts live exactly the overlay whose approval the     *)
(* same call checked, for any number of overlapping calls and any crash.      *)
THEOREM PromotesOnlyWhatItChecked == Spec => PromotesWhatItChecked
<1> DEFINE Good(r) == EditorActs(r) /\ req[r].step = "promote" /\ entry' # entry
                      => req[r].row.approved /\ Served(entry') = req[r].row.draft
<1>1. ASSUME IInv, [Next]_vars PROVE [\A r \in Requests : Good(r)]_vars
    <2> SUFFICES ASSUME NEW s \in Requests, Next, EditorActs(s),
                        req[s].step = "promote", entry' # entry
                 PROVE  req[s].row.approved /\ Served(entry') = req[s].row.draft
        BY <1>1
    <2>1. PICK r \in Requests : Starts(r) \/ Writes(r) \/ Others(r)
        BY DEF Next
    <2>2. s = r
        BY <1>1, <2>1, OneCallActs DEF EditorActs, Acts
    <2>3. Promote(r)
        BY <2>1, <2>2, OnlyWritesChangeTheRow
           DEF Writes, Stage, Save, WriteStatus, Fold, Approve, Discard, SendBack, Flip,
               RestoreLive, RestoreDraft, RestoreSave, At
    <2>4. /\ req[r] \in Calls /\ CallOK(req[r])
          /\ entry \in Rows /\ now \in Nat
        BY <1>1, <2>2, CallDue DEF EditorActs, Acts, IInv, TypeOK
    <2>5. req[r].row.draft \in Contents /\ req[r].row.approved
        BY <2>2, <2>4 DEF CallOK, EditorActs
    <2> DEFINE e == [entry EXCEPT !.data = req[r].row.draft,
                                  !.draft = Null, !.approved = FALSE]
    <2>6. e \in Rows /\ e.data = req[r].row.draft
        BY <2>4, <2>5, Zenon DEF Rows
    <2>7. entry' = GoLive(e, req[r].row)
        BY <2>3 DEF Promote
    <2> HIDE DEF e
    <2>8. Served(entry') = req[r].row.draft
        BY <2>4, <2>6, <2>7, GoLiveType DEF Calls, Served
    <2> QED
        BY <2>2, <2>5, <2>8
<1> QED
    BY <1>1, InitIInv, NextIInv, PTL DEF Spec, PromotesWhatItChecked
-----------------------------------------------------------------------------
(* The row of the call that acts, and what is known of that call. *)
LEMMA Acting ==
    ASSUME IInv, NEW r \in Requests
    PROVE  /\ entry \in Rows
           /\ req[r] # Null => req[r] \in Calls /\ CallOK(req[r])
BY CallDue DEF IInv, TypeOK

(* A call that ends, or goes on to another step, is not what it was. *)
LEMMA SlotMoves ==
    ASSUME IInv, NEW r \in Requests, req[r] # Null,
           NEW body \in Contents, Keep(r, body), req[r].step # "finish"
    PROVE  Acts(r)
<1>1. req[r] \in Calls /\ req \in [Requests -> Calls \cup {Null}]
    BY DEF IInv, TypeOK
<1>2. req'[r] = [req[r] EXCEPT !.step = "finish", !.body = body]
    BY <1>1 DEF Keep
<1>3. req'[r].step = "finish"
    BY <1>1, <1>2, Zenon DEF Calls
<1> QED
    BY <1>3 DEF Acts

(* A write that leaves a live entry live and serves another body is the      *)
(* promotion of its overlay, a restore that publishes, or the save of a call *)
(* that read the entry while it was not live.                                *)
LEMMA LiveWrite ==
    ASSUME IInv, NEW r \in Requests, Writes(r),
           Served(entry) # Null, Served(entry') # Null, Served(entry') # Served(entry)
    PROVE  /\ Acts(r)
           /\ \/ req[r].step \in {"promote", "restoreLive"}
              \/ req[r].step = "save" /\ req[r].row.status # "PUBLISHED"
<1>0. /\ entry \in Rows
      /\ req[r] # Null => req[r] \in Calls /\ CallOK(req[r])
    BY Acting
<1>1. entry.status = "PUBLISHED" /\ entry'.status = "PUBLISHED" /\ entry'.data # entry.data
    BY DEF Served
<1>2. ASSUME Stage(r) \/ Approve(r) \/ Discard(r) \/ RestoreDraft(r) \/ WriteStatus(r)
      PROVE  FALSE
    <2>1. entry'.data = entry.data
        BY <1>0, <1>2, Zenon
           DEF Stage, Approve, Discard, RestoreDraft, WriteStatus, GoLive, Rows
    <2> QED
        BY <1>1, <2>1
<1>3. ASSUME Fold(r) \/ SendBack(r) \/ Flip(r) \/ RestoreSave(r) PROVE FALSE
    <2>1. entry'.status = "DRAFT" \/ entry'.status = "APPROVED"
        BY <1>0, <1>3, Zenon DEF Fold, SendBack, Flip, RestoreSave, Rows
    <2> QED
        BY <1>1, <2>1
<1>4. ASSUME Save(r)
      PROVE  Acts(r) /\ req[r].step = "save" /\ req[r].row.status # "PUBLISHED"
    <2>1. req[r] # Null /\ req[r].step = "save"
        BY <1>4 DEF Save, At
    <2>2. /\ entry'.status = Given(req[r].to, entry.status)
          /\ entry'.data = Given(req[r].body, entry.data)
        BY <1>0, <1>4, Zenon DEF Save, Rows
    <2>3. req[r].body # Null
        BY <1>1, <2>2 DEF Given
    <2>4. req[r].to = Null
        BY <1>0, <1>1, <2>1, <2>2 DEF CallOK, Given
    <2>5. req[r].row.status # "PUBLISHED"
        BY <1>0, <2>1, <2>3, <2>4 DEF CallOK
    <2>6. PICK body \in Contents : Keep(r, body)
        BY <1>0, <1>4, <2>1, GivenType DEF Save, Calls, Rows
    <2> QED
        BY <2>1, <2>5, <2>6, SlotMoves
<1>5. ASSUME Promote(r) \/ RestoreLive(r)
      PROVE  Acts(r) /\ req[r].step \in {"promote", "restoreLive"}
    <2>1. req[r] # Null /\ req[r].step \in {"promote", "restoreLive"}
        BY <1>5 DEF Promote, RestoreLive, At
    <2>2. PICK body \in Contents : Keep(r, body)
        BY <1>0, <1>5, <2>1 DEF Promote, RestoreLive, At, CallOK
    <2> QED
        BY <2>1, <2>2, SlotMoves
<1> QED
    BY <1>2, <1>3, <1>4, <1>5 DEF Writes

(* While an entry stays live, the body the site serves changes only by        *)
(* promoting its overlay, by a restore that publishes, or by the save of a    *)
(* call that read the entry before it went live, for any number of            *)
(* overlapping calls and any crash.                                           *)
THEOREM EditsOfALiveEntryAreStaged == Spec => LiveEditsStaged
<1> DEFINE Staged == Served(entry) # Null /\ Served(entry') # Null
                     /\ Served(entry') # Served(entry)
                     => \E r \in Requests :
                          /\ Acts(r)
                          /\ \/ req[r].step \in {"promote", "restoreLive"}
                             \/ req[r].step = "save" /\ req[r].row.status # "PUBLISHED"
<1>1. ASSUME IInv, [Next]_vars PROVE [Staged]_vars
    <2> SUFFICES ASSUME Next, Served(entry) # Null, Served(entry') # Null,
                        Served(entry') # Served(entry)
                 PROVE  \E r \in Requests :
                          /\ Acts(r)
                          /\ \/ req[r].step \in {"promote", "restoreLive"}
                             \/ req[r].step = "save" /\ req[r].row.status # "PUBLISHED"
        BY <1>1
    <2>1. PICK r \in Requests : Starts(r) \/ Writes(r) \/ Others(r)
        BY DEF Next
    <2>2. Writes(r)
        BY <2>1, OnlyWritesChangeTheRow
    <2> QED
        BY <1>1, <2>2, LiveWrite
<1> QED
    BY <1>1, InitIInv, NextIInv, PTL DEF Spec, LiveEditsStaged
-----------------------------------------------------------------------------
(* The approvals on file. *)
Approved == {p \in Publishers : reviews[p] = "APPROVED"}

(* Once the call that began the cycle has come to its end, the approvals on  *)
(* file were all given in it.                                                *)
Counted == ~leftover => Approved \subseteq cycle

EInv == IInv /\ ApprovedDraftSignedOff /\ Counted

(* An approval is of the overlay the call read, or the overlay it was        *)
(* recorded over is the blind one; every other write that changes the        *)
(* overlay takes the approval away.                                          *)
LEMMA NextDraftSignedOff ==
    ASSUME IInv, ApprovedDraftSignedOff, NEW r \in Requests,
           Starts(r) \/ Writes(r) \/ Others(r)
    PROVE  ApprovedDraftSignedOff'
<1>0. /\ entry \in Rows
      /\ req[r] # Null => req[r] \in Calls /\ CallOK(req[r])
    BY Acting
<1>1. ASSUME entry'.approved = FALSE PROVE ApprovedDraftSignedOff'
    BY <1>1 DEF ApprovedDraftSignedOff
<1>2. ASSUME entry'.approved = entry.approved, entry'.draft = entry.draft,
             UNCHANGED <<signedOff, blind>>
      PROVE  ApprovedDraftSignedOff'
    BY <1>2 DEF ApprovedDraftSignedOff
<1>3. ASSUME Starts(r) \/ Others(r) PROVE ApprovedDraftSignedOff'
    <2>1. UNCHANGED <<signedOff, blind>>
        BY <1>3 DEF Starts, Update, Publish, Unpublish, ApproveDraft, DiscardDraft,
                    RecordReview, Restore, Begin, Others, SetStatus, UpsertReview,
                    CountReviews, Finish, Abandon, ghosts
    <2> QED
        BY <1>2, <1>3, <2>1, OnlyWritesChangeTheRow
<1>4. ASSUME Stage(r) \/ RestoreDraft(r) \/ Discard(r) \/ Fold(r)
      PROVE  ApprovedDraftSignedOff'
    <2>1. entry'.approved = FALSE
        BY <1>0, <1>4, Zenon DEF Stage, RestoreDraft, Discard, Fold, Rows
    <2> QED
        BY <1>1, <2>1
<1>5. ASSUME Promote(r) \/ RestoreLive(r) PROVE ApprovedDraftSignedOff'
    <2>1. entry'.approved = FALSE
        BY <1>0, <1>5, Zenon DEF Promote, RestoreLive, GoLive, Rows
    <2> QED
        BY <1>1, <2>1
<1>6. ASSUME Save(r) \/ SendBack(r) \/ Flip(r) \/ RestoreSave(r) \/ WriteStatus(r)
      PROVE  ApprovedDraftSignedOff'
    <2>1. entry'.approved = entry.approved /\ entry'.draft = entry.draft
        BY <1>0, <1>6, Zenon DEF Save, SendBack, Flip, RestoreSave, WriteStatus, GoLive, Rows
    <2>2. UNCHANGED <<signedOff, blind>>
        BY <1>6 DEF Save, SendBack, Flip, RestoreSave, WriteStatus, ghosts
    <2> QED
        BY <1>2, <2>1, <2>2
<1>7. ASSUME Approve(r) PROVE ApprovedDraftSignedOff'
    <2>1. entry'.draft = entry.draft
        BY <1>0, <1>7, Zenon DEF Approve, Rows
    <2>2. entry.draft \in signedOff' \cup {blind'}
        BY <1>7 DEF Approve
    <2> QED
        BY <2>1, <2>2 DEF ApprovedDraftSignedOff
<1> QED
    BY <1>3, <1>4, <1>5, <1>6, <1>7 DEF Writes

(* A review changes the approvals and the cycle alike, and the reset that    *)
(* ends a move into review leaves no approval on file.                       *)
LEMMA NextCounted ==
    ASSUME IInv, Counted, NEW r \in Requests, Starts(r) \/ Writes(r) \/ Others(r)
    PROVE  Counted'
<1>0. /\ reviews \in [Publishers -> Decisions \cup {Null}]
      /\ req[r] # Null => req[r] \in Calls /\ CallOK(req[r])
    BY Acting DEF IInv, TypeOK
<1>1. ASSUME UNCHANGED <<reviews, cycle, leftover>> PROVE Counted'
    BY <1>1 DEF Counted, Approved
<1>2. ASSUME Starts(r) \/ SetStatus(r) \/ CountReviews(r) \/ Abandon(r) PROVE Counted'
    BY <1>1, <1>2 DEF Starts, Update, Publish, Unpublish, ApproveDraft, DiscardDraft,
                      RecordReview, Restore, Begin, SetStatus, CountReviews, Abandon, ghosts
<1>3. ASSUME Writes(r), ~Save(r) PROVE Counted'
    BY <1>1, <1>3 DEF Writes, Stage, Promote, WriteStatus, Fold, Approve, Discard, SendBack,
                      Flip, RestoreLive, RestoreDraft, RestoreSave, ghosts
<1>4. ASSUME Save(r) PROVE Counted'
    <2>1. reviews' = reviews /\ (leftover' = TRUE \/ UNCHANGED <<cycle, leftover>>)
        BY <1>4 DEF Save
    <2> QED
        BY <1>1, <2>1 DEF Counted
<1>5. ASSUME Finish(r) PROVE Counted'
    <2>1. CASE Submitted(req[r])
        <3>1. Approved' = {}
            BY <1>5, <2>1, NullAssumption DEF Finish, Approved, Status
        <3> QED
            BY <3>1 DEF Counted
    <2>2. CASE ~Submitted(req[r])
        <3>1. reviews' = reviews /\ cycle' = cycle /\ leftover' = leftover
            BY <1>5, <2>2 DEF Finish, IInv, TypeOK
        <3> QED
            BY <1>1, <3>1
    <2> QED
        BY <2>1, <2>2
<1>6. ASSUME UpsertReview(r) PROVE Counted'
    <2> DEFINE decision == IF req[r].to = "APPROVED" THEN "APPROVED" ELSE "CHANGES_REQUESTED"
    <2>1. /\ req[r] # Null /\ req[r].step = "review"
          /\ reviews' = [reviews EXCEPT ![req[r].by] = decision]
          /\ leftover' = leftover
        BY <1>6 DEF UpsertReview, At
    <2>2. req[r].by \in Publishers
        BY <1>0, <2>1 DEF CallOK
    <2>3. /\ req[r].to = "APPROVED" => cycle' = cycle \cup {req[r].by}
          /\ req[r].to # "APPROVED" => cycle' = cycle \ {req[r].by}
        BY <1>6 DEF UpsertReview
    <2>4. \A p \in Publishers : reviews'[p] = IF p = req[r].by THEN decision ELSE reviews[p]
        BY <1>0, <2>1
    <2>5. ASSUME ~leftover PROVE Approved' \subseteq cycle'
        <3>1. Approved \subseteq cycle
            BY <2>5 DEF Counted
        <3> QED
            BY <2>2, <2>3, <2>4, <3>1 DEF Approved
    <2> QED
        BY <2>1, <2>5 DEF Counted
<1> QED
    BY <1>2, <1>3, <1>4, <1>5, <1>6 DEF Others

LEMMA InitEInv == Init => EInv
<1> SUFFICES ASSUME Init PROVE EInv
    OBVIOUS
<1>1. Approved = {}
    BY NullAssumption DEF Init, Approved, Status
<1>2. ApprovedDraftSignedOff /\ Counted
    BY <1>1 DEF Init, ApprovedDraftSignedOff, Counted
<1> QED
    BY <1>2, InitIInv DEF EInv

LEMMA NextEInv == EInv /\ [Next]_vars => EInv'
<1> SUFFICES ASSUME EInv, [Next]_vars PROVE EInv'
    OBVIOUS
<1>1. IInv'
    BY NextIInv DEF EInv
<1>2. CASE Next
    BY <1>1, <1>2, NextDraftSignedOff, NextCounted DEF Next, EInv
<1>3. CASE UNCHANGED vars
    BY <1>1, <1>3 DEF vars, ghosts, EInv, ApprovedDraftSignedOff, Counted, Approved
<1> QED
    BY <1>2, <1>3

(* An overlay marked approved is one a reviewer's call had read and approved, *)
(* or the one a stale approval was recorded over, however calls overlap and   *)
(* wherever the process stops.                                                *)
THEOREM ApprovalsAreSignOffs == Spec => []ApprovedDraftSignedOff
<1>1. EInv => ApprovedDraftSignedOff
    BY DEF EInv
<1> QED
    BY <1>1, InitEInv, NextEInv, PTL DEF Spec

(* However calls overlap, the count that lets a review flip the entry finds   *)
(* enough approvals of the current cycle, unless the call that began it has   *)
(* not come to its end and the older ones are still on file.                  *)
THEOREM FlipsOnCurrentApprovals == Spec => CycleQuorum
<1> DEFINE Quorate(r) == Acts(r) /\ req[r].step = "count" /\ req'[r] # Null
                         => leftover \/ Cardinality(cycle) >= ApprovalsRequired
<1>1. ASSUME EInv, [Next]_vars PROVE [\A r \in Requests : Quorate(r)]_vars
    <2> SUFFICES ASSUME NEW s \in Requests, Next, Acts(s), req[s].step = "count",
                        req'[s] # Null, ~leftover
                 PROVE  Cardinality(cycle) >= ApprovalsRequired
        BY <1>1
    <2>1. PICK r \in Requests : Starts(r) \/ Writes(r) \/ Others(r)
        BY DEF Next
    <2>2. s = r
        BY <1>1, <2>1, OneCallActs DEF EInv, Acts
    <2>3. req[r] # Null /\ req[r].step = "count" /\ req'[r] # Null
        BY <2>2 DEF Acts
    <2>4. ~Answer(r)
        BY <1>1, <2>3 DEF Answer, EInv, IInv, TypeOK
    <2>5. CountReviews(r)
        BY <2>1, <2>3, <2>4 DEF Starts, Update, Publish, Unpublish, ApproveDraft, DiscardDraft,
              RecordReview, Restore, Begin, Writes, Stage, Save, Promote, WriteStatus, Fold,
              Approve, Discard, SendBack, Flip, RestoreLive, RestoreDraft, RestoreSave,
              Others, SetStatus, UpsertReview, Finish, Abandon, At
    <2>6. Cardinality(Approved) >= ApprovalsRequired
        BY <2>4, <2>5 DEF CountReviews, Approvals, Approved
    <2>7. Approved \subseteq cycle /\ cycle \subseteq Publishers
        BY <1>1 DEF EInv, Counted, IInv, TypeOK
    <2>8. IsFiniteSet(cycle)
        BY <2>7, ActorsAssumption, FS_Subset
    <2>9. /\ Cardinality(Approved) <= Cardinality(cycle)
          /\ Cardinality(Approved) \in Nat /\ Cardinality(cycle) \in Nat
        BY <2>7, <2>8, FS_Subset, FS_CardinalityType
    <2> QED
        BY <2>6, <2>9, PolicyAssumption
<1> QED
    BY <1>1, InitEInv, NextEInv, PTL DEF Spec, CycleQuorum

=============================================================================
