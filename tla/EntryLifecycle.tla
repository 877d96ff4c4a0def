---------------------------- MODULE EntryLifecycle ----------------------------
(***************************************************************************)
(* The life of one content entry: editing in place, the draft-over-        *)
(* published overlay, review and sign-off, publishing, taking offline and  *)
(* restoring a version (content-entries.service.ts).                       *)
(*                                                                         *)
(* Every API call first READS the entry row and decides, on that copy,     *)
(* whether it is allowed and what it will write; the WRITE comes after one *)
(* or more awaits and names the row by its id alone.  The model keeps      *)
(* those as separate steps: a call in flight is a record holding the row   *)
(* it read, and other calls may change the entry before it writes.  A      *)
(* refused call changes nothing, so it never appears as a call in flight.  *)
(***************************************************************************)
EXTENDS Naturals, FiniteSets

CONSTANTS
    Editors,            \* actors whose role grants content.update only
    Publishers,         \* actors whose role also grants content.publish
    Requests,           \* slots for API calls in flight at the same time
    Contents,           \* the bodies an entry may have
    FirstContent,       \* the body the entry was created with
    Patches,            \* the update payloads clients send
    ApprovalsRequired,  \* Workspace.approvalsRequired
    Licensed,           \* is the approval_workflows gate enforced?
    MayCrash,           \* may the API process stop between two steps of a call?
    Null,               \* a column that is NULL, a field that was not sent
    MaxStarts           \* bound: calls started in one behaviour

ASSUME ActorsAssumption == Editors \cap Publishers = {} /\ IsFiniteSet(Publishers)
ASSUME ContentsAssumption == FirstContent \in Contents /\ Null \notin Contents
ASSUME PolicyAssumption ==
    /\ ApprovalsRequired \in Nat \ {0}
    /\ Licensed \in BOOLEAN
    /\ MayCrash \in BOOLEAN
    /\ MaxStarts \in Nat

VARIABLES
    entry,      \* the ContentEntry row
    reviews,    \* ContentReview: each reviewer's decision, or Null
    history,    \* bodies kept as ContentVersion snapshots
    req,        \* the call in each slot, or Null
    now,        \* the clock, ticking when something goes live
    starts,     \* calls started so far
    cycle,      \* history variable: approvals given since the entry last entered review
    leftover,   \* history variable: the call that began this cycle has not come to its end
    signedOff,  \* history variable: overlays approved, as the approving calls read them
    blind       \* history variable: the overlay last approved by a call that read another

ghosts == <<cycle, leftover, signedOff, blind>>
vars == <<entry, reviews, history, req, now, starts, ghosts>>

-----------------------------------------------------------------------------
Status == {"DRAFT", "IN_REVIEW", "APPROVED", "SCHEDULED", "PUBLISHED", "ARCHIVED"}
Editable == Status \ {"PUBLISHED"}
PublishStates == {"APPROVED", "SCHEDULED", "PUBLISHED"}
Decisions == {"APPROVED", "CHANGES_REQUESTED"}

ASSUME NullAssumption == Null \notin Nat \cup Status \cup BOOLEAN

Actors == Editors \cup Publishers
Dates == Nat \cup {Null}

Rows == [status : Status,
         data : Contents,
         draft : Contents \cup {Null},
         approved : BOOLEAN,
         scheduled : BOOLEAN,
         publishedAt : Dates,
         firstPublishedAt : Dates]

(* The step a call takes next; "finish" is what follows its write. *)
Steps == {"stage", "save", "promote", "setStatus", "writeStatus", "fold",
          "approve", "discard", "review", "count", "sendBack", "flip",
          "restoreLive", "restoreDraft", "restoreSave", "finish"}

Calls == [step : Steps,
          by : Actors,
          row : Rows,
          body : Contents \cup {Null},
          to : Status \cup {Null},
          date : BOOLEAN \cup {Null}]

(* An empty slot is not a call. *)
ASSUME SlotsAssumption == Null \notin Calls

(* An update payload: the fields of UpdateEntryDto that were sent. *)
PatchTypes == [body : Contents \cup {Null},
               to : Editable \cup {Null},
               date : BOOLEAN \cup {Null}]

ASSUME PatchesAssumption == Patches \subseteq PatchTypes

Given(x, otherwise) == IF x = Null THEN otherwise ELSE x

GrantsPublish(a) == a \in Publishers

(* The approval gate (assertCanPublish): unlicensed installs never refuse. *)
AssertCanPublish(from, to) ==
    \/ ~Licensed
    \/ to \notin {"PUBLISHED", "SCHEDULED"}
    \/ from \in PublishStates

WorkingCopy(row) == Given(row.draft, row.data)

FirstDate(row) == Given(row.firstPublishedAt, Given(row.publishedAt, now + 1))

(* The columns every way of going live writes; the first date comes from the *)
(* row the call read.                                                        *)
GoLive(e, read) == [e EXCEPT !.status = "PUBLISHED",
                             !.publishedAt = now + 1,
                             !.firstPublishedAt = FirstDate(read),
                             !.scheduled = FALSE]

-----------------------------------------------------------------------------
Init ==
    /\ entry = [status |-> "DRAFT", data |-> FirstContent, draft |-> Null,
                approved |-> FALSE, scheduled |-> FALSE,
                publishedAt |-> Null, firstPublishedAt |-> Null]
    /\ reviews = [p \in Publishers |-> Null]
    /\ history = {FirstContent}
    /\ req = [r \in Requests |-> Null]
    /\ now = 0
    /\ starts = 0
    /\ cycle = {} /\ leftover = FALSE
    /\ signedOff = {} /\ blind = Null

At(r, step) == req[r] # Null /\ req[r].step = step

Begin(r, step, a, body, to, date) ==
    /\ req[r] = Null
    /\ starts < MaxStarts
    /\ starts' = starts + 1
    /\ req' = [req EXCEPT ![r] = [step |-> step, by |-> a, row |-> entry,
                                  body |-> body, to |-> to, date |-> date]]
    /\ UNCHANGED <<entry, reviews, history, now, ghosts>>

Answer(r) == req' = [req EXCEPT ![r] = Null]

Continue(r, step) == req' = [req EXCEPT ![r] = [@ EXCEPT !.step = step]]

(* After the write, the call still has to store this body as a version. *)
Keep(r, body) == req' = [req EXCEPT ![r] = [@ EXCEPT !.step = "finish", !.body = body]]

-----------------------------------------------------------------------------
(* Mutant: an edit of a live entry is saved in place. *)
UpdateMutantInPlace(r) ==
    \E a \in Actors, p \in Patches :
        /\ (p.to # Null /\ p.to # entry.status /\ p.to \in PublishStates) => GrantsPublish(a)
        /\ Begin(r, "save", a, p.body, p.to, p.date)

(* Mutant: the publish right is not asked for. *)
UpdateMutantNoRight(r) ==
    \E a \in Actors, p \in Patches :
        /\ entry.status # "PUBLISHED" /\ AssertCanPublish(entry.status, Given(p.to, "DRAFT"))
        /\ Begin(r, "save", a, p.body, p.to, p.date)

(* PATCH /entries/:id.  A content edit of a live entry is staged, anything   *)
(* else is saved in place; a body equal to what is stored writes nothing.    *)
Update(r) ==
    \E a \in Actors, p \in Patches :
        LET moves == p.to # Null /\ p.to # entry.status
            staged == entry.status = "PUBLISHED" /\ p.body # Null /\ ~moves
        IN  /\ (moves /\ p.to \in PublishStates) => GrantsPublish(a)
            /\ IF staged
               THEN /\ p.body # WorkingCopy(entry)
                    /\ Begin(r, "stage", a, p.body, p.to, p.date)
               ELSE /\ (p.body # Null /\ ~moves /\ p.date = Null) => p.body # entry.data
                    /\ moves => AssertCanPublish(entry.status, p.to)
                    /\ Begin(r, "save", a, p.body, p.to, p.date)

(* Mutant: a fresh edit leaves the approval standing. *)
StageMutant(r) ==
    /\ At(r, "stage")
    /\ entry' = [entry EXCEPT !.draft = req[r].body]
    /\ Keep(r, req[r].body)
    /\ UNCHANGED <<reviews, history, now, starts, ghosts>>

Stage(r) ==
    /\ At(r, "stage")
    /\ entry' = [entry EXCEPT !.draft = req[r].body, !.approved = FALSE]
    /\ Keep(r, req[r].body)
    /\ UNCHANGED <<reviews, history, now, starts, ghosts>>

Save(r) ==
    LET q == req[r]
        saved == Given(q.body, q.row.data)
    IN  /\ At(r, "save")
        /\ entry' = [entry EXCEPT !.status = Given(q.to, @),
                                  !.scheduled = Given(q.date, @),
                                  !.data = Given(q.body, @)]
        /\ Keep(r, saved)
        /\ IF q.to = "IN_REVIEW" /\ entry.status # "IN_REVIEW"
           THEN cycle' = {} /\ leftover' = TRUE
           ELSE UNCHANGED <<cycle, leftover>>
        /\ UNCHANGED <<reviews, history, now, starts, signedOff, blind>>

(* Did this call, as far as it knows, move the entry into review? *)
Submitted(q) == q.to = "IN_REVIEW" /\ q.row.status # "IN_REVIEW"

(* Mutant: sign-offs of an earlier cycle stay. *)
FinishMutant(r) ==
    /\ At(r, "finish")
    /\ leftover' = (leftover /\ ~Submitted(req[r]))
    /\ history' = history \cup {req[r].body}
    /\ Answer(r)
    /\ UNCHANGED <<entry, reviews, now, starts, cycle, signedOff, blind>>

(* What follows the write: sign-offs of an earlier cycle are deleted when    *)
(* the call moved the entry into review, then the version is stored.         *)
Finish(r) ==
    /\ At(r, "finish")
    /\ reviews' = IF Submitted(req[r]) THEN [p \in Publishers |-> Null] ELSE reviews
    /\ leftover' = (leftover /\ ~Submitted(req[r]))
    /\ history' = history \cup {req[r].body}
    /\ Answer(r)
    /\ UNCHANGED <<entry, now, starts, cycle, signedOff, blind>>

(* POST /entries/:id/publish.  Without publish rights only what a reviewer   *)
(* has approved may go out: the approved overlay, or an APPROVED entry.      *)
Publish(r) ==
    \E a \in Actors :
        /\ GrantsPublish(a) \/ (IF entry.draft # Null THEN entry.approved
                                                      ELSE entry.status = "APPROVED")
        /\ Begin(r, IF entry.draft # Null THEN "promote" ELSE "setStatus",
                 a, Null, "PUBLISHED", Null)

(* Mutant: the overlay column as it is at the write is what goes live. *)
PromoteMutantLatest(r) ==
    /\ At(r, "promote")
    /\ entry' = GoLive([entry EXCEPT !.data = WorkingCopy(entry),
                                     !.draft = Null, !.approved = FALSE],
                       req[r].row)
    /\ now' = now + 1
    /\ Keep(r, req[r].row.draft)
    /\ UNCHANGED <<reviews, history, starts, ghosts>>

Promote(r) ==
    /\ At(r, "promote")
    /\ entry' = GoLive([entry EXCEPT !.data = req[r].row.draft,
                                     !.draft = Null, !.approved = FALSE],
                       req[r].row)
    /\ now' = now + 1
    /\ Keep(r, req[r].row.draft)
    /\ UNCHANGED <<reviews, history, starts, ghosts>>

(* setStatus reads the row again; only the licensed gate looks at what it    *)
(* finds, and a refusal ends the call.                                       *)
SetStatus(r) ==
    /\ At(r, "setStatus")
    /\ IF req[r].to # entry.status => AssertCanPublish(entry.status, req[r].to)
       THEN req' = [req EXCEPT ![r] = [@ EXCEPT !.step = "writeStatus", !.row = entry]]
       ELSE Answer(r)
    /\ UNCHANGED <<entry, reviews, history, now, starts, ghosts>>

WriteStatus(r) ==
    LET q == req[r]
    IN  /\ At(r, "writeStatus")
        /\ IF q.to = "PUBLISHED"
           THEN /\ entry' = GoLive(entry, q.row)
                /\ now' = now + 1
           ELSE /\ entry' = [entry EXCEPT !.status = q.to, !.publishedAt = Null]
                /\ UNCHANGED now
        /\ IF q.to # q.row.status THEN Keep(r, q.row.data) ELSE Answer(r)
        /\ UNCHANGED <<reviews, history, starts, ghosts>>

(* POST /entries/:id/unpublish: a pending overlay is folded into the data.   *)
Unpublish(r) ==
    \E a \in Publishers :
        Begin(r, IF entry.draft # Null THEN "fold" ELSE "setStatus",
              a, Null, "DRAFT", Null)

Fold(r) ==
    /\ At(r, "fold")
    /\ entry' = [entry EXCEPT !.data = req[r].row.draft, !.draft = Null,
                              !.approved = FALSE, !.status = "DRAFT",
                              !.publishedAt = Null]
    /\ Keep(r, req[r].row.draft)
    /\ UNCHANGED <<reviews, history, now, starts, ghosts>>

(* POST /entries/:id/approve-draft and /discard-draft. *)
ApproveDraft(r) ==
    \E a \in Publishers :
        entry.draft # Null /\ Begin(r, "approve", a, Null, Null, Null)

Approve(r) ==
    /\ At(r, "approve")
    /\ entry' = [entry EXCEPT !.approved = TRUE]
    /\ Answer(r)
    /\ signedOff' = signedOff \cup {req[r].row.draft}
    /\ blind' = IF entry.draft = req[r].row.draft THEN Null ELSE entry.draft
    /\ UNCHANGED <<reviews, history, now, starts, cycle, leftover>>

DiscardDraft(r) ==
    \E a \in Actors :
        entry.draft # Null /\ Begin(r, "discard", a, Null, Null, Null)

Discard(r) ==
    /\ At(r, "discard")
    /\ entry' = [entry EXCEPT !.draft = Null, !.approved = FALSE]
    /\ Answer(r)
    /\ UNCHANGED <<reviews, history, now, starts, ghosts>>

(* POST /entries/:id/review.  The target is APPROVED for an approval and     *)
(* DRAFT for requested changes.                                              *)
RecordReview(r) ==
    \E a \in Publishers, to \in {"APPROVED", "DRAFT"} :
        Begin(r, "review", a, Null, to, Null)

UpsertReview(r) ==
    LET q == req[r]
    IN  /\ At(r, "review")
        /\ reviews' = [reviews EXCEPT ![q.by] =
                          IF q.to = "APPROVED" THEN "APPROVED" ELSE "CHANGES_REQUESTED"]
        /\ IF q.to = "APPROVED"
           THEN cycle' = cycle \cup {q.by} /\ Continue(r, "count")
           ELSE /\ cycle' = cycle \ {q.by}
                /\ IF q.row.status # "DRAFT" THEN Continue(r, "sendBack") ELSE Answer(r)
        /\ UNCHANGED <<entry, history, now, starts, leftover, signedOff, blind>>

SendBack(r) ==
    /\ At(r, "sendBack")
    /\ entry' = [entry EXCEPT !.status = "DRAFT"]
    /\ Answer(r)
    /\ UNCHANGED <<reviews, history, now, starts, ghosts>>

Approvals == Cardinality({p \in Publishers : reviews[p] = "APPROVED"})

CountReviews(r) ==
    /\ At(r, "count")
    /\ IF req[r].row.status = "IN_REVIEW" /\ Approvals >= ApprovalsRequired
       THEN Continue(r, "flip")
       ELSE Answer(r)
    /\ UNCHANGED <<entry, reviews, history, now, starts, ghosts>>

Flip(r) ==
    /\ At(r, "flip")
    /\ entry' = [entry EXCEPT !.status = "APPROVED"]
    /\ Keep(r, req[r].row.data)
    /\ UNCHANGED <<reviews, history, now, starts, ghosts>>

(* POST /entries/:id/versions/:v/restore. *)
Restore(r) ==
    \E a \in Actors, body \in history, publish \in BOOLEAN :
        /\ publish => GrantsPublish(a)
        /\ Begin(r, IF publish THEN "restoreLive"
                    ELSE IF entry.status = "PUBLISHED" THEN "restoreDraft"
                    ELSE "restoreSave",
                 a, body, Null, Null)

RestoreLive(r) ==
    /\ At(r, "restoreLive")
    /\ entry' = GoLive([entry EXCEPT !.data = req[r].body,
                                     !.draft = Null, !.approved = FALSE],
                       req[r].row)
    /\ now' = now + 1
    /\ Keep(r, req[r].body)
    /\ UNCHANGED <<reviews, history, starts, ghosts>>

RestoreDraft(r) ==
    /\ At(r, "restoreDraft")
    /\ entry' = [entry EXCEPT !.draft = req[r].body, !.approved = FALSE]
    /\ Keep(r, req[r].body)
    /\ UNCHANGED <<reviews, history, now, starts, ghosts>>

RestoreSave(r) ==
    /\ At(r, "restoreSave")
    /\ entry' = [entry EXCEPT !.data = req[r].body, !.status = "DRAFT",
                              !.scheduled = FALSE]
    /\ Keep(r, req[r].body)
    /\ UNCHANGED <<reviews, history, now, starts, ghosts>>

(* The process stops: what the call had not written yet is never written.   *)
Abandon(r) ==
    /\ MayCrash
    /\ req[r] # Null
    /\ Answer(r)
    /\ UNCHANGED <<entry, reviews, history, now, starts, ghosts>>

-----------------------------------------------------------------------------
Starts(r) ==
    \/ Update(r) \/ Publish(r) \/ Unpublish(r) \/ ApproveDraft(r)
    \/ DiscardDraft(r) \/ RecordReview(r) \/ Restore(r)

Writes(r) ==
    \/ Stage(r) \/ Save(r) \/ Promote(r) \/ WriteStatus(r) \/ Fold(r)
    \/ Approve(r) \/ Discard(r) \/ SendBack(r) \/ Flip(r)
    \/ RestoreLive(r) \/ RestoreDraft(r) \/ RestoreSave(r)

Others(r) ==
    \/ SetStatus(r) \/ UpsertReview(r) \/ CountReviews(r) \/ Finish(r) \/ Abandon(r)

Next == \E r \in Requests : Starts(r) \/ Writes(r) \/ Others(r)

Spec == Init /\ [][Next]_vars

-----------------------------------------------------------------------------
(* Type invariant: the row, the reviews and every call in flight hold only   *)
(* values the columns and the handlers' locals can have.                     *)
TypeOK ==
    /\ entry \in Rows
    /\ reviews \in [Publishers -> Decisions \cup {Null}]
    /\ history \subseteq Contents
    /\ req \in [Requests -> Calls \cup {Null}]
    /\ now \in Nat
    /\ starts \in Nat
    /\ cycle \subseteq Publishers
    /\ leftover \in BOOLEAN
    /\ signedOff \subseteq Contents
    /\ blind \in Contents \cup {Null}

(* What a call in flight has established about its caller and the row it     *)
(* read, by the step it takes next.                                          *)
CallOK(q) ==
    /\ q.step \in {"stage", "finish", "restoreLive", "restoreDraft", "restoreSave"}
          => q.body \in Contents
    /\ q.step \in {"promote", "fold", "approve"} => q.row.draft \in Contents
    /\ q.step = "save" =>
          /\ q.to # "PUBLISHED"
          /\ q.body # Null /\ q.row.status = "PUBLISHED" => q.to # Null
    /\ q.step \in {"setStatus", "writeStatus"} => q.to \in {"PUBLISHED", "DRAFT"}
    /\ q.step \in {"review", "count", "sendBack", "flip", "fold", "approve", "restoreLive"}
          => q.by \in Publishers
    /\ q.by \in Editors =>
          /\ q.step = "promote" => q.row.approved
          /\ q.step = "save" /\ q.to \in PublishStates => q.to = q.row.status
          /\ q.step = "writeStatus" /\ q.to = "PUBLISHED" /\ Licensed
                => q.row.status \in PublishStates

(* Every write still to come is justified by the rights of its caller and by *)
(* the row that caller read, whatever happened to the entry since; the save  *)
(* of a call that read a live entry takes it offline or leaves its body.     *)
CallsJustified == \A r \in Requests : req[r] # Null => CallOK(req[r])

Acts(r) == req[r] # Null /\ req'[r] # req[r]
EditorActs(r) == Acts(r) /\ req[r].by \in Editors

(* Has a reviewer let this row go out: its status is past sign-off, or its   *)
(* overlay is approved.                                                      *)
Cleared(row) == row.status \in PublishStates \/ (row.draft # Null /\ row.approved)

(* The body the delivery API serves for a row. *)
Served(row) == IF row.status = "PUBLISHED" THEN row.data ELSE Null

(* While an entry stays live, the body the site serves is changed by         *)
(* promoting its overlay, by restoring and publishing a version, and by      *)
(* nothing else that knows it is live: a save in place reaches it only from  *)
(* a call that read the entry before it went live (update(), draft-over-     *)
(* published).                                                               *)
LiveEditsStaged ==
    [][Served(entry) # Null /\ Served(entry') # Null /\ Served(entry') # Served(entry)
        => \E r \in Requests :
              /\ Acts(r)
              /\ \/ req[r].step \in {"promote", "restoreLive"}
                 \/ req[r].step = "save" /\ req[r].row.status # "PUBLISHED"]_vars

(* With the gate licensed, what the call of an actor without publish rights  *)
(* lifts into a sign-off or live state was cleared when that call last       *)
(* looked, however calls interleave.                                         *)
LiftsWhatItSawCleared ==
    [][\A r \in Requests :
        EditorActs(r) /\ entry'.status # entry.status /\ entry'.status \in PublishStates
            => Cleared(req[r].row)]_vars

(* An editor's promotion puts live exactly the overlay whose approval that   *)
(* same call checked, never a newer one staged in between.                   *)
PromotesWhatItChecked ==
    [][\A r \in Requests :
        EditorActs(r) /\ req[r].step = "promote" /\ entry' # entry
            => req[r].row.approved /\ Served(entry') = req[r].row.draft]_vars

(* An overlay marked approved is one that a reviewer's call had read and     *)
(* approved, the one case aside where the approval was recorded over an      *)
(* overlay staged after that call looked: a fresh edit resets the approval,  *)
(* and no approval outlives its overlay to cover the next.                   *)
ApprovedDraftSignedOff ==
    entry.approved /\ entry.draft # Null => entry.draft \in signedOff \cup {blind}

(* The count that lets a review flip the entry finds enough approvals given  *)
(* since the entry last entered review, unless the call that moved it there  *)
(* has yet to delete the older ones, or stopped before it did.               *)
CycleQuorum ==
    [][\A r \in Requests :
        Acts(r) /\ req[r].step = "count" /\ req'[r] # Null
            => leftover \/ Cardinality(cycle) >= ApprovalsRequired]_vars
=============================================================================
