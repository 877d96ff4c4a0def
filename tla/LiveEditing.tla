----------------------------- MODULE LiveEditing -----------------------------
(***************************************************************************)
(* The studio's editor tab and its preview tab on one existing entry       *)
(* (EditorPage, PreviewClient, previewSync).  Typing arms a 1.5 s timer    *)
(* whose autosave sends the whole entry; the toolbar sends the same save,  *)
(* alone or followed by approve or publish.  The preview may be edited in  *)
(* place and saved; both tabs mirror unsaved edits over a channel.  What   *)
(* an entry holds is the set of the edits it contains, so a save that      *)
(* overwrites another shows.                                               *)
(***************************************************************************)
EXTENDS Naturals, Sequences

CONSTANTS
    Slots,          \* handlers under way at a time (a bound)
    MaxEdits,       \* bound: edits made
    MaxClicks,      \* bound: toolbar buttons pressed
    Null

ASSUME BoundsAssumption == {MaxEdits, MaxClicks} \subseteq Nat

VARIABLES
    doc,        \* what the editor's canvas and fields hold
    save,       \* saveState, as shown in the toolbar
    timer,      \* is the autosave timer armed?
    shown,      \* the status, hasDraft and draftApproved the toolbar goes by
    call,       \* the handler in each slot, or Null
    row,        \* the entry on the server
    preview,    \* what the preview tab holds, or Null while it is closed
    editing,    \* is the preview being edited in place?
    dirty,      \* does the preview hold in-place edits it has not saved?
    toEditor, toPreview,    \* the channel, each way
    made,       \* edits made so far
    clicks,
    failed,     \* the request that failed, or Null (bound: one failure)
    thrown,     \* history variable: edits the user has discarded
    hurried,    \* history variable: did the user not wait for one tab to
                \* settle before using a button or the other tab?
    slow,       \* history variable: did the autosave timer run out before a
                \* request of the editor was answered?
    missed,     \* history variable: did the preview finish loading without
                \* the editor's text, and with no message to bring it?
    overtook    \* history variable: was such a preview edited in place?

vars == <<doc, save, timer, shown, call, row, preview, editing, dirty,
          toEditor, toPreview, made, clicks, failed, thrown, hurried, slow,
          missed, overtook>>
tabs == <<preview, editing, dirty, toEditor, toPreview>>
canvas == <<doc, save, timer, shown>>
lapses == <<missed, overtook>>
past == <<made, clicks, failed, thrown, hurried, slow>>
history == <<past, lapses>>

-----------------------------------------------------------------------------
(* The requests each handler sends, one after the other.                     *)
Script == [autosave |-> <<"patch">>, save |-> <<"patch">>, open |-> <<"patch", "get">>,
           approve |-> <<"patch", "approve">>, publish |-> <<"patch", "publish">>,
           publishChanges |-> <<"publish">>, unpublish |-> <<"unpublish">>,
           discard |-> <<"discard", "get">>, reload |-> <<"get">>,
           inPlace |-> <<"patch">>, revert |-> <<"get">>]
Kinds == DOMAIN Script
Requests == {"patch", "approve", "publish", "unpublish", "discard", "get"}

(* Handlers that show "saving" while they run.                               *)
ShowSaving == {"autosave", "save", "approve", "publish", "publishChanges"}

Contents == SUBSET (1..MaxEdits)
Rows == [status : {"DRAFT", "PUBLISHED"}, data : Contents,
         draft : {Null} \cup Contents, approved : BOOLEAN]
Calls == [kind : Kinds, step : 1..2, body : Contents,
          at : {"sent", "answered", "failed"}, reply : {Null} \cup Rows]
Messages == [kind : {"draft"}, body : Contents] \cup [kind : {"hello", "saved"}]

ASSUME NullAssumption ==
    Null \notin Rows \cup Calls \cup Requests /\ \A c \in Contents : c # Null

Working(r) == IF r.draft = Null THEN r.data ELSE r.draft

Asks(c) == Script[c.kind][c.step]
Busy(kinds) == \E s \in Slots : call[s] # Null /\ call[s].kind \in kinds
(* The preview's own loads: as it opens, and when edits are dropped there.    *)
Loads(c) == c.kind = "revert" \/ (c.kind = "open" /\ c.step = 2)
Loading == \E s \in Slots : call[s] # Null /\ Loads(call[s])
Idle == \A s \in Slots : call[s] = Null
Quiet == toEditor = <<>> /\ toPreview = <<>>

Init ==
    /\ \E status \in {"DRAFT", "PUBLISHED"} :
          /\ row = [status |-> status, data |-> {}, draft |-> Null, approved |-> FALSE]
          /\ shown = [status |-> status, hasDraft |-> FALSE, approved |-> FALSE]
    /\ doc = {}
    /\ save = "saved"
    /\ timer = FALSE
    /\ call = [s \in Slots |-> Null]
    /\ preview = Null
    /\ editing = FALSE
    /\ dirty = FALSE
    /\ toEditor = <<>>
    /\ toPreview = <<>>
    /\ made = {}
    /\ clicks = 0
    /\ failed = Null
    /\ thrown = {}
    /\ hurried = FALSE
    /\ slow = FALSE
    /\ missed = FALSE
    /\ overtook = FALSE

-----------------------------------------------------------------------------
(* The server.  A save of a live page goes to the overlay and takes its      *)
(* approval away, unless it changes nothing.                                 *)
PatchedMutant(r, body) ==
    IF r.status = "PUBLISHED" THEN [r EXCEPT !.draft = body, !.approved = FALSE]
    ELSE [r EXCEPT !.data = body]

Patched(r, body) ==
    IF body = Working(r) THEN r
    ELSE IF r.status = "PUBLISHED" THEN [r EXCEPT !.draft = body, !.approved = FALSE]
    ELSE [r EXCEPT !.data = body]

Settled(r, status) == [status |-> status, data |-> Working(r), draft |-> Null, approved |-> FALSE]

Handled(r, request, body) ==
    CASE request = "patch" -> Patched(r, body)
      [] request = "approve" -> [r EXCEPT !.approved = TRUE]
      [] request = "publish" -> Settled(r, "PUBLISHED")
      [] request = "unpublish" -> Settled(r, "DRAFT")
      [] request = "discard" -> [r EXCEPT !.draft = Null, !.approved = FALSE]
      [] request = "get" -> r

Serve(s) ==
    /\ call[s] # Null
    /\ call[s].at = "sent"
    /\ ~(Asks(call[s]) = "approve" /\ row.draft = Null)
    /\ row' = Handled(row, Asks(call[s]), call[s].body)
    /\ call' = [call EXCEPT ![s] = [@ EXCEPT !.at = "answered", !.reply = row']]
    /\ UNCHANGED <<canvas, tabs, history>>

(* A request fails, or is refused: there is no overlay to approve.           *)
Refuse(s) ==
    /\ call[s] # Null
    /\ call[s].at = "sent"
    /\ \/ /\ Asks(call[s]) = "approve" /\ row.draft = Null
          /\ UNCHANGED failed
       \/ /\ failed = Null
          /\ failed' = Asks(call[s])
    /\ call' = [call EXCEPT ![s].at = "failed"]
    /\ UNCHANGED <<canvas, row, tabs, made, clicks, thrown, hurried, slow, lapses>>

-----------------------------------------------------------------------------
(* A user's step, taken when the tabs have settled or in a hurry; a hurried  *)
(* step is the last of a run (a bound).                                      *)
Waits(settled) == ~hurried /\ hurried' = ~settled

(* A handler starts with what its tab holds at that moment.                  *)
Starts(s, kind, body) ==
    /\ call[s] = Null
    /\ call' = [call EXCEPT ![s] = [kind |-> kind, step |-> 1, body |-> body,
                                   at |-> "sent", reply |-> Null]]

(* The buttons the toolbar offers.                                           *)
Offered(kind) ==
    CASE kind = "save" -> save = "dirty"
      [] kind = "open" -> preview = Null /\ ~Busy({"open"})
      [] kind = "approve" -> shown.status = "PUBLISHED" /\ shown.hasDraft /\ ~shown.approved /\ save # "saving"
      [] kind = "publishChanges" -> shown.status = "PUBLISHED" /\ shown.hasDraft /\ shown.approved /\ save # "saving"
      [] kind = "discard" -> shown.status = "PUBLISHED" /\ shown.hasDraft
      [] kind = "unpublish" -> shown.status = "PUBLISHED" /\ ~shown.hasDraft
      [] kind = "publish" -> shown.status = "DRAFT"
      [] OTHER -> FALSE

Click(s, kind) ==
    /\ clicks < MaxClicks
    /\ Waits(Idle /\ Quiet /\ ~editing)
    /\ Offered(kind)
    /\ Starts(s, kind, doc)
    /\ clicks' = clicks + 1
    /\ save' = IF kind \in ShowSaving THEN "saving" ELSE save
    /\ thrown' = IF kind = "discard" THEN thrown \cup (made \ row.data) ELSE thrown
    /\ UNCHANGED <<doc, timer, shown, row, tabs, made, failed, slow, lapses>>

(* bump(), and bumpRemote() for edits that come from the preview.            *)
BumpMutant(content) ==
    /\ doc' = content
    /\ save' = IF save = "saving" THEN save ELSE "dirty"
    /\ timer' = (save # "saving")

Bump(content) ==
    /\ doc' = content
    /\ save' = IF save = "saving" THEN save ELSE "dirty"
    /\ timer' = TRUE

Edit ==
    /\ Waits(~editing /\ Quiet /\ ~Busy({"discard", "reload", "inPlace"}))
    /\ \E e \in (1..MaxEdits) \ made :
          /\ \A f \in 1..MaxEdits : f < e => f \in made
          /\ Bump(doc \cup {e})
          /\ made' = made \cup {e}
          /\ toPreview' = IF preview = Null /\ ~Loading THEN toPreview
                          ELSE Append(toPreview, [kind |-> "draft", body |-> doc'])
    /\ UNCHANGED <<shown, call, row, preview, editing, dirty, toEditor, clicks, failed, thrown, slow, lapses>>

(* The timer runs out: autosave, unless something is saving already.         *)
Timer(s) ==
    /\ timer
    /\ timer' = FALSE
    /\ slow' = (slow \/ \E t \in Slots : call[t] # Null /\ ~Loads(call[t]))
    /\ IF save = "saving" THEN UNCHANGED <<call, save>>
       ELSE Starts(s, "autosave", doc) /\ save' = "saving"
    /\ UNCHANGED <<doc, shown, row, tabs, made, clicks, failed, thrown, hurried, lapses>>

-----------------------------------------------------------------------------
(* What the toolbar learns from an answer.                                   *)
HasDraft(r) == r.draft # Null

Told(c) ==
    CASE Asks(c) \in {"patch", "approve"} ->
            [shown EXCEPT !.hasDraft = HasDraft(c.reply), !.approved = c.reply.approved]
      [] Asks(c) = "discard" -> [shown EXCEPT !.hasDraft = FALSE, !.approved = FALSE]
      [] c.kind = "publish" -> [shown EXCEPT !.status = c.reply.status]
      [] c.kind \in {"publishChanges", "unpublish"} ->
            [status |-> c.reply.status, hasDraft |-> FALSE, approved |-> FALSE]
      [] OTHER -> [status |-> c.reply.status, hasDraft |-> HasDraft(c.reply), approved |-> c.reply.approved]

(* The last answer ends the handler, and the first failure does; but the     *)
(* preview opens even if the save before it failed.                          *)
Ended(c) == (c.at = "failed" /\ c.kind # "open") \/ c.step = Len(Script[c.kind])

Advanced(c) ==
    IF Ended(c) THEN Null ELSE [c EXCEPT !.step = c.step + 1, !.at = "sent", !.reply = Null]

Proceed(s) == call' = [call EXCEPT ![s] = Advanced(call[s])]

(* A loaded entry is shown with its overlay.                                 *)
LoadedMutant(r) == r.data

Loaded(r) == Working(r)

(* An answer to the editor tab.  Once the save before it is answered, well or *)
(* not, the preview opens, greets the editor and loads the entry.            *)
Answer(s) ==
    /\ call[s] # Null
    /\ call[s].at # "sent"
    /\ call[s].kind # "inPlace" /\ ~Loads(call[s])
    /\ LET c == call[s]
           ok == c.at = "answered"
           loads == ok /\ Asks(c) = "get"
       IN /\ Proceed(s)
          /\ shown' = IF ok THEN Told(c) ELSE shown
          /\ doc' = IF loads THEN Loaded(c.reply) ELSE doc
          /\ save' = IF loads THEN "saved"
                     ELSE IF c.kind \notin ShowSaving \/ ~Ended(c) THEN save
                     ELSE IF ok THEN "saved" ELSE "dirty"
          /\ toEditor' = IF c.kind = "open" THEN Append(toEditor, [kind |-> "hello"]) ELSE toEditor
    /\ UNCHANGED <<timer, row, preview, editing, dirty, toPreview, history>>

(* The preview's load is answered; if it fails an open preview stays as it is *)
(* and a new one shows the error only.                                       *)
LoadAnswer(s) ==
    /\ call[s] # Null
    /\ call[s].at # "sent"
    /\ Loads(call[s])
    /\ Proceed(s)
    /\ preview' = IF call[s].at = "answered" THEN Loaded(call[s].reply) ELSE preview
    /\ missed' = (Quiet /\ preview' # Null /\ ~(doc \ thrown \subseteq preview'))
    /\ UNCHANGED <<canvas, row, editing, dirty, toEditor, toPreview, past, overtook>>

(* An answer to the preview tab: saved, and the editor is told to reload.    *)
AnswerInPlace(s) ==
    /\ call[s] # Null
    /\ call[s].at # "sent"
    /\ call[s].kind = "inPlace"
    /\ Proceed(s)
    /\ IF call[s].at = "failed" THEN UNCHANGED <<dirty, toEditor>>
       ELSE dirty' = FALSE /\ toEditor' = Append(toEditor, [kind |-> "saved"])
    /\ UNCHANGED <<canvas, row, preview, editing, toPreview, history>>

-----------------------------------------------------------------------------
(* The preview tab.                                                          *)
StartEdit ==
    /\ preview # Null
    /\ ~editing
    /\ Waits(Idle /\ Quiet)
    /\ editing' = TRUE
    /\ UNCHANGED <<canvas, call, row, preview, dirty, toEditor, toPreview, made, clicks, failed, thrown, slow, lapses>>

EditInPlace ==
    /\ editing
    /\ Waits(Quiet /\ ~Busy({"inPlace", "reload"}))
    /\ \E e \in (1..MaxEdits) \ made :
          /\ \A f \in 1..MaxEdits : f < e => f \in made
          /\ preview' = preview \cup {e}
          /\ made' = made \cup {e}
    /\ dirty' = TRUE
    /\ toEditor' = Append(toEditor, [kind |-> "draft", body |-> preview'])
    /\ overtook' = (overtook \/ missed)
    /\ UNCHANGED <<canvas, call, row, editing, toPreview, clicks, failed, thrown, slow, missed>>

SaveInPlace(s) ==
    /\ editing
    /\ dirty
    /\ Waits(Idle /\ Quiet)
    /\ Starts(s, "inPlace", preview)
    /\ UNCHANGED <<canvas, row, tabs, made, clicks, failed, thrown, slow, lapses>>

(* Leaving edit mode: the user confirms that edits not saved are discarded,  *)
(* and the preview loads the entry again.  The editor tab has them all the   *)
(* same.                                                                     *)
StopEdit(s) ==
    /\ editing
    /\ Waits(Idle /\ Quiet)
    /\ Starts(s, "revert", {})
    /\ editing' = FALSE
    /\ dirty' = FALSE
    /\ thrown' = IF dirty THEN thrown \cup (preview \ Working(row)) ELSE thrown
    /\ UNCHANGED <<canvas, row, preview, toEditor, toPreview, made, clicks, failed, slow, lapses>>

(* A message reaches the editor: a greeting is answered with the current     *)
(* text, a draft replaces the text, and after a save the entry is reloaded.  *)
EditorHears(s) ==
    /\ toEditor # <<>>
    /\ toEditor' = Tail(toEditor)
    /\ LET m == Head(toEditor)
       IN \/ /\ m.kind = "hello"
             /\ toPreview' = Append(toPreview, [kind |-> "draft", body |-> doc])
             /\ UNCHANGED <<doc, save, timer, call>>
          \/ /\ m.kind = "draft"
             /\ Bump(m.body)
             /\ UNCHANGED <<call, toPreview>>
          \/ /\ m.kind = "saved"
             /\ Starts(s, "reload", {})
             /\ UNCHANGED <<doc, save, timer, toPreview>>
    /\ UNCHANGED <<shown, row, preview, editing, dirty, history>>

(* A draft reaches the preview, which ignores it while it is being edited    *)
(* and while it has no entry yet.                                            *)
PreviewHears ==
    /\ toPreview # <<>>
    /\ toPreview' = Tail(toPreview)
    /\ IF editing \/ preview = Null THEN UNCHANGED <<preview, missed>>
       ELSE preview' = Head(toPreview).body /\ missed' = FALSE
    /\ UNCHANGED <<canvas, call, row, editing, dirty, toEditor, past, overtook>>

-----------------------------------------------------------------------------
Runs(s) == Serve(s) \/ Answer(s) \/ LoadAnswer(s) \/ AnswerInPlace(s)
Channel(s) == EditorHears(s) \/ PreviewHears

Next ==
    \/ Edit \/ StartEdit \/ EditInPlace
    \/ \E s \in Slots : Timer(s) \/ Runs(s) \/ Refuse(s) \/ Channel(s) \/ SaveInPlace(s) \/ StopEdit(s)
    \/ \E s \in Slots, kind \in Kinds : Click(s, kind)

Spec == Init /\ [][Next]_vars

(* Timers run out, messages arrive and requests are answered; users and      *)
(* failures are free.                                                        *)
Fairness ==
    /\ WF_vars(\E s \in Slots : Timer(s))
    /\ WF_vars(\E s \in Slots : Channel(s))
    /\ \A s \in Slots : WF_vars(Runs(s) \/ Refuse(s))

FairSpec == Spec /\ Fairness

-----------------------------------------------------------------------------
(* Type invariant: tabs, handlers, messages and the row hold values of their *)
(* types.                                                                    *)
TypeOK ==
    /\ {doc, made, thrown} \subseteq Contents
    /\ save \in {"saved", "dirty", "saving"}
    /\ timer \in BOOLEAN /\ editing \in BOOLEAN /\ dirty \in BOOLEAN
    /\ shown \in [status : {"DRAFT", "PUBLISHED"}, hasDraft : BOOLEAN, approved : BOOLEAN]
    /\ call \in [Slots -> Calls \cup {Null}]
    /\ row \in Rows
    /\ preview \in {Null} \cup Contents
    /\ toEditor \in Seq(Messages)
    /\ toPreview \in Seq(Messages)
    /\ clicks \in 0..MaxClicks
    /\ failed \in Requests \cup {Null}
    /\ hurried \in BOOLEAN /\ slow \in BOOLEAN
    /\ missed \in BOOLEAN /\ overtook \in BOOLEAN

(* Requests are answered before the timer runs out, and the user waits.      *)
Orderly == ~hurried /\ ~slow

(* No save and no reload of the entry has failed.                            *)
Spared == failed \notin {"patch", "get"}

(* "All changes saved" is true once nothing is on its way: the server holds  *)
(* what the editor shows (the toolbar, and the guard against closing the tab *)
(* with unsaved work).                                                       *)
SavedIsStored ==
    save = "saved" /\ ~timer /\ Idle /\ Quiet /\ Orderly /\ Spared => doc = Working(row)

(* The same, whatever the pace of requests.                                  *)
SavedShown ==
    save = "saved" /\ ~timer /\ Idle /\ Quiet /\ ~hurried /\ Spared => doc = Working(row)

(* No edit is lost unless the user discards it, in whichever tab it was      *)
(* made: neither a save, nor a reload, nor the mirroring takes it away.  The *)
(* one exception: a preview that was still loading drops the editor's text,  *)
(* and an edit made in place there then replaces it.                         *)
NothingLost ==
    Quiet /\ Orderly /\ ~overtook => made \ thrown \subseteq doc \cup Working(row)

(* When typing stops everything the editor shows reaches the server in the   *)
(* end, whichever tab it was typed in, unless a save or a reload failed.     *)
WorkSettles ==
    <>[](doc = Working(row) \/ ~Orderly \/ ~Spared)

(* Approval of an overlay is only taken away by a save that changes it.      *)
ApprovalKept ==
    [][row.approved /\ row'.draft # Null /\ ~row'.approved => row'.draft # row.draft]_vars

(* Saving again what is stored takes the approval of the overlay away, as    *)
(* the comment on Publish changes has it.                                    *)
ResaveUnapproves ==
    [][ row.approved /\ (\E s \in Slots : Serve(s) /\ Asks(call[s]) = "patch"
                                          /\ call[s].body = Working(row))
        => ~row'.approved ]_vars
=============================================================================
