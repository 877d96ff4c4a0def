--------------------------- MODULE LiveEditingProofs ---------------------------
(***************************************************************************)
(* Proofs about LiveEditing, for any number of handlers under way, edits   *)
(* and clicks: types, when an approval may fall, that what is called saved *)
(* is stored, and that no edit is lost.                                    *)
(***************************************************************************)
EXTENDS LiveEditing, TLAPS

(* A handler never goes past the end of its script, and an answer carries    *)
(* the row.                                                                  *)
OnScript(c) ==
    /\ c.step <= Len(Script[c.kind])
    /\ c.at = "answered" => c.reply \in Rows

Drafts == [kind : {"draft"}, body : Contents]

(* What types need besides: only an open preview is edited in place, and     *)
(* only drafts go to it.                                                     *)
IInv ==
    /\ TypeOK
    /\ \A s \in Slots : call[s] # Null => OnScript(call[s])
    /\ editing => preview \in Contents
    /\ toPreview \in Seq(Drafts)

-----------------------------------------------------------------------------
(* Every handler has one or two requests to send. *)
LEMMA Scripts ==
    ASSUME NEW k \in Kinds
    PROVE  /\ Len(Script[k]) \in 1..2
           /\ \A i \in 1..2 : i <= Len(Script[k]) => Script[k][i] \in Requests
<1>1. Kinds = {"autosave", "save", "open", "approve", "publish", "publishChanges",
               "unpublish", "discard", "reload", "inPlace", "revert"}
    BY DEF Kinds, Script
<1>2. CASE k \in {"autosave", "save", "inPlace"}
  <2>1. Script[k] = <<"patch">>
      BY <1>2 DEF Script
  <2> QED
      BY <2>1 DEF Requests
<1>3. CASE k = "approve"
  <2>1. Script[k] = <<"patch", "approve">>
      BY <1>3 DEF Script
  <2> QED
      BY <2>1 DEF Requests
<1>4. CASE k = "publish"
  <2>1. Script[k] = <<"patch", "publish">>
      BY <1>4 DEF Script
  <2> QED
      BY <2>1 DEF Requests
<1>5. CASE k = "publishChanges"
  <2>1. Script[k] = <<"publish">>
      BY <1>5 DEF Script
  <2> QED
      BY <2>1 DEF Requests
<1>6. CASE k = "unpublish"
  <2>1. Script[k] = <<"unpublish">>
      BY <1>6 DEF Script
  <2> QED
      BY <2>1 DEF Requests
<1>7. CASE k = "discard"
  <2>1. Script[k] = <<"discard", "get">>
      BY <1>7 DEF Script
  <2> QED
      BY <2>1 DEF Requests
<1>8. CASE k \in {"reload", "revert"}
  <2>1. Script[k] = <<"get">>
      BY <1>8 DEF Script
  <2> QED
      BY <2>1 DEF Requests
<1>9. CASE k = "open"
  <2>1. Script[k] = <<"patch", "get">>
      BY <1>9 DEF Script
  <2> QED
      BY <2>1 DEF Requests
<1> QED
    BY <1>1, <1>2, <1>3, <1>4, <1>5, <1>6, <1>7, <1>8, <1>9

LEMMA AsksRequest ==
    ASSUME NEW c \in Calls, OnScript(c)
    PROVE  Asks(c) \in Requests
BY Scripts DEF Calls, OnScript, Asks

(* A row stays a row, whatever request the server handles. *)
LEMMA HandledRow ==
    ASSUME NEW r \in Rows, NEW q \in Requests, NEW b \in Contents
    PROVE  /\ Handled(r, q, b) \in Rows
           /\ r.approved /\ Handled(r, q, b).draft # Null /\ ~Handled(r, q, b).approved
                => Handled(r, q, b).draft # r.draft
<1> DEFINE C == Contents
<1>1. Working(r) \in C
    BY DEF Working, Rows
<1> HIDE DEF C
<1>2. Rows = [status : {"DRAFT", "PUBLISHED"}, data : C, draft : {Null} \cup C, approved : BOOLEAN]
    BY DEF C, Rows
<1>3. b \in C
    BY DEF C
<1>4. CASE q = "patch"
  <2>1. Handled(r, q, b) = Patched(r, b)
      BY <1>4 DEF Handled
  <2>2. CASE b = Working(r)
      BY <2>1, <2>2 DEF Patched
  <2>3. CASE b # Working(r) /\ r.status = "PUBLISHED"
    <3>1. Handled(r, q, b) = [r EXCEPT !.draft = b, !.approved = FALSE]
        BY <2>1, <2>3 DEF Patched
    <3>2. Handled(r, q, b) \in Rows /\ Handled(r, q, b).draft = b
        BY <3>1, <1>2, <1>3
    <3>3. b = r.draft => b = Null
        BY <2>3 DEF Working
    <3> QED
        BY <3>2, <3>3
  <2>4. CASE b # Working(r) /\ r.status # "PUBLISHED"
    <3>1. Handled(r, q, b) = [r EXCEPT !.data = b]
        BY <2>1, <2>4 DEF Patched
    <3>2. Handled(r, q, b) \in Rows /\ Handled(r, q, b).approved = r.approved
        BY <3>1, <1>2, <1>3
    <3> QED
        BY <3>2
  <2> QED
      BY <2>2, <2>3, <2>4
<1>5. CASE q = "approve"
  <2>1. Handled(r, q, b) = [r EXCEPT !.approved = TRUE]
      BY <1>5 DEF Handled
  <2>2. Handled(r, q, b) \in Rows /\ Handled(r, q, b).approved
      BY <2>1, <1>2
  <2> QED
      BY <2>2
<1>6. CASE q \in {"publish", "unpublish"}
  <2>1. Handled(r, q, b) \in {Settled(r, "PUBLISHED"), Settled(r, "DRAFT")}
      BY <1>6 DEF Handled
  <2>2. \A st \in {"DRAFT", "PUBLISHED"} : Settled(r, st) \in Rows /\ Settled(r, st).draft = Null
      BY <1>1, <1>2 DEF Settled
  <2>3. Handled(r, q, b) \in Rows /\ Handled(r, q, b).draft = Null
      BY <2>1, <2>2
  <2> QED
      BY <2>3
<1>7. CASE q = "discard"
  <2>1. Handled(r, q, b) = [r EXCEPT !.draft = Null, !.approved = FALSE]
      BY <1>7 DEF Handled
  <2>2. Handled(r, q, b) \in Rows /\ Handled(r, q, b).draft = Null
      BY <2>1, <1>2
  <2> QED
      BY <2>2
<1>8. CASE q = "get"
    BY <1>8 DEF Handled
<1> QED
    BY <1>4, <1>5, <1>6, <1>7, <1>8 DEF Requests

(* What the steps of a handler make of its call. *)
LEMMA CallUpdates ==
    ASSUME NEW c \in Calls, OnScript(c)
    PROVE  /\ \A r \in Rows :
                 LET d == [c EXCEPT !.at = "answered", !.reply = r]
                 IN  d \in Calls /\ OnScript(d)
           /\ [c EXCEPT !.at = "failed"] \in Calls
           /\ OnScript([c EXCEPT !.at = "failed"])
           /\ ~Ended(c) => LET d == [c EXCEPT !.step = c.step + 1, !.at = "sent", !.reply = Null]
                           IN  d \in Calls /\ OnScript(d)
<1> DEFINE K == Kinds
           R == Rows
           C == Contents
           d(r) == [c EXCEPT !.at = "answered", !.reply = r]
           e == [c EXCEPT !.at = "failed"]
           f == [c EXCEPT !.step = c.step + 1, !.at = "sent", !.reply = Null]
<1>1. c.kind \in Kinds /\ Len(Script[c.kind]) \in 1..2 /\ c.step \in 1..2
    BY Scripts DEF Calls
<1> HIDE DEF K, R, C
<1>2. Calls = [kind : K, step : 1..2, body : C, at : {"sent", "answered", "failed"},
               reply : {Null} \cup R]
    BY DEF K, R, C, Calls
<1>3. ASSUME NEW r \in R PROVE d(r) \in Calls /\ OnScript(d(r))
  <2>1. /\ d(r) \in Calls /\ d(r).kind = c.kind /\ d(r).step = c.step
        /\ d(r).reply = r
      BY <1>2
  <2> QED
      BY <2>1 DEF OnScript, R
<1>4. e \in Calls /\ OnScript(e)
  <2>1. e \in Calls /\ e.kind = c.kind /\ e.step = c.step /\ e.at = "failed"
      BY <1>2
  <2> QED
      BY <2>1 DEF OnScript
<1>5. ASSUME ~Ended(c) PROVE f \in Calls /\ OnScript(f)
  <2> DEFINE n == c.step + 1
             S == 1..2
             L == Len(Script[c.kind])
  <2>1. n \in S /\ n <= L
    <3>1. L \in 1..2 /\ c.step <= L /\ c.step # L
        BY <1>1, <1>5 DEF Ended, OnScript
    <3> HIDE DEF L
    <3> QED
        BY <1>1, <3>1
  <2>2. f = [c EXCEPT !.step = n, !.at = "sent", !.reply = Null]
      OBVIOUS
  <2>3. Calls = [kind : K, step : S, body : C, at : {"sent", "answered", "failed"},
                 reply : {Null} \cup R]
      BY <1>2
  <2> HIDE DEF n, S, f
  <2>4. f \in Calls /\ f.kind = c.kind /\ f.step = n /\ f.at = "sent"
      BY <2>1, <2>2, <2>3
  <2> QED
      BY <2>1, <2>4 DEF OnScript
<1> QED
    BY <1>3, <1>4, <1>5 DEF R

(* A handler that starts. *)
LEMMA Started ==
    ASSUME NEW k \in Kinds, NEW b \in Contents
    PROVE  LET c == [kind |-> k, step |-> 1, body |-> b, at |-> "sent", reply |-> Null]
           IN  c \in Calls /\ OnScript(c)
BY Scripts DEF Calls, OnScript

CallsOK ==
    /\ call \in [Slots -> Calls \cup {Null}]
    /\ \A s \in Slots : call[s] # Null => OnScript(call[s])

LEMMA OneCall ==
    ASSUME CallsOK, NEW s \in Slots, NEW x \in Calls \cup {Null},
           x # Null => OnScript(x), call' = [call EXCEPT ![s] = x]
    PROVE  CallsOK'
BY DEF CallsOK

LEMMA StartsOK ==
    ASSUME CallsOK, NEW s \in Slots, NEW k \in Kinds, NEW b \in Contents, Starts(s, k, b)
    PROVE  CallsOK'
<1> DEFINE c == [kind |-> k, step |-> 1, body |-> b, at |-> "sent", reply |-> Null]
<1>1. c \in Calls /\ OnScript(c)
    BY Started
<1>2. call' = [call EXCEPT ![s] = c]
    BY DEF Starts
<1> HIDE DEF c
<1> QED
    BY <1>1, <1>2, OneCall

LEMMA ProceedOK ==
    ASSUME CallsOK, NEW s \in Slots, call[s] # Null, Proceed(s)
    PROVE  CallsOK'
<1> DEFINE c == call[s]
           f == [c EXCEPT !.step = c.step + 1, !.at = "sent", !.reply = Null]
           x == IF Ended(c) THEN Null ELSE f
<1>1. c \in Calls /\ OnScript(c)
    BY DEF CallsOK
<1>2. call' = [call EXCEPT ![s] = x]
    BY DEF Proceed, Advanced
<1>3. ~Ended(c) => f \in Calls /\ OnScript(f)
    BY <1>1, CallUpdates
<1>4. x \in Calls \cup {Null} /\ (x # Null => OnScript(x))
    BY <1>3
<1> QED
    BY <1>2, <1>4, OneCall

-----------------------------------------------------------------------------
(* The parts of the invariant, by who changes them. *)
CanvasOK ==
    /\ doc \in Contents
    /\ save \in {"saved", "dirty", "saving"}
    /\ timer \in BOOLEAN
    /\ shown \in [status : {"DRAFT", "PUBLISHED"}, hasDraft : BOOLEAN, approved : BOOLEAN]

TabsOK ==
    /\ preview \in {Null} \cup Contents
    /\ editing \in BOOLEAN
    /\ dirty \in BOOLEAN
    /\ editing => preview \in Contents
    /\ toEditor \in Seq(Messages)
    /\ toPreview \in Seq(Drafts)

HistoryOK ==
    /\ made \in Contents
    /\ thrown \in Contents
    /\ clicks \in 0..MaxClicks
    /\ failed \in Requests \cup {Null}
    /\ hurried \in BOOLEAN
    /\ slow \in BOOLEAN
    /\ missed \in BOOLEAN
    /\ overtook \in BOOLEAN

Parts == CallsOK /\ CanvasOK /\ TabsOK /\ HistoryOK /\ row \in Rows

LEMMA Split == IInv <=> Parts
<1>1. Drafts \subseteq Messages
    BY DEF Drafts, Messages
<1>2. toPreview \in Seq(Drafts) => toPreview \in Seq(Messages)
    BY <1>1
<1>3. ASSUME IInv PROVE Parts
  <2>1. CallsOK /\ row \in Rows
      BY <1>3, Zenon DEF IInv, TypeOK, CallsOK
  <2>2. CanvasOK
      BY <1>3 DEF IInv, TypeOK, CanvasOK
  <2>3. TabsOK
    <3>1. editing \in BOOLEAN /\ dirty \in BOOLEAN
        BY <1>3, Zenon DEF IInv, TypeOK
    <3> QED
        BY <1>3, <3>1, Zenon DEF IInv, TypeOK, TabsOK
  <2>4. HistoryOK
      BY <1>3 DEF IInv, TypeOK, HistoryOK
  <2> QED
      BY <2>1, <2>2, <2>3, <2>4 DEF Parts
<1>4. ASSUME Parts PROVE IInv
  <2>1. TypeOK
    <3>1. {doc, made, thrown} \subseteq Contents
        BY <1>4, Zenon DEF Parts, CanvasOK, HistoryOK
    <3>2. /\ timer \in BOOLEAN /\ editing \in BOOLEAN /\ dirty \in BOOLEAN
          /\ hurried \in BOOLEAN /\ slow \in BOOLEAN
          /\ missed \in BOOLEAN /\ overtook \in BOOLEAN
        BY <1>4, Zenon DEF Parts, CanvasOK, TabsOK, HistoryOK
    <3>3. toEditor \in Seq(Messages) /\ toPreview \in Seq(Messages)
        BY <1>2, <1>4, Zenon DEF Parts, TabsOK
    <3>4. call \in [Slots -> Calls \cup {Null}] /\ row \in Rows
        BY <1>4, Zenon DEF Parts, CallsOK
    <3>5. /\ save \in {"saved", "dirty", "saving"}
          /\ shown \in [status : {"DRAFT", "PUBLISHED"}, hasDraft : BOOLEAN, approved : BOOLEAN]
        BY <1>4, Zenon DEF Parts, CanvasOK
    <3>6. /\ preview \in {Null} \cup Contents
          /\ clicks \in 0..MaxClicks
          /\ failed \in Requests \cup {Null}
        BY <1>4, Zenon DEF Parts, TabsOK, HistoryOK
    <3> QED
        BY <3>1, <3>2, <3>3, <3>4, <3>5, <3>6, Zenon DEF TypeOK
  <2>2. \A s \in Slots : call[s] # Null => OnScript(call[s])
      BY <1>4, Zenon DEF Parts, CallsOK
  <2>3. (editing => preview \in Contents) /\ toPreview \in Seq(Drafts)
      BY <1>4, Zenon DEF Parts, TabsOK
  <2> QED
      BY <2>1, <2>2, <2>3, Zenon DEF IInv
<1> QED
    BY <1>3, <1>4

LEMMA InitParts == Init => Parts
<1> SUFFICES ASSUME Init PROVE Parts
    OBVIOUS
<1>1. {} \in Contents
    BY DEF Contents
<1>2. CallsOK
    BY DEF Init, CallsOK
<1> PICK status \in {"DRAFT", "PUBLISHED"} :
      /\ row = [status |-> status, data |-> {}, draft |-> Null, approved |-> FALSE]
      /\ shown = [status |-> status, hasDraft |-> FALSE, approved |-> FALSE]
    BY DEF Init
<1>3. CanvasOK
  <2>1. shown \in [status : {"DRAFT", "PUBLISHED"}, hasDraft : BOOLEAN, approved : BOOLEAN]
      OBVIOUS
  <2>2. doc = {} /\ save = "saved" /\ timer = FALSE
      BY DEF Init
  <2> QED
      BY <1>1, <2>1, <2>2 DEF CanvasOK
<1>4. TabsOK
  <2>1. /\ preview = Null /\ editing = FALSE /\ dirty = FALSE
        /\ toEditor = <<>> /\ toPreview = <<>>
      BY DEF Init
  <2>2. <<>> \in Seq(Messages) /\ <<>> \in Seq(Drafts)
      OBVIOUS
  <2> QED
      BY <2>1, <2>2, Zenon DEF TabsOK
<1>5. HistoryOK
  <2>1. /\ made = {} /\ clicks = 0 /\ failed = Null /\ thrown = {}
        /\ hurried = FALSE /\ slow = FALSE /\ missed = FALSE /\ overtook = FALSE
      BY DEF Init
  <2>2. 0 \in 0..MaxClicks
      BY BoundsAssumption
  <2> QED
      BY <1>1, <2>1, <2>2, Zenon DEF HistoryOK
<1>6. row \in Rows
    BY <1>1 DEF Rows
<1> QED
    BY <1>2, <1>3, <1>4, <1>5, <1>6 DEF Parts

LEMMA LoadedBody ==
    ASSUME NEW r \in Rows
    PROVE  Loaded(r) \in Contents
BY DEF Loaded, Working, Rows

LEMMA Waiting ==
    ASSUME NEW settled \in BOOLEAN, Waits(settled)
    PROVE  hurried' \in BOOLEAN
BY DEF Waits

-----------------------------------------------------------------------------
(* One lemma per action. *)
LEMMA ServeParts ==
    ASSUME Parts, NEW s \in Slots, Serve(s)
    PROVE  Parts'
<1>1. call[s] \in Calls /\ OnScript(call[s])
    BY DEF Parts, CallsOK, Serve
<1>2. Asks(call[s]) \in Requests /\ call[s].body \in Contents
    BY <1>1, AsksRequest DEF Calls
<1>3. row' \in Rows
    BY <1>2, HandledRow DEF Parts, Serve
<1>4. CallsOK'
  <2> DEFINE d == [call[s] EXCEPT !.at = "answered", !.reply = row']
  <2>1. d \in Calls /\ OnScript(d)
      BY <1>1, <1>3, CallUpdates
  <2>2. call' = [call EXCEPT ![s] = d]
      BY DEF Serve
  <2> HIDE DEF d
  <2> QED
      BY <2>1, <2>2, OneCall DEF Parts
<1>5. CanvasOK' /\ TabsOK' /\ HistoryOK'
    BY DEF Parts, Serve, CanvasOK, TabsOK, HistoryOK, canvas, tabs, history, past, lapses
<1> QED
    BY <1>3, <1>4, <1>5 DEF Parts

LEMMA RefuseParts ==
    ASSUME Parts, NEW s \in Slots, Refuse(s)
    PROVE  Parts'
<1>1. call[s] \in Calls /\ OnScript(call[s])
    BY DEF Parts, CallsOK, Refuse
<1>2. Asks(call[s]) \in Requests
    BY <1>1, AsksRequest
<1>3. CallsOK'
  <2> DEFINE d == [call[s] EXCEPT !.at = "failed"]
  <2>1. d \in Calls /\ OnScript(d)
      BY <1>1, CallUpdates
  <2>2. call' = [call EXCEPT ![s] = d]
      BY DEF Refuse
  <2> HIDE DEF d
  <2> QED
      BY <2>1, <2>2, OneCall DEF Parts
<1>4. CanvasOK' /\ TabsOK' /\ row' \in Rows
    BY DEF Parts, Refuse, CanvasOK, TabsOK, canvas, tabs
<1>5. HistoryOK'
    BY <1>2 DEF Parts, Refuse, HistoryOK, lapses
<1> QED
    BY <1>3, <1>4, <1>5 DEF Parts

LEMMA ClickParts ==
    ASSUME Parts, NEW s \in Slots, NEW kind \in Kinds, Click(s, kind)
    PROVE  Parts'
<1>1. CallsOK'
    BY StartsOK DEF Parts, Click, CanvasOK
<1>2. CanvasOK'
    BY DEF Parts, Click, CanvasOK
<1>3. TabsOK' /\ row' \in Rows
    BY DEF Parts, Click, TabsOK, tabs
<1>4. HistoryOK'
  <2>1. hurried' \in BOOLEAN
      BY DEF Click, Waits
  <2>2. thrown' \in Contents
      BY DEF Parts, HistoryOK, Click, Contents
  <2>3. clicks' \in 0..MaxClicks
      BY BoundsAssumption DEF Parts, HistoryOK, Click
  <2> QED
      BY <2>1, <2>2, <2>3 DEF Parts, HistoryOK, Click, lapses
<1> QED
    BY <1>1, <1>2, <1>3, <1>4 DEF Parts

LEMMA EditParts ==
    ASSUME Parts, Edit
    PROVE  Parts'
<1> PICK e \in (1..MaxEdits) \ made :
      /\ Bump(doc \cup {e})
      /\ made' = made \cup {e}
      /\ toPreview' = IF preview = Null /\ ~Loading THEN toPreview
                      ELSE Append(toPreview, [kind |-> "draft", body |-> doc'])
    BY DEF Edit
<1>1. doc' \in Contents /\ made' \in Contents
    BY DEF Parts, CanvasOK, HistoryOK, Bump, Contents
<1>2. CanvasOK'
    BY <1>1 DEF Parts, Edit, Bump, CanvasOK
<1>3. TabsOK'
  <2>1. [kind |-> "draft", body |-> doc'] \in Drafts
      BY <1>1 DEF Drafts
  <2>2. toPreview' \in Seq(Drafts)
      BY <2>1 DEF Parts, TabsOK
  <2> QED
      BY <2>2 DEF Parts, Edit, TabsOK
<1>4. HistoryOK'
  <2>1. hurried' \in BOOLEAN
      BY DEF Edit, Waits
  <2> QED
      BY <1>1, <2>1 DEF Parts, Edit, HistoryOK, lapses
<1>5. CallsOK' /\ row' \in Rows
    BY DEF Parts, Edit, CallsOK
<1> QED
    BY <1>2, <1>3, <1>4, <1>5 DEF Parts

LEMMA TimerParts ==
    ASSUME Parts, NEW s \in Slots, Timer(s)
    PROVE  Parts'
<1>1. CallsOK'
  <2>1. CASE save = "saving"
      BY <2>1 DEF Parts, Timer, CallsOK
  <2>2. CASE save # "saving"
    <3>1. "autosave" \in Kinds
        BY DEF Kinds, Script
    <3> QED
        BY <2>2, <3>1, StartsOK DEF Parts, Timer, CanvasOK
  <2> QED
      BY <2>1, <2>2
<1>2. CanvasOK'
    BY DEF Parts, Timer, CanvasOK
<1>3. TabsOK' /\ row' \in Rows
    BY DEF Parts, Timer, TabsOK, tabs
<1>4. HistoryOK'
    BY DEF Parts, Timer, HistoryOK, lapses
<1> QED
    BY <1>1, <1>2, <1>3, <1>4 DEF Parts

LEMMA AnswerParts ==
    ASSUME Parts, NEW s \in Slots, Answer(s)
    PROVE  Parts'
<1> DEFINE c == call[s]
           ok == c.at = "answered"
           loads == ok /\ Asks(c) = "get"
<1>1. c \in Calls /\ OnScript(c)
    BY DEF Parts, CallsOK, Answer
<1>2. CallsOK'
    BY ProceedOK DEF Parts, Answer
<1>3. ok => c.reply \in Rows
    BY <1>1 DEF OnScript
<1>4. CanvasOK'
  <2>1. doc' \in Contents
    <3>1. doc' = IF loads THEN Loaded(c.reply) ELSE doc
        BY DEF Answer
    <3> QED
        BY <1>3, <3>1, LoadedBody DEF Parts, CanvasOK
  <2>2. save' \in {"saved", "dirty", "saving"}
      BY DEF Parts, CanvasOK, Answer
  <2>3. shown' \in [status : {"DRAFT", "PUBLISHED"}, hasDraft : BOOLEAN, approved : BOOLEAN]
    <3>1. CASE ~ok
        BY <3>1 DEF Parts, CanvasOK, Answer
    <3>2. CASE ok
      <4>1. shown' = Told(c)
          BY <3>2 DEF Answer
      <4>2. /\ c.reply.status \in {"DRAFT", "PUBLISHED"} /\ c.reply.approved \in BOOLEAN
            /\ HasDraft(c.reply) \in BOOLEAN
          BY <1>3, <3>2 DEF Rows, HasDraft
      <4>3. Told(c) \in [status : {"DRAFT", "PUBLISHED"}, hasDraft : BOOLEAN, approved : BOOLEAN]
          BY <4>2 DEF Told, Parts, CanvasOK
      <4> QED
          BY <4>1, <4>3
    <3> QED
        BY <3>1, <3>2
  <2>4. timer' \in BOOLEAN
      BY DEF Parts, CanvasOK, Answer
  <2> QED
      BY <2>1, <2>2, <2>3, <2>4 DEF CanvasOK
<1>5. TabsOK'
  <2>1. toEditor' \in Seq(Messages)
    <3>1. [kind |-> "hello"] \in Messages
        BY DEF Messages
    <3> QED
        BY <3>1 DEF Parts, TabsOK, Answer
  <2>2. UNCHANGED <<preview, editing, dirty, toPreview>>
      BY DEF Answer
  <2> QED
      BY <2>1, <2>2 DEF Parts, TabsOK
<1>6. HistoryOK' /\ row' \in Rows
    BY DEF Parts, Answer, HistoryOK, history, past, lapses
<1> QED
    BY <1>2, <1>4, <1>5, <1>6 DEF Parts

LEMMA LoadAnswerParts ==
    ASSUME Parts, NEW s \in Slots, LoadAnswer(s)
    PROVE  Parts'
<1>1. CallsOK'
    BY ProceedOK DEF Parts, LoadAnswer
<1>2. call[s].at = "answered" => Loaded(call[s].reply) \in Contents
    BY LoadedBody DEF Parts, CallsOK, OnScript, LoadAnswer
<1>3. TabsOK'
  <2>1. preview' \in {Null} \cup Contents /\ (editing => preview' \in Contents)
      BY <1>2 DEF Parts, TabsOK, LoadAnswer
  <2>2. UNCHANGED <<editing, dirty, toEditor, toPreview>>
      BY DEF LoadAnswer
  <2> QED
      BY <2>1, <2>2 DEF Parts, TabsOK
<1>4. HistoryOK'
  <2>1. missed' \in BOOLEAN
      BY DEF LoadAnswer
  <2> QED
      BY <2>1 DEF Parts, LoadAnswer, HistoryOK, past
<1>5. CanvasOK' /\ row' \in Rows
    BY DEF Parts, LoadAnswer, CanvasOK, canvas
<1> QED
    BY <1>1, <1>3, <1>4, <1>5 DEF Parts

LEMMA AnswerInPlaceParts ==
    ASSUME Parts, NEW s \in Slots, AnswerInPlace(s)
    PROVE  Parts'
<1>1. CallsOK'
    BY ProceedOK DEF Parts, AnswerInPlace
<1>2. TabsOK'
  <2>1. [kind |-> "saved"] \in Messages
      BY DEF Messages
  <2>2. toEditor' \in Seq(Messages)
      BY <2>1 DEF Parts, TabsOK, AnswerInPlace
  <2>3. dirty' = dirty \/ dirty' = FALSE
      BY DEF AnswerInPlace
  <2> QED
      BY <2>2, <2>3 DEF Parts, TabsOK, AnswerInPlace
<1>3. CanvasOK' /\ HistoryOK' /\ row' \in Rows
    BY DEF Parts, AnswerInPlace, CanvasOK, HistoryOK, canvas, history, past, lapses
<1> QED
    BY <1>1, <1>2, <1>3 DEF Parts

LEMMA StartEditParts ==
    ASSUME Parts, StartEdit
    PROVE  Parts'
<1>1. TabsOK'
    BY DEF Parts, TabsOK, StartEdit
<1>2. CallsOK' /\ CanvasOK' /\ row' \in Rows
    BY DEF Parts, StartEdit, CallsOK, CanvasOK, canvas
<1>3. HistoryOK'
    BY DEF Parts, StartEdit, Waits, HistoryOK, lapses
<1> QED
    BY <1>1, <1>2, <1>3 DEF Parts

LEMMA EditInPlaceParts ==
    ASSUME Parts, EditInPlace
    PROVE  Parts'
<1> PICK e \in (1..MaxEdits) \ made :
      preview' = preview \cup {e} /\ made' = made \cup {e}
    BY DEF EditInPlace
<1>1. preview' \in Contents /\ made' \in Contents
    BY DEF Parts, TabsOK, HistoryOK, EditInPlace, Contents
<1>2. TabsOK'
  <2>1. [kind |-> "draft", body |-> preview'] \in Messages
      BY <1>1 DEF Messages
  <2>2. toEditor' \in Seq(Messages)
      BY <2>1 DEF Parts, TabsOK, EditInPlace
  <2>3. dirty' = TRUE /\ UNCHANGED <<editing, toPreview>>
      BY DEF EditInPlace
  <2> QED
      BY <1>1, <2>2, <2>3 DEF Parts, TabsOK
<1>3. CallsOK' /\ CanvasOK' /\ row' \in Rows
    BY DEF Parts, EditInPlace, CallsOK, CanvasOK, canvas
<1>4. HistoryOK'
  <2>1. hurried' \in BOOLEAN
      BY DEF EditInPlace, Waits
  <2>2. overtook' \in BOOLEAN
      BY DEF EditInPlace, Parts, HistoryOK
  <2> QED
      BY <1>1, <2>1, <2>2 DEF Parts, EditInPlace, HistoryOK
<1> QED
    BY <1>2, <1>3, <1>4 DEF Parts

LEMMA SaveInPlaceParts ==
    ASSUME Parts, NEW s \in Slots, SaveInPlace(s)
    PROVE  Parts'
<1>1. CallsOK'
  <2>1. "inPlace" \in Kinds
      BY DEF Kinds, Script
  <2>2. preview \in Contents
      BY DEF Parts, TabsOK, SaveInPlace
  <2> QED
      BY <2>1, <2>2, StartsOK DEF Parts, SaveInPlace
<1>2. CanvasOK' /\ TabsOK' /\ row' \in Rows
    BY DEF Parts, SaveInPlace, CanvasOK, TabsOK, canvas, tabs
<1>3. HistoryOK'
    BY DEF Parts, SaveInPlace, Waits, HistoryOK, lapses
<1> QED
    BY <1>1, <1>2, <1>3 DEF Parts

LEMMA StopEditParts ==
    ASSUME Parts, NEW s \in Slots, StopEdit(s)
    PROVE  Parts'
<1>1. CallsOK'
  <2>1. "revert" \in Kinds /\ {} \in Contents
      BY DEF Kinds, Script, Contents
  <2> QED
      BY <2>1, StartsOK DEF Parts, StopEdit
<1>2. TabsOK'
  <2>1. /\ editing' = FALSE /\ dirty' = FALSE
        /\ UNCHANGED <<preview, toEditor, toPreview>>
      BY DEF StopEdit
  <2> QED
      BY <2>1 DEF Parts, TabsOK
<1>3. CanvasOK' /\ row' \in Rows
    BY DEF Parts, StopEdit, CanvasOK, canvas
<1>4. HistoryOK'
  <2>1. thrown' \in Contents
    <3>1. thrown' = thrown \/ thrown' = thrown \cup (preview \ Working(row))
        BY DEF StopEdit
    <3>2. preview \in Contents
        BY DEF Parts, TabsOK, StopEdit
    <3> QED
        BY <3>1, <3>2 DEF Parts, HistoryOK, Contents
  <2>2. hurried' \in BOOLEAN
      BY DEF StopEdit, Waits
  <2> QED
      BY <2>1, <2>2 DEF Parts, StopEdit, HistoryOK, lapses
<1> QED
    BY <1>1, <1>2, <1>3, <1>4 DEF Parts

LEMMA EditorHearsParts ==
    ASSUME Parts, NEW s \in Slots, EditorHears(s)
    PROVE  Parts'
<1> DEFINE m == Head(toEditor)
<1>1. m \in Messages /\ Tail(toEditor) \in Seq(Messages)
    BY DEF Parts, TabsOK, EditorHears
<1>2. m.kind = "draft" => m.body \in Contents
    BY <1>1 DEF Messages
<1>3. CallsOK' /\ CanvasOK'
  <2>1. CASE m.kind = "hello"
      BY <2>1 DEF Parts, EditorHears, CallsOK, CanvasOK
  <2>2. CASE m.kind = "draft"
    <3>1. Bump(m.body) /\ UNCHANGED <<call, shown>>
        BY <2>2 DEF EditorHears
    <3> QED
        BY <1>2, <2>2, <3>1 DEF Parts, Bump, CallsOK, CanvasOK
  <2>3. CASE m.kind = "saved"
    <3>1. Starts(s, "reload", {}) /\ UNCHANGED <<doc, save, timer, shown>>
        BY <2>3 DEF EditorHears
    <3>2. "reload" \in Kinds /\ {} \in Contents
        BY DEF Kinds, Script, Contents
    <3>3. CallsOK'
        BY <3>1, <3>2, StartsOK DEF Parts
    <3> QED
        BY <3>1, <3>3 DEF Parts, CanvasOK
  <2> QED
      BY <2>1, <2>2, <2>3 DEF EditorHears
<1>4. TabsOK'
  <2>1. [kind |-> "draft", body |-> doc] \in Drafts
      BY DEF Drafts, Parts, CanvasOK
  <2>2. toPreview' \in Seq(Drafts)
    <3>1. toPreview \in Seq(Drafts)
        BY DEF Parts, TabsOK
    <3>2. \/ toPreview' = Append(toPreview, [kind |-> "draft", body |-> doc])
          \/ toPreview' = toPreview
        BY DEF EditorHears
    <3>3. CASE toPreview' = Append(toPreview, [kind |-> "draft", body |-> doc])
      <4> DEFINE sent == [kind |-> "draft", body |-> doc]
      <4>1. sent \in Drafts /\ toPreview' = Append(toPreview, sent)
          BY <2>1, <3>3
      <4> HIDE DEF sent
      <4> QED
          BY ONLY <3>1, <4>1
    <3> QED
        BY ONLY <3>1, <3>2, <3>3
  <2>3. toEditor' \in Seq(Messages) /\ UNCHANGED <<preview, editing, dirty>>
      BY <1>1 DEF EditorHears
  <2> QED
      BY <2>2, <2>3 DEF Parts, TabsOK
<1>5. HistoryOK' /\ row' \in Rows
    BY DEF Parts, EditorHears, HistoryOK, history, past, lapses
<1> QED
    BY <1>3, <1>4, <1>5 DEF Parts

LEMMA PreviewHearsParts ==
    ASSUME Parts, PreviewHears
    PROVE  Parts'
<1>1. Head(toPreview) \in Drafts /\ Tail(toPreview) \in Seq(Drafts)
    BY DEF Parts, TabsOK, PreviewHears
<1>2. Head(toPreview).body \in Contents
    BY <1>1 DEF Drafts
<1>3. TabsOK'
    BY <1>1, <1>2 DEF Parts, TabsOK, PreviewHears
<1>4. HistoryOK'
  <2>1. missed' \in BOOLEAN
      BY DEF Parts, PreviewHears, HistoryOK
  <2> QED
      BY <2>1 DEF Parts, PreviewHears, HistoryOK, past
<1>5. CallsOK' /\ CanvasOK' /\ row' \in Rows
    BY DEF Parts, PreviewHears, CallsOK, CanvasOK, canvas
<1> QED
    BY <1>3, <1>4, <1>5 DEF Parts

LEMMA NextParts == Parts /\ [Next]_vars => Parts'
<1> SUFFICES ASSUME Parts, [Next]_vars PROVE Parts'
    OBVIOUS
<1>1. CASE Edit \/ StartEdit \/ EditInPlace
    BY <1>1, EditParts, StartEditParts, EditInPlaceParts
<1>2. ASSUME NEW s \in Slots, Timer(s) \/ Refuse(s) \/ SaveInPlace(s) \/ StopEdit(s)
      PROVE  Parts'
    BY <1>2, TimerParts, RefuseParts, SaveInPlaceParts, StopEditParts
<1>3. ASSUME NEW s \in Slots, Runs(s)
      PROVE  Parts'
    BY <1>3, ServeParts, AnswerParts, LoadAnswerParts, AnswerInPlaceParts DEF Runs
<1>4. ASSUME NEW s \in Slots, Channel(s)
      PROVE  Parts'
    BY <1>4, EditorHearsParts, PreviewHearsParts DEF Channel
<1>5. ASSUME NEW s \in Slots, NEW kind \in Kinds, Click(s, kind)
      PROVE  Parts'
    BY <1>5, ClickParts
<1>6. CASE UNCHANGED vars
    BY <1>6 DEF vars, Parts, CallsOK, CanvasOK, TabsOK, HistoryOK
<1> QED
    BY <1>1, <1>2, <1>3, <1>4, <1>5, <1>6 DEF Next

-----------------------------------------------------------------------------
(* Both tabs, the handlers, the messages between them and the row keep their *)
(* types, however handlers, messages and failures interleave.                *)
THEOREM TypeCorrect == Spec => []TypeOK
<1>1. Init => IInv
    BY InitParts, Split
<1>2. IInv /\ [Next]_vars => IInv'
  <2>1. IInv' <=> Parts'
      BY Split, PTL
  <2> QED
      BY <2>1, NextParts, Split
<1>3. IInv => TypeOK
    BY DEF IInv
<1> QED
    BY <1>1, <1>2, <1>3, PTL DEF Spec

(* No save, button, reload or message of either tab takes the approval from  *)
(* an overlay that stays as it was: only a save that changes it does.        *)
THEOREM ApprovalOnlyFallsWithAChange == Spec => ApprovalKept
<1> DEFINE Kept == row.approved /\ row'.draft # Null /\ ~row'.approved => row'.draft # row.draft
<1>1. Init => Parts
    BY InitParts
<1>2. Parts /\ [Next]_vars => Parts'
    BY NextParts
<1>3. Parts /\ [Next]_vars => [Kept]_vars
  <2> SUFFICES ASSUME Parts, Next PROVE row' = row \/ Kept
      BY DEF vars
  <2>1. ASSUME NEW s \in Slots, Serve(s) PROVE Kept
    <3>1. call[s] \in Calls /\ OnScript(call[s])
        BY <2>1 DEF Parts, CallsOK, Serve
    <3>2. Asks(call[s]) \in Requests /\ call[s].body \in Contents
        BY <3>1, AsksRequest DEF Calls
    <3>3. row' = Handled(row, Asks(call[s]), call[s].body) /\ row \in Rows
        BY <2>1 DEF Serve, Parts
    <3> QED
        BY <3>2, <3>3, HandledRow
  <2>2. ASSUME NEW s \in Slots, ~Serve(s),
               \/ Runs(s) \/ Channel(s) \/ Timer(s) \/ Refuse(s)
               \/ SaveInPlace(s) \/ StopEdit(s)
        PROVE  row' = row
      BY <2>2 DEF Runs, Channel, Timer, Refuse, SaveInPlace, StopEdit, Answer, LoadAnswer,
                  AnswerInPlace, EditorHears, PreviewHears
  <2>3. ASSUME NEW s \in Slots, NEW kind \in Kinds, Click(s, kind) PROVE row' = row
      BY <2>3 DEF Click
  <2>4. CASE Edit \/ StartEdit \/ EditInPlace
      BY <2>4 DEF Edit, StartEdit, EditInPlace
  <2> QED
      BY <2>1, <2>2, <2>3, <2>4 DEF Next
<1> QED
    BY <1>1, <1>2, <1>3, PTL DEF Spec, ApprovalKept

-----------------------------------------------------------------------------
(* What the tabs, the channel and the row owe each other while the user      *)
(* waits for one tab before using the other and requests are answered before *)
(* the timer runs out.                                                       *)
Live == IF overtook THEN {} ELSE made \ thrown

(* Handlers no message crosses.                                              *)
Mutes(c) == c.kind \in {"discard", "reload", "inPlace"} \/ (c.kind = "open" /\ c.step = 1)
Silent == \E s \in Slots : call[s] # Null /\ Mutes(call[s])

Discarded(c) == c.kind = "discard" /\ (c.step = 2 \/ c.at = "answered")
Sending(c) == Asks(c) = "patch" /\ c.at = "sent" /\ c.body = doc

(* At most one handler is under way, save that the timer may run out between *)
(* the preview's news of a save and the reload, and while the preview loads. *)
Together(c, d) == c.kind = "autosave" /\ (d.kind = "reload" \/ Loads(d))

PairsOK ==
    \A s, t \in Slots : s # t /\ call[s] # Null /\ call[t] # Null =>
        Together(call[s], call[t]) \/ Together(call[t], call[s])

SavingOK == save = "saving" => Busy(ShowSaving)

(* The channel is empty or holds one message of these.                       *)
Greeted == toEditor = <<[kind |-> "hello"]>> /\ toPreview = <<>> /\ ~editing
Mirrored ==
    /\ toEditor = <<[kind |-> "draft", body |-> preview]>> /\ toPreview = <<>>
    /\ editing /\ dirty /\ Live \subseteq preview
News ==
    /\ toEditor = <<[kind |-> "saved"]>> /\ toPreview = <<>>
    /\ editing /\ ~dirty /\ doc = Working(row) /\ Live \subseteq preview
Shown ==
    /\ toEditor = <<>> /\ ~editing
    /\ \E b \in Contents : toPreview = <<[kind |-> "draft", body |-> b]>> /\ Live \subseteq b

ChannelOK ==
    /\ Quiet \/ Greeted \/ Mirrored \/ News \/ Shown
    /\ Quiet /\ preview # Null /\ ~missed /\ ~Loading => Live \subseteq preview
    /\ Silent => Quiet

(* No edit is missing from the editor, but for those on their way to it.     *)
LiveOK == Mirrored \/ Live \subseteq doc

(* Unsaved edits of the preview are in the editor too.                       *)
DirtyOK == (dirty => editing) /\ (dirty /\ ~Mirrored => doc = preview)

HandlerOK(c) ==
    /\ c.kind = "open" => preview = Null
    /\ Loads(c) => ~editing
    /\ c.kind = "inPlace" => c.body = preview /\ dirty /\ (c.at = "answered" => doc = Working(row))
    /\ c.kind = "reload" => doc = Working(row) /\ (c.at = "answered" => Working(c.reply) = doc)
    /\ c.kind = "discard" => ~editing /\ Live \subseteq row.data
    /\ Discarded(c) => row.draft = Null /\ (c.at = "answered" => c.reply = row)
    /\ News => c.kind = "autosave"
    /\ c.kind = "autosave" /\ (News \/ Busy({"reload"})) => c.body = doc
    /\ ~timer /\ Asks(c) = "patch" /\ c.at = "sent" => c.body = doc
    /\ c.at = "failed" /\ Asks(c) \in {"patch", "get"} => ~Spared

HandlersOK == \A s \in Slots : call[s] # Null => HandlerOK(call[s])

(* Only a live page has an overlay.                                          *)
Plain(r) == r.status = "DRAFT" => r.draft = Null

(* With no timer armed the server has what the editor holds, or is about to. *)
StoredOK ==
    Spared /\ ~timer =>
      \/ doc = Working(row)
      \/ \E s \in Slots : call[s] # Null /\ (Sending(call[s]) \/ Discarded(call[s]))

Sound == /\ PairsOK /\ SavingOK /\ ChannelOK /\ LiveOK /\ DirtyOK
         /\ HandlersOK /\ StoredOK

EInv == Parts /\ Plain(row) /\ (Orderly => Sound)

-----------------------------------------------------------------------------
(* A change of one slot. *)
LEMMA OneSlot ==
    ASSUME CallsOK, NEW s \in Slots, NEW x, call' = [call EXCEPT ![s] = x]
    PROVE  call'[s] = x /\ \A t \in Slots : t # s => call'[t] = call[t]
BY DEF CallsOK

(* What the handlers ask, and when a handler is over. *)
LEMMA AsksOf ==
    ASSUME NEW c \in Calls, OnScript(c)
    PROVE  /\ c.kind \in {"autosave", "save", "inPlace"} => Asks(c) = "patch" /\ c.step = 1
           /\ c.kind \in {"reload", "revert"} => Asks(c) = "get" /\ c.step = 1
           /\ c.kind = "open" => Asks(c) = IF c.step = 1 THEN "patch" ELSE "get"
           /\ c.kind = "discard" => Asks(c) = IF c.step = 1 THEN "discard" ELSE "get"
           /\ Asks(c) = "discard" => c.kind = "discard"
           /\ Asks(c) = "get" => c.kind \in {"discard", "reload"} \/ Loads(c)
           /\ Loads(c) => Asks(c) = "get" /\ Ended(c)
           /\ Asks(c) = "patch" => c.step = 1
           /\ c.kind \in {"autosave", "save", "inPlace", "reload", "revert"} => Ended(c)
           /\ c.kind = "open" => (Ended(c) <=> c.step = 2)
           /\ c.kind = "discard" => (Ended(c) <=> c.step = 2 \/ c.at = "failed")
<1>1. c.kind \in Kinds /\ c.step \in 1..2 /\ c.step <= Len(Script[c.kind])
    BY DEF Calls, OnScript
<1>2. Kinds = {"autosave", "save", "open", "approve", "publish", "publishChanges",
               "unpublish", "discard", "reload", "inPlace", "revert"}
    BY DEF Kinds, Script
<1>3. CASE c.kind \in {"autosave", "save", "inPlace"}
  <2>1. Script[c.kind] = <<"patch">>
      BY <1>3 DEF Script
  <2>2. Len(Script[c.kind]) = 1 /\ Script[c.kind][1] = "patch"
      BY <2>1
  <2> QED
      BY <1>1, <1>3, <2>2 DEF Asks, Ended, Loads
<1>4. CASE c.kind \in {"reload", "revert"}
  <2>1. Script[c.kind] = <<"get">>
      BY <1>4 DEF Script
  <2>2. Len(Script[c.kind]) = 1 /\ Script[c.kind][1] = "get"
      BY <2>1
  <2> QED
      BY <1>1, <1>4, <2>2 DEF Asks, Ended, Loads
<1>5. CASE c.kind = "discard"
  <2>1. Script[c.kind] = <<"discard", "get">>
      BY <1>5 DEF Script
  <2>2. Len(Script[c.kind]) = 2 /\ Script[c.kind][1] = "discard" /\ Script[c.kind][2] = "get"
      BY <2>1
  <2> QED
      BY <1>1, <1>5, <2>2 DEF Asks, Ended, Loads
<1>6. CASE c.kind = "approve"
  <2>1. Script[c.kind] = <<"patch", "approve">>
      BY <1>6 DEF Script
  <2>2. Script[c.kind][1] = "patch" /\ Script[c.kind][2] = "approve"
      BY <2>1
  <2> QED
      BY <1>1, <1>6, <2>2 DEF Asks, Loads
<1>7. CASE c.kind = "publish"
  <2>1. Script[c.kind] = <<"patch", "publish">>
      BY <1>7 DEF Script
  <2>2. Script[c.kind][1] = "patch" /\ Script[c.kind][2] = "publish"
      BY <2>1
  <2> QED
      BY <1>1, <1>7, <2>2 DEF Asks, Loads
<1>8. CASE c.kind \in {"publishChanges", "unpublish"}
  <2>1. Script[c.kind] = <<IF c.kind = "unpublish" THEN "unpublish" ELSE "publish">>
      BY <1>8 DEF Script
  <2>2. Len(Script[c.kind]) = 1 /\ Script[c.kind][1] \in {"publish", "unpublish"}
      BY <2>1
  <2> QED
      BY <1>1, <1>8, <2>2 DEF Asks, Loads
<1>9. CASE c.kind = "open"
  <2>1. Script[c.kind] = <<"patch", "get">>
      BY <1>9 DEF Script
  <2>2. Len(Script[c.kind]) = 2 /\ Script[c.kind][1] = "patch" /\ Script[c.kind][2] = "get"
      BY <2>1
  <2> QED
      BY <1>1, <1>9, <2>2 DEF Asks, Ended, Loads
<1> QED
    BY <1>1, <1>2, <1>3, <1>4, <1>5, <1>6, <1>7, <1>8, <1>9

(* What the requests do to the text a reader of the entry is shown. *)
LEMMA HandledText ==
    ASSUME NEW r \in Rows, Plain(r), NEW q \in Requests, NEW b \in Contents,
           q = "approve" => r.draft # Null
    PROVE  /\ Plain(Handled(r, q, b))
           /\ q = "patch" => Working(Handled(r, q, b)) = b
           /\ q \notin {"patch", "discard"} => Working(Handled(r, q, b)) = Working(r)
           /\ q = "discard" => Handled(r, q, b).draft = Null /\ Handled(r, q, b).data = r.data
           /\ q = "get" => Handled(r, q, b) = r
<1>1. b # Null /\ Working(r) # Null
    BY NullAssumption DEF Working, Rows
<1>2. r = [status |-> r.status, data |-> r.data, draft |-> r.draft, approved |-> r.approved]
    BY DEF Rows
<1>3. r.status \in {"DRAFT", "PUBLISHED"}
    BY DEF Rows
<1> HIDE DEF Rows
<1>4. CASE q = "patch"
  <2>1. Handled(r, q, b) = Patched(r, b)
      BY <1>4 DEF Handled
  <2>2. CASE b = Working(r)
      BY <1>4, <2>1, <2>2 DEF Patched
  <2>3. CASE b # Working(r) /\ r.status = "PUBLISHED"
    <3>1. Handled(r, q, b) = [status |-> "PUBLISHED", data |-> r.data, draft |-> b, approved |-> FALSE]
        BY <1>2, <2>1, <2>3 DEF Patched
    <3> QED
        BY <1>1, <1>4, <3>1 DEF Working, Plain
  <2>4. CASE b # Working(r) /\ r.status = "DRAFT"
    <3>1. Handled(r, q, b) = [status |-> "DRAFT", data |-> b, draft |-> Null, approved |-> r.approved]
        BY <1>2, <2>1, <2>4 DEF Patched, Plain
    <3> QED
        BY <1>1, <1>4, <3>1 DEF Working, Plain
  <2> QED
      BY <1>3, <2>2, <2>3, <2>4
<1>5. CASE q = "approve"
  <2>1. Handled(r, q, b) = [status |-> r.status, data |-> r.data, draft |-> r.draft, approved |-> TRUE]
      BY <1>2, <1>5 DEF Handled
  <2> QED
      BY <1>5, <2>1 DEF Working, Plain
<1>6. CASE q \in {"publish", "unpublish"}
  <2>1. \E st \in {"PUBLISHED", "DRAFT"} :
          Handled(r, q, b) = [status |-> st, data |-> Working(r), draft |-> Null, approved |-> FALSE]
      BY <1>6 DEF Handled, Settled
  <2> QED
      BY <1>6, <2>1 DEF Working, Plain
<1>7. CASE q = "discard"
  <2>1. Handled(r, q, b) = [status |-> r.status, data |-> r.data, draft |-> Null, approved |-> FALSE]
      BY <1>2, <1>7 DEF Handled
  <2> QED
      BY <1>7, <2>1 DEF Plain
<1>8. CASE q = "get"
    BY <1>8 DEF Handled
<1> QED
    BY <1>4, <1>5, <1>6, <1>7, <1>8 DEF Requests

(* While a slot is alone under way, the others are empty. *)
LEMMA Alone ==
    ASSUME PairsOK, NEW s \in Slots, call[s] # Null,
           call[s].kind \notin {"autosave", "reload"}, ~Loads(call[s])
    PROVE  \A t \in Slots : t # s => call[t] = Null
BY DEF PairsOK, Together

(* A handler beside a load is an autosave. *)
LEMMA BesideLoad ==
    ASSUME PairsOK, NEW s \in Slots, call[s] # Null, Loads(call[s])
    PROVE  \A t \in Slots : t # s /\ call[t] # Null =>
              call[t].kind = "autosave" /\ ~Loads(call[t])
BY DEF PairsOK, Together, Loads

LEMMA OneMessage == ASSUME NEW m PROVE <<m>> # <<>> /\ Head(<<m>>) = m /\ Tail(<<m>>) = <<>>
OBVIOUS

(* An empty channel is none of the others. *)
LEMMA QuietShapes == Quiet => ~Greeted /\ ~Mirrored /\ ~News /\ ~Shown
BY DEF Quiet, Greeted, Mirrored, News, Shown

LEMMA NewsAlone ==
    toEditor = <<[kind |-> "saved"]>> => ~Quiet /\ ~Greeted /\ ~Mirrored /\ ~Shown
<1> DEFINE saved == [kind |-> "saved"]
           hello == [kind |-> "hello"]
           draft == [kind |-> "draft", body |-> preview]
<1>1. saved # hello /\ saved # draft
    OBVIOUS
<1> HIDE DEF saved, hello, draft
<1>2. Head(<<saved>>) = saved /\ Head(<<hello>>) = hello /\ Head(<<draft>>) = draft
    BY OneMessage
<1>3. <<saved>> # <<>> /\ <<saved>> # <<hello>> /\ <<saved>> # <<draft>>
    BY <1>1, <1>2, OneMessage
<1> QED
    BY <1>3 DEF Quiet, Greeted, Mirrored, Shown, saved, hello, draft

-----------------------------------------------------------------------------
(* One lemma per action again; the user's steps first. *)
LEMMA StartEditSound ==
    ASSUME Parts, Sound, StartEdit, Orderly'
    PROVE  Sound'
<1>1. Idle /\ Quiet /\ preview # Null /\ ~editing
    BY DEF StartEdit, Waits, Orderly
<1>2. /\ UNCHANGED <<doc, save, timer, call, row, preview, dirty, toEditor, toPreview>>
      /\ UNCHANGED <<made, failed, thrown, missed, overtook>>
    BY DEF StartEdit, canvas, lapses
<1>3. Idle' /\ Quiet'
    BY <1>1, <1>2 DEF Idle, Quiet
<1>4. PairsOK' /\ HandlersOK' /\ ~Silent' /\ ~Loading
    BY <1>1, <1>3 DEF Idle, PairsOK, HandlersOK, Silent, Loading
<1>5. ~Mirrored /\ ~Mirrored'
    BY <1>1, <1>3 DEF Quiet, Mirrored
<1>6. SavingOK'
    BY <1>2 DEF Sound, SavingOK, Busy
<1>7. ChannelOK'
    BY <1>1, <1>2, <1>3, <1>4 DEF Sound, ChannelOK, Live
<1>8. LiveOK' /\ DirtyOK'
    BY <1>1, <1>2, <1>5 DEF Sound, LiveOK, DirtyOK, Live
<1>9. StoredOK'
    BY <1>1, <1>2 DEF Sound, StoredOK, Spared, Idle
<1> QED
    BY <1>4, <1>6, <1>7, <1>8, <1>9 DEF Sound

(* A handler that starts when no other is under way. *)
LEMMA FirstCall ==
    ASSUME Parts, Idle, NEW s \in Slots, NEW k \in Kinds, NEW b \in Contents, Starts(s, k, b)
    PROVE  /\ \A t \in Slots : call'[t] # Null => t = s
           /\ call'[s] # Null
           /\ call'[s] = [kind |-> k, step |-> 1, body |-> b, at |-> "sent", reply |-> Null]
<1> DEFINE c == [kind |-> k, step |-> 1, body |-> b, at |-> "sent", reply |-> Null]
<1>1. c \in Calls
    BY Started
<1>2. c # Null
    BY <1>1, NullAssumption
<1>3. call' = [call EXCEPT ![s] = c]
    BY DEF Starts
<1> HIDE DEF c
<1>4. call'[s] = c /\ \A t \in Slots : t # s => call'[t] = call[t]
    BY <1>3, OneSlot DEF Parts
<1> QED
    BY <1>2, <1>4 DEF Idle, c

LEMMA StopEditSound ==
    ASSUME Parts, Sound, NEW s \in Slots, StopEdit(s), Orderly'
    PROVE  Sound'
<1>1. Idle /\ Quiet /\ editing
    BY DEF StopEdit, Waits, Orderly
<1>2. /\ UNCHANGED <<doc, save, timer, row, toEditor, toPreview, made, failed, overtook>>
      /\ editing' = FALSE /\ dirty' = FALSE /\ thrown \subseteq thrown'
    BY DEF StopEdit, canvas, lapses
<1>3. Quiet'
    BY <1>1, <1>2 DEF Quiet
<1>4. /\ \A t \in Slots : call'[t] # Null => t = s
      /\ call'[s] # Null
      /\ call'[s].kind = "revert" /\ call'[s].at = "sent" /\ call'[s].step = 1
  <2>1. Starts(s, "revert", {}) /\ "revert" \in Kinds /\ {} \in Contents
      BY DEF StopEdit, Kinds, Script, Contents
  <2>2. call'[s] = [kind |-> "revert", step |-> 1, body |-> {}, at |-> "sent", reply |-> Null]
      BY <1>1, <2>1, FirstCall
  <2>3. call'[s] # Null /\ \A t \in Slots : call'[t] # Null => t = s
      BY <1>1, <2>1, FirstCall
  <2> QED
      BY <2>2, <2>3
<1>5. ~Mirrored /\ ~Mirrored' /\ ~News'
    BY <1>1, <1>3 DEF Quiet, Mirrored, News
<1>6. PairsOK'
    BY <1>4 DEF PairsOK
<1>7. SavingOK'
    BY <1>1, <1>2 DEF Sound, SavingOK, Busy, Idle
<1>8. ChannelOK'
  <2>1. Loading' /\ ~Silent'
      BY <1>4 DEF Loading, Loads, Silent, Mutes
  <2> QED
      BY <1>3, <2>1 DEF ChannelOK
<1>9. LiveOK' /\ DirtyOK'
  <2>1. Live' \subseteq Live
      BY <1>2 DEF Live
  <2> QED
      BY <1>2, <1>5, <2>1 DEF Sound, LiveOK, DirtyOK
<1>10. HandlersOK'
  <2>1. Script["revert"][1] = "get"
      BY DEF Script
  <2>2. HandlerOK(call[s])'
      BY <1>2, <1>4, <1>5, <2>1 DEF HandlerOK, Discarded, Loads, Asks
  <2> QED
      BY <1>4, <2>2 DEF HandlersOK
<1>11. StoredOK'
    BY <1>1, <1>2 DEF Sound, StoredOK, Spared, Idle, Working
<1> QED
    BY <1>6, <1>7, <1>8, <1>9, <1>10, <1>11 DEF Sound

LEMMA SaveInPlaceSound ==
    ASSUME Parts, Sound, NEW s \in Slots, SaveInPlace(s), Orderly'
    PROVE  Sound'
<1>1. Idle /\ Quiet /\ editing /\ dirty
    BY DEF SaveInPlace, Waits, Orderly
<1>2. /\ UNCHANGED <<doc, save, timer, row, preview, editing, dirty, toEditor, toPreview>>
      /\ UNCHANGED <<made, failed, thrown, missed, overtook>>
    BY DEF SaveInPlace, canvas, tabs, lapses
<1>3. Quiet'
    BY <1>1, <1>2 DEF Quiet
<1>4. preview \in Contents /\ "inPlace" \in Kinds
    BY <1>1 DEF Parts, TabsOK, Kinds, Script
<1>5. /\ \A t \in Slots : call'[t] # Null => t = s
      /\ call'[s].kind = "inPlace" /\ call'[s].body = preview /\ call'[s].at = "sent"
  <2>1. Starts(s, "inPlace", preview)
      BY DEF SaveInPlace
  <2>2. call'[s] = [kind |-> "inPlace", step |-> 1, body |-> preview, at |-> "sent", reply |-> Null]
      BY <1>1, <1>4, <2>1, FirstCall
  <2>3. \A t \in Slots : call'[t] # Null => t = s
      BY <1>1, <1>4, <2>1, FirstCall
  <2> QED
      BY <2>2, <2>3
<1>6. ~Mirrored /\ ~Mirrored' /\ ~News'
    BY <1>1, <1>3 DEF Quiet, Mirrored, News
<1>7. PairsOK'
    BY <1>5 DEF PairsOK
<1>8. SavingOK'
    BY <1>1, <1>2 DEF Sound, SavingOK, Busy, Idle
<1>9. ChannelOK'
  <2>1. ~Loading
      BY <1>1 DEF Loading, Idle
  <2> QED
      BY <1>1, <1>2, <1>3, <2>1 DEF Sound, ChannelOK, Live
<1>10. LiveOK' /\ DirtyOK'
    BY <1>1, <1>2, <1>6 DEF Sound, LiveOK, DirtyOK, Live
<1>11. HandlersOK'
  <2>1. HandlerOK(call[s])'
    <3>1. doc' = preview'
        BY <1>1, <1>2, <1>6 DEF Sound, DirtyOK
    <3> QED
        BY <1>1, <1>2, <1>5, <1>6, <3>1 DEF HandlerOK, Discarded, Loads
  <2> QED
      BY <1>5, <2>1 DEF HandlersOK
<1>12. StoredOK'
    BY <1>1, <1>2 DEF Sound, StoredOK, Spared, Idle
<1> QED
    BY <1>7, <1>8, <1>9, <1>10, <1>11, <1>12 DEF Sound

LEMMA ClickSound ==
    ASSUME Parts, Sound, NEW s \in Slots, NEW kind \in Kinds, Click(s, kind), Orderly'
    PROVE  Sound'
<1>1. Idle /\ Quiet /\ ~editing /\ Offered(kind)
    BY DEF Click, Waits, Orderly
<1>2. UNCHANGED <<doc, timer, row, preview, editing, dirty, toEditor, toPreview, made, failed,
                  missed, overtook>>
    BY DEF Click, tabs, lapses
<1>3. Quiet'
    BY <1>1, <1>2 DEF Quiet
<1>4. doc \in Contents
    BY DEF Parts, CanvasOK
<1>5. /\ \A t \in Slots : call'[t] # Null => t = s
      /\ call'[s] # Null
      /\ call'[s].kind = kind /\ call'[s].body = doc /\ call'[s].at = "sent" /\ call'[s].step = 1
  <2>1. Starts(s, kind, doc)
      BY DEF Click
  <2>2. call'[s] = [kind |-> kind, step |-> 1, body |-> doc, at |-> "sent", reply |-> Null]
      BY <1>1, <1>4, <2>1, FirstCall
  <2>3. call'[s] # Null /\ \A t \in Slots : call'[t] # Null => t = s
      BY <1>1, <1>4, <2>1, FirstCall
  <2> QED
      BY <2>2, <2>3
<1>6. ~Mirrored /\ ~Mirrored' /\ ~News'
    BY <1>1, <1>3 DEF Quiet, Mirrored, News
<1>7. PairsOK'
    BY <1>5 DEF PairsOK
<1>8. SavingOK'
    BY <1>1, <1>5 DEF Sound, SavingOK, Busy, Idle, Click
<1>9. Live' \subseteq Live /\ (kind = "discard" => Live' \subseteq row.data)
    BY <1>2 DEF Live, Click
<1>10. ChannelOK'
  <2>1. ~Loading
      BY <1>1 DEF Loading, Idle
  <2> QED
      BY <1>1, <1>2, <1>3, <1>9, <2>1 DEF Sound, ChannelOK
<1>11. LiveOK' /\ DirtyOK'
    BY <1>1, <1>2, <1>6, <1>9 DEF Sound, LiveOK, DirtyOK
<1>12. HandlersOK'
  <2>1. kind = "open" => preview = Null
      BY <1>1 DEF Offered
  <2>2. kind \notin {"inPlace", "reload"}
      BY <1>1 DEF Offered
  <2>3. HandlerOK(call[s])'
      BY <1>1, <1>2, <1>5, <1>6, <1>9, <2>1, <2>2 DEF HandlerOK, Discarded, Loads
  <2> QED
      BY <1>5, <2>3 DEF HandlersOK
<1>13. StoredOK'
    BY <1>1, <1>2 DEF Sound, StoredOK, Spared, Idle
<1> QED
    BY <1>7, <1>8, <1>10, <1>11, <1>12, <1>13 DEF Sound

LEMMA EditSound ==
    ASSUME Parts, Sound, Edit, Orderly'
    PROVE  Sound'
<1>1. ~editing /\ Quiet /\ ~Busy({"discard", "reload", "inPlace"})
    BY DEF Edit, Waits, Orderly
<1>2. UNCHANGED <<call, row, preview, editing, dirty, toEditor, failed, thrown, missed, overtook>>
    BY DEF Edit, lapses
<1> PICK e \in (1..MaxEdits) \ made :
      /\ Bump(doc \cup {e})
      /\ made' = made \cup {e}
      /\ toPreview' = IF preview = Null /\ ~Loading THEN toPreview
                      ELSE Append(toPreview, [kind |-> "draft", body |-> doc'])
    BY DEF Edit
<1>3. doc' = doc \cup {e} /\ timer' = TRUE /\ (save' = "saving" => save = "saving")
    BY DEF Bump
<1>4. ~Mirrored /\ ~News' /\ ~Mirrored' /\ toEditor' = <<>>
    BY <1>1, <1>2 DEF Quiet, Mirrored, News
<1>5. Live' \subseteq doc' /\ doc' \in Contents
  <2>1. Live \subseteq doc
      BY <1>4 DEF Sound, LiveOK
  <2>2. Live' \subseteq Live \cup {e}
      BY <1>2 DEF Live
  <2>3. doc' \in Contents
      BY <1>3 DEF Parts, CanvasOK, Contents
  <2> QED
      BY <1>3, <2>1, <2>2, <2>3
<1>6. PairsOK' /\ SavingOK'
    BY <1>2, <1>3 DEF Sound, PairsOK, Together, Loads, SavingOK, Busy
<1>7. ASSUME preview = Null, ~Loading PROVE ChannelOK'
  <2>1. Quiet' /\ preview' = Null
      BY <1>1, <1>2, <1>7 DEF Quiet
  <2> QED
      BY <2>1 DEF ChannelOK
<1>8. ASSUME preview # Null \/ Loading PROVE ChannelOK'
  <2>1. toPreview' = <<[kind |-> "draft", body |-> doc']>>
      BY <1>1, <1>8 DEF Quiet
  <2>2. Shown'
      BY <1>1, <1>2, <1>4, <1>5, <1>8, <2>1 DEF Shown
  <2>3. ~Silent
    <3> SUFFICES ASSUME NEW t \in Slots, call[t] # Null, call[t].kind = "open", call[t].step = 1
                 PROVE  FALSE
        BY <1>1 DEF Silent, Mutes, Busy
    <3>1. preview = Null
        BY DEF Sound, HandlersOK, HandlerOK
    <3>2. ~Loads(call[t])
        BY DEF Loads
    <3>3. \A u \in Slots : u # t => call[u] = Null
        BY <3>2, Alone DEF Sound
    <3> QED
        BY <1>8, <3>1, <3>2, <3>3 DEF Loading
  <2>4. ~Silent'
      BY <1>2, <2>3 DEF Silent, Mutes
  <2>5. ~Quiet'
    <3>1. toPreview' # <<>>
        BY <2>1, OneMessage
    <3> QED
        BY <3>1 DEF Quiet
  <2> QED
      BY <2>2, <2>4, <2>5 DEF ChannelOK
<1>9. LiveOK' /\ DirtyOK'
    BY <1>1, <1>2, <1>5 DEF LiveOK, DirtyOK, Sound
<1>10. HandlersOK'
  <2> SUFFICES ASSUME NEW t \in Slots, call[t] # Null
               PROVE  HandlerOK(call[t])'
      BY <1>2 DEF HandlersOK
  <2>1. HandlerOK(call[t]) /\ call'[t] = call[t]
      BY <1>2 DEF Sound, HandlersOK
  <2>2. call[t].kind \notin {"discard", "reload", "inPlace"}
      BY <1>1 DEF Busy
  <2>3. ~Busy({"reload"})'
      BY <1>1, <1>2 DEF Busy
  <2>4. Spared' = Spared
      BY <1>2 DEF Spared
  <2> QED
      BY <1>2, <1>3, <1>4, <2>1, <2>2, <2>3, <2>4 DEF HandlerOK, Discarded, Loads, Asks
<1>11. StoredOK'
    BY <1>3 DEF StoredOK
<1> QED
    BY <1>6, <1>7, <1>8, <1>9, <1>10, <1>11 DEF Sound

LEMMA EditInPlaceSound ==
    ASSUME Parts, Sound, EditInPlace, Orderly'
    PROVE  Sound'
<1>1. editing /\ Quiet /\ ~Busy({"inPlace", "reload"})
    BY DEF EditInPlace, Waits, Orderly
<1>2. /\ UNCHANGED <<doc, save, timer, call, row, editing, toPreview, failed, thrown, missed>>
      /\ overtook' = (overtook \/ missed)
    BY DEF EditInPlace, canvas
<1> PICK e \in (1..MaxEdits) \ made :
      preview' = preview \cup {e} /\ made' = made \cup {e}
    BY DEF EditInPlace
<1>3. preview # Null
    BY <1>1, NullAssumption DEF Parts, TabsOK
<1>4. dirty' = TRUE /\ toEditor' = <<[kind |-> "draft", body |-> preview']>> /\ toPreview' = <<>>
    BY <1>1, <1>2 DEF EditInPlace, Quiet
<1>5. Mirrored' /\ ~News'
  <2>1. ~Loading
      BY <1>1 DEF Sound, HandlersOK, HandlerOK, Loading
  <2>2. missed \/ Live \subseteq preview
      BY <1>1, <1>3, <2>1 DEF Sound, ChannelOK
  <2>3. Live' \subseteq preview'
    <3>1. CASE missed
        BY <1>2, <3>1 DEF Live
    <3>2. CASE ~missed
      <4>1. Live' \subseteq Live \cup {e}
          BY <1>2, <3>2 DEF Live
      <4> QED
          BY <2>2, <3>2, <4>1
    <3> QED
        BY <3>1, <3>2
  <2> QED
      BY <1>1, <1>2, <1>4, <2>3 DEF Mirrored, News
<1>6. PairsOK' /\ SavingOK'
    BY <1>2 DEF Sound, PairsOK, Together, Loads, SavingOK, Busy
<1>7. ~Silent /\ ~Silent'
  <2>1. ~Silent
      BY <1>1, <1>3 DEF Sound, HandlersOK, HandlerOK, Busy, Silent, Mutes
  <2> QED
      BY <1>2, <2>1 DEF Silent, Mutes
<1>8. ChannelOK'
  <2>1. ~Quiet'
      BY <1>4 DEF Quiet
  <2> QED
      BY <1>5, <1>7, <2>1 DEF ChannelOK
<1>9. LiveOK' /\ DirtyOK'
    BY <1>1, <1>2, <1>5 DEF LiveOK, DirtyOK
<1>10. HandlersOK'
  <2> SUFFICES ASSUME NEW t \in Slots, call[t] # Null
               PROVE  HandlerOK(call[t])'
      BY <1>2 DEF HandlersOK
  <2>1. HandlerOK(call[t]) /\ call'[t] = call[t]
      BY <1>2 DEF Sound, HandlersOK
  <2>2. call[t].kind \notin {"discard", "reload", "inPlace", "open"}
      BY <1>3, <1>7, <2>1 DEF Silent, Mutes, HandlerOK
  <2>3. ~Busy({"reload"})'
      BY <1>1, <1>2 DEF Busy
  <2>4. Spared' = Spared
      BY <1>2 DEF Spared
  <2> QED
      BY <1>2, <1>5, <2>1, <2>2, <2>3, <2>4 DEF HandlerOK, Discarded, Loads, Asks
<1>11. StoredOK'
    BY <1>2 DEF Sound, StoredOK, Spared, Sending, Discarded, Asks
<1> QED
    BY <1>6, <1>8, <1>9, <1>10, <1>11 DEF Sound

LEMMA TimerSound ==
    ASSUME Parts, Sound, NEW s \in Slots, Timer(s), Orderly'
    PROVE  Sound'
<1>1. \A t \in Slots : call[t] # Null => Loads(call[t])
    BY DEF Timer, Orderly
<1>2. save # "saving"
    BY <1>1 DEF Sound, SavingOK, Busy, ShowSaving, Loads
<1>3. Starts(s, "autosave", doc)
    BY <1>2 DEF Timer
<1>4. /\ UNCHANGED <<doc, row, preview, editing, dirty, toEditor, toPreview>>
      /\ UNCHANGED <<made, failed, thrown, missed, overtook>>
    BY DEF Timer, tabs, lapses
<1>5. doc \in Contents /\ "autosave" \in Kinds
    BY DEF Parts, CanvasOK, Kinds, Script
<1>6. /\ call[s] = Null /\ call'[s] # Null
      /\ call'[s] = [kind |-> "autosave", step |-> 1, body |-> doc, at |-> "sent", reply |-> Null]
      /\ \A t \in Slots : t # s => call'[t] = call[t]
  <2> DEFINE c == [kind |-> "autosave", step |-> 1, body |-> doc, at |-> "sent", reply |-> Null]
  <2>1. c \in Calls
      BY <1>5, Started
  <2>2. call' = [call EXCEPT ![s] = c] /\ call[s] = Null
      BY <1>3 DEF Starts
  <2>3. c # Null
      BY <2>1, NullAssumption
  <2> HIDE DEF c
  <2>4. call'[s] = c /\ \A t \in Slots : t # s => call'[t] = call[t]
      BY <2>2, OneSlot DEF Parts
  <2> QED
      BY <2>2, <2>3, <2>4 DEF c
<1>7. PairsOK'
  <2> SUFFICES ASSUME NEW t \in Slots, NEW u \in Slots, t # u, call'[t] # Null, call'[u] # Null
               PROVE  Together(call'[t], call'[u]) \/ Together(call'[u], call'[t])
      BY DEF PairsOK, Together, Loads
  <2>1. CASE t # s /\ u # s
      BY <1>6, <2>1 DEF Sound, PairsOK
  <2>2. CASE t = s
      BY <1>1, <1>6, <2>2 DEF Together
  <2>3. CASE u = s
      BY <1>1, <1>6, <2>3 DEF Together
  <2> QED
      BY <2>1, <2>2, <2>3
<1>8. SavingOK'
    BY <1>6 DEF SavingOK, Busy, ShowSaving
<1>9. ChannelOK'
  <2>1. ~Silent'
    <3> SUFFICES ASSUME NEW t \in Slots, call'[t] # Null PROVE ~Mutes(call'[t])
        BY DEF Silent, Mutes
    <3> QED
        BY <1>1, <1>6 DEF Mutes, Loads
  <2>2. Loading' <=> Loading
      BY <1>6 DEF Loading, Loads
  <2> QED
      BY <1>4, <2>1, <2>2 DEF Sound, ChannelOK, Quiet, Greeted, Mirrored, News, Shown, Live, Working
<1>10. LiveOK' /\ DirtyOK'
    BY <1>4 DEF Sound, LiveOK, DirtyOK, Live, Mirrored
<1>11. HandlersOK'
  <2>1. HandlerOK(call[s])'
      BY <1>4, <1>6 DEF HandlerOK, Loads, Discarded
  <2>2. ASSUME NEW t \in Slots, t # s, call'[t] # Null PROVE HandlerOK(call[t])'
    <3>1. HandlerOK(call[t]) /\ call'[t] = call[t] /\ Loads(call[t])
        BY <1>1, <1>6, <2>2 DEF Sound, HandlersOK
    <3>2. Asks(call[t]) = "get"
        BY <1>6, <2>2, <3>1, AsksOf DEF Parts, CallsOK
    <3>3. ~editing
        BY <3>1 DEF HandlerOK
    <3> QED
        BY <1>4, <3>1, <3>2, <3>3 DEF HandlerOK, Loads, Discarded, Asks, News, Spared
  <2> QED
      BY <1>6, <2>1, <2>2 DEF HandlersOK
<1>12. StoredOK'
  <2>1. Script["autosave"][1] = "patch"
      BY DEF Script
  <2>2. Sending(call[s])'
      BY <1>4, <1>6, <2>1 DEF Sending, Asks
  <2> QED
      BY <1>6, <2>2 DEF StoredOK
<1> QED
    BY <1>7, <1>8, <1>9, <1>10, <1>11, <1>12 DEF Sound

(* Steps that leave every handler where it is change nobody's company. *)
LEMMA SameKinds ==
    ASSUME \A t \in Slots : /\ call'[t] = Null <=> call[t] = Null
                            /\ call[t] # Null => /\ call'[t].kind = call[t].kind
                                                /\ call'[t].step = call[t].step
    PROVE  /\ PairsOK => PairsOK'
           /\ Silent' <=> Silent
           /\ Loading' <=> Loading
           /\ Busy(ShowSaving)' <=> Busy(ShowSaving)
           /\ Busy({"reload"})' <=> Busy({"reload"})
<1>1. \A t \in Slots : call[t] # Null =>
          (Loads(call'[t]) <=> Loads(call[t])) /\ (Mutes(call'[t]) <=> Mutes(call[t]))
    BY DEF Loads, Mutes
<1>2. PairsOK => PairsOK'
  <2> SUFFICES ASSUME PairsOK, NEW t \in Slots, NEW u \in Slots, t # u, call'[t] # Null, call'[u] # Null
               PROVE  Together(call'[t], call'[u]) \/ Together(call'[u], call'[t])
      BY DEF PairsOK, Together, Loads
  <2>1. Together(call[t], call[u]) \/ Together(call[u], call[t])
      BY DEF PairsOK
  <2> QED
      BY <1>1, <2>1 DEF Together
<1>3. (Silent' <=> Silent) /\ (Loading' <=> Loading)
  <2>1. Silent' <=> \E t \in Slots : call'[t] # Null /\ Mutes(call'[t])
      BY DEF Silent, Mutes
  <2>2. Loading' <=> \E t \in Slots : call'[t] # Null /\ Loads(call'[t])
      BY DEF Loading, Loads
  <2> QED
      BY <1>1, <2>1, <2>2 DEF Silent, Loading
<1>4. /\ Busy(ShowSaving)' <=> Busy(ShowSaving)
      /\ Busy({"reload"})' <=> Busy({"reload"})
    BY DEF Busy
<1> QED
    BY <1>2, <1>3, <1>4

(* An answer or a failure reaches a call: its kind, step and body stay. *)
LEMMA CallFields ==
    ASSUME NEW c \in Calls
    PROVE  /\ \A r : LET d == [c EXCEPT !.at = "answered", !.reply = r]
                     IN  /\ d.kind = c.kind /\ d.step = c.step /\ d.body = c.body
                         /\ d.at = "answered" /\ d.reply = r
           /\ LET d == [c EXCEPT !.at = "failed"]
              IN  /\ d.kind = c.kind /\ d.step = c.step /\ d.body = c.body
                  /\ d.at = "failed"
           /\ LET d == [c EXCEPT !.step = c.step + 1, !.at = "sent", !.reply = Null]
              IN  /\ d.kind = c.kind /\ d.step = c.step + 1 /\ d.body = c.body
                  /\ d.at = "sent"
BY DEF Calls

LEMMA ServeSound ==
    ASSUME Parts, Plain(row), Sound, NEW s \in Slots, Serve(s)
    PROVE  Sound'
<1> DEFINE c == call[s]
<1>1. c \in Calls /\ OnScript(c) /\ c # Null /\ c.at = "sent" /\ HandlerOK(c)
    BY DEF Parts, CallsOK, Serve, Sound, HandlersOK
<1>2. /\ UNCHANGED <<doc, save, timer, preview, editing, dirty, toEditor, toPreview>>
      /\ UNCHANGED <<made, failed, thrown, missed, overtook>>
    BY DEF Serve, canvas, tabs, history, past, lapses
<1>3. /\ call'[s] # Null /\ call'[s].kind = c.kind /\ call'[s].step = c.step
      /\ call'[s].body = c.body /\ call'[s].at = "answered" /\ call'[s].reply = row'
      /\ \A t \in Slots : t # s => call'[t] = call[t]
  <2> DEFINE d == [c EXCEPT !.at = "answered", !.reply = row']
  <2>1. row' \in Rows
      BY ServeParts DEF Parts
  <2>2. d \in Calls
      BY <1>1, <2>1, CallUpdates
  <2>3. /\ d.kind = c.kind /\ d.step = c.step /\ d.body = c.body
        /\ d.at = "answered" /\ d.reply = row'
      BY <1>1, CallFields
  <2>4. call' = [call EXCEPT ![s] = d]
      BY DEF Serve
  <2> HIDE DEF d
  <2>5. call'[s] = d /\ \A t \in Slots : t # s => call'[t] = call[t]
      BY <2>4, OneSlot DEF Parts
  <2>6. d # Null
      BY <2>2, NullAssumption
  <2> QED
      BY <2>3, <2>5, <2>6
<1>4. /\ PairsOK' /\ (Silent' <=> Silent) /\ (Loading' <=> Loading)
      /\ Busy(ShowSaving)' <=> Busy(ShowSaving)
      /\ Busy({"reload"})' <=> Busy({"reload"})
  <2>1. \A t \in Slots : /\ call'[t] = Null <=> call[t] = Null
                         /\ call[t] # Null => /\ call'[t].kind = call[t].kind
                                             /\ call'[t].step = call[t].step
      BY <1>1, <1>3
  <2> QED
      BY <2>1, SameKinds DEF Sound
<1> DEFINE q == Asks(c)
<1>5. /\ q = "patch" => Working(row') = c.body
      /\ q \notin {"patch", "discard"} => Working(row') = Working(row)
      /\ q = "discard" => row'.draft = Null /\ row'.data = row.data
      /\ q = "get" => row' = row
  <2>1. q \in Requests /\ c.body \in Contents /\ row \in Rows
      BY <1>1, AsksRequest DEF Calls, Parts
  <2>2. row' = Handled(row, q, c.body) /\ (q = "approve" => row.draft # Null)
      BY DEF Serve
  <2> HIDE DEF c, q
  <2> QED
      BY <2>1, <2>2, HandledText
<1>6. News => News' /\ c.kind = "autosave" /\ c.body = doc
  <2> SUFFICES ASSUME News PROVE News' /\ c.kind = "autosave" /\ c.body = doc
      OBVIOUS
  <2>1. c.kind = "autosave" /\ c.body = doc
      BY <1>1 DEF HandlerOK
  <2>2. Working(row') = doc
      BY <1>1, <1>5, <2>1, AsksOf
  <2> QED
      BY <1>2, <2>1, <2>2 DEF News, Live
<1>7. /\ Quiet' <=> Quiet
      /\ Greeted' <=> Greeted
      /\ Mirrored' <=> Mirrored
      /\ Shown' <=> Shown
      /\ News' => News
  <2>1. Quiet' <=> Quiet
      BY <1>2 DEF Quiet
  <2>2. (Greeted' <=> Greeted) /\ (Mirrored' <=> Mirrored) /\ (Shown' <=> Shown)
      BY <1>2 DEF Greeted, Mirrored, Shown, Live
  <2>3. News' => toEditor = <<[kind |-> "saved"]>>
      BY <1>2 DEF News
  <2>4. toEditor = <<[kind |-> "saved"]>> => ~Quiet /\ ~Greeted /\ ~Mirrored /\ ~Shown
      BY NewsAlone
  <2> QED
      BY <2>1, <2>2, <2>3, <2>4 DEF Sound, ChannelOK
<1>8. SavingOK' /\ LiveOK' /\ DirtyOK'
    BY <1>2, <1>4, <1>7 DEF Sound, SavingOK, LiveOK, DirtyOK, Live
<1>9. ChannelOK'
    BY <1>2, <1>4, <1>6, <1>7 DEF Sound, ChannelOK, Live
<1>10. HandlersOK'
  <2>1. ASSUME NEW t \in Slots, t # s, call[t] # Null
        PROVE  HandlerOK(call[t])'
    <3>1. HandlerOK(call[t]) /\ call'[t] = call[t] /\ Spared' = Spared /\ Live' = Live
        BY <1>2, <1>3, <2>1 DEF Sound, HandlersOK, Spared, Live
    <3>2. Together(c, call[t]) \/ Together(call[t], c)
        BY <1>1, <2>1 DEF Sound, PairsOK
    <3>3. CASE call[t].kind = "reload"
      <4>1. c.kind = "autosave" /\ Busy({"reload"})
          BY <2>1, <3>2, <3>3 DEF Busy, Together
      <4>2. c.body = doc
          BY <1>1, <4>1 DEF HandlerOK
      <4>3. Working(row') = doc
          BY <1>1, <1>5, <4>1, <4>2, AsksOf
      <4>4. ~News
          BY <3>1, <3>3 DEF HandlerOK
      <4> QED
          BY <1>2, <1>4, <1>7, <3>1, <3>3, <4>3, <4>4 DEF HandlerOK, Discarded, Loads, Asks
    <3>4. CASE call[t].kind = "autosave"
        BY <1>2, <1>4, <1>7, <3>1, <3>4 DEF HandlerOK, Discarded, Loads, Asks
    <3>5. CASE Loads(call[t])
      <4>1. ~News
          BY <3>1, <3>5 DEF HandlerOK, News
      <4>2. Asks(call[t]) = "get" /\ call[t].kind \in {"open", "revert"}
          BY <2>1, <3>5, AsksOf DEF Parts, CallsOK, Loads
      <4> QED
          BY <1>2, <1>7, <3>1, <3>5, <4>1, <4>2 DEF HandlerOK, Discarded, Loads, Asks
    <3> QED
        BY <3>2, <3>3, <3>4, <3>5 DEF Together
  <2>2. HandlerOK(call[s])'
    <3>1. c.kind = "inPlace" => doc = Working(row')
      <4> SUFFICES ASSUME c.kind = "inPlace" PROVE doc = Working(row')
          OBVIOUS
      <4>1. Quiet
          BY <1>1 DEF Sound, ChannelOK, Silent, Mutes
      <4>2. doc = preview
          BY <1>1, <4>1, QuietShapes DEF Sound, DirtyOK, HandlerOK
      <4> QED
          BY <1>1, <1>5, <4>2, AsksOf DEF HandlerOK
    <3>2. c.kind = "reload" => doc = Working(row')
        BY <1>1, <1>5, AsksOf DEF HandlerOK
    <3>3. c.kind = "discard" => row'.draft = Null /\ row'.data = row.data
      <4>1. CASE c.step = 1
          BY <1>1, <1>5, <4>1, AsksOf
      <4>2. CASE c.step # 1
        <5>1. c.step = 2
            BY <1>1, <4>2 DEF Calls
        <5> QED
            BY <1>1, <1>5, <4>2, <5>1, AsksOf DEF HandlerOK, Discarded
      <4> QED
          BY <4>1, <4>2
    <3> QED
        BY <1>1, <1>2, <1>3, <1>4, <1>7, <3>1, <3>2, <3>3 DEF HandlerOK, Discarded, Loads, Live
  <2> QED
      BY <1>3, <2>1, <2>2 DEF HandlersOK
<1>11. StoredOK'
  <2> SUFFICES ASSUME Spared, ~timer, doc # Working(row')
               PROVE  \E t \in Slots : call'[t] # Null /\ (Sending(call[t])' \/ Discarded(call[t])')
      BY <1>2 DEF StoredOK, Spared
  <2>1. q # "patch"
      BY <1>1, <1>5 DEF HandlerOK
  <2>2. CASE q = "discard"
    <3>1. c.kind = "discard"
        BY <1>1, <2>2, AsksOf
    <3> QED
        BY <1>3, <3>1 DEF Discarded
  <2>3. CASE q # "discard"
    <3>1. doc # Working(row)
        BY <1>5, <2>1, <2>3
    <3>2. PICK t \in Slots : call[t] # Null /\ (Sending(call[t]) \/ Discarded(call[t]))
        BY <3>1 DEF Sound, StoredOK
    <3>3. CASE t # s
        BY <1>2, <1>3, <3>2, <3>3 DEF Sending, Discarded, Asks
    <3>4. CASE t = s
      <4>1. Discarded(c)
          BY <2>1, <3>2, <3>4 DEF Sending
      <4> QED
          BY <1>3, <4>1 DEF Discarded
    <3> QED
        BY <3>3, <3>4
  <2> QED
      BY <2>2, <2>3
<1> QED
    BY <1>4, <1>8, <1>9, <1>10, <1>11 DEF Sound

LEMMA RefuseSound ==
    ASSUME Parts, Sound, NEW s \in Slots, Refuse(s)
    PROVE  Sound'
<1> DEFINE c == call[s]
<1>1. c \in Calls /\ OnScript(c) /\ c # Null /\ c.at = "sent" /\ HandlerOK(c)
    BY DEF Parts, CallsOK, Refuse, Sound, HandlersOK
<1>2. /\ UNCHANGED <<doc, save, timer, row, preview, editing, dirty, toEditor, toPreview>>
      /\ UNCHANGED <<made, thrown, missed, overtook>>
    BY DEF Refuse, canvas, tabs, lapses
<1>3. /\ call'[s] # Null /\ call'[s].kind = c.kind /\ call'[s].step = c.step
      /\ call'[s].body = c.body /\ call'[s].at = "failed"
      /\ \A t \in Slots : t # s => call'[t] = call[t]
  <2> DEFINE d == [c EXCEPT !.at = "failed"]
  <2>1. d \in Calls
      BY <1>1, CallUpdates
  <2>2. d.kind = c.kind /\ d.step = c.step /\ d.body = c.body /\ d.at = "failed"
      BY <1>1, CallFields
  <2>3. call' = [call EXCEPT ![s] = d]
      BY DEF Refuse
  <2> HIDE DEF d
  <2>4. call'[s] = d /\ \A t \in Slots : t # s => call'[t] = call[t]
      BY <2>3, OneSlot DEF Parts
  <2>5. d # Null
      BY <2>1, NullAssumption
  <2> QED
      BY <2>2, <2>4, <2>5
<1>4. /\ PairsOK' /\ (Silent' <=> Silent) /\ (Loading' <=> Loading)
      /\ Busy(ShowSaving)' <=> Busy(ShowSaving)
      /\ Busy({"reload"})' <=> Busy({"reload"})
  <2>1. \A t \in Slots : /\ call'[t] = Null <=> call[t] = Null
                         /\ call[t] # Null => /\ call'[t].kind = call[t].kind
                                             /\ call'[t].step = call[t].step
      BY <1>1, <1>3
  <2> QED
      BY <2>1, SameKinds DEF Sound
<1>5. /\ Spared' => Spared
      /\ Asks(c) \in {"patch", "get"} => ~Spared'
  <2>1. failed \in {"patch", "get"} => failed # Null
      BY NullAssumption DEF Requests
  <2>2. \/ Asks(c) = "approve" /\ failed' = failed
        \/ failed = Null /\ failed' = Asks(c)
      BY DEF Refuse
  <2> QED
      BY <2>1, <2>2 DEF Spared
<1>6. SavingOK' /\ LiveOK' /\ DirtyOK'
    BY <1>2, <1>4 DEF Sound, SavingOK, LiveOK, DirtyOK, Live, Mirrored
<1>7. ChannelOK'
    BY <1>2, <1>4 DEF Sound, ChannelOK, Quiet, Greeted, Mirrored, News, Shown, Live, Working
<1>8. News' <=> News
    BY <1>2 DEF News, Live, Working
<1>9. HandlersOK'
  <2>1. ASSUME NEW t \in Slots, t # s, call[t] # Null
        PROVE  HandlerOK(call[t])'
    <3>1. HandlerOK(call[t]) /\ call'[t] = call[t] /\ Live' = Live
        BY <1>2, <1>3, <2>1 DEF Sound, HandlersOK, Live
    <3> QED
        BY <1>2, <1>4, <1>5, <1>8, <3>1 DEF HandlerOK, Discarded, Loads, Asks, Working
  <2>2. HandlerOK(call[s])'
    <3>1. Asks(call[s])' = Asks(c) /\ Live' = Live
        BY <1>2, <1>3 DEF Asks, Live
    <3> QED
        BY <1>1, <1>2, <1>3, <1>4, <1>5, <1>8, <3>1 DEF HandlerOK, Discarded, Loads, Working
  <2> QED
      BY <1>3, <2>1, <2>2 DEF HandlersOK
<1>10. StoredOK'
  <2> SUFFICES ASSUME Spared', ~timer, doc # Working(row)
               PROVE  \E t \in Slots : call'[t] # Null /\ (Sending(call[t])' \/ Discarded(call[t])')
      BY <1>2 DEF StoredOK, Working
  <2>1. PICK t \in Slots : call[t] # Null /\ (Sending(call[t]) \/ Discarded(call[t]))
      BY <1>5 DEF Sound, StoredOK
  <2>2. CASE t # s
      BY <1>2, <1>3, <2>1, <2>2 DEF Sending, Discarded, Asks
  <2>3. CASE t = s
    <3>1. ~Sending(c)
        BY <1>5 DEF Sending
    <3>2. Discarded(c)
        BY <2>1, <2>3, <3>1
    <3> QED
        BY <1>1, <1>3, <3>2 DEF Discarded
  <2> QED
      BY <2>2, <2>3
<1> QED
    BY <1>4, <1>6, <1>7, <1>9, <1>10 DEF Sound

(* A handler goes on to its next request or is over. *)
LEMMA Goes ==
    ASSUME Parts, NEW s \in Slots, call[s] # Null, Proceed(s)
    PROVE  /\ \A t \in Slots : t # s => call'[t] = call[t]
           /\ Ended(call[s]) => call'[s] = Null
           /\ ~Ended(call[s]) => /\ call'[s] # Null /\ call'[s].kind = call[s].kind
                                 /\ call'[s].step = 2 /\ call'[s].at = "sent"
                                 /\ call[s].step = 1
                                 /\ call[s].kind = "open" \/ call[s].at # "failed"
                                 /\ Asks(call'[s]) # "patch"
<1> DEFINE c == call[s]
           d == [c EXCEPT !.step = c.step + 1, !.at = "sent", !.reply = Null]
           x == IF Ended(c) THEN Null ELSE d
<1>1. c \in Calls /\ OnScript(c)
    BY DEF Parts, CallsOK
<1>2. call' = [call EXCEPT ![s] = x]
    BY DEF Proceed, Advanced
<1>3. ~Ended(c) => d \in Calls /\ OnScript(d)
    BY <1>1, CallUpdates
<1>4. d.kind = c.kind /\ d.at = "sent" /\ d.step = c.step + 1
    BY <1>1, CallFields
<1> HIDE DEF d
<1>5. ~Ended(c) => /\ d.step = 2 /\ c.step = 1 /\ d # Null
                   /\ c.kind = "open" \/ c.at # "failed"
  <2> SUFFICES ASSUME ~Ended(c)
               PROVE  /\ d.step = 2 /\ c.step = 1 /\ d # Null
                      /\ c.kind = "open" \/ c.at # "failed"
      OBVIOUS
  <2>1. c.step \in 1..2 /\ d.step \in 1..2 /\ (c.kind = "open" \/ c.at # "failed")
      BY <1>1, <1>3 DEF Calls, Ended
  <2> QED
      BY <1>3, <1>4, <2>1, NullAssumption
<1>6. ~Ended(c) => Asks(d) # "patch"
    BY <1>3, <1>5, AsksOf
<1>7. call'[s] = x /\ \A t \in Slots : t # s => call'[t] = call[t]
    BY <1>2, OneSlot DEF Parts
<1> QED
    BY <1>5, <1>6, <1>7, <1>4

LEMMA AnswerInPlaceSound ==
    ASSUME Parts, Sound, NEW s \in Slots, AnswerInPlace(s)
    PROVE  Sound'
<1> DEFINE c == call[s]
<1>1. /\ c \in Calls /\ OnScript(c) /\ c # Null /\ c.kind = "inPlace" /\ HandlerOK(c)
      /\ c.at \in {"answered", "failed"} /\ Proceed(s)
    BY DEF Parts, CallsOK, AnswerInPlace, Sound, HandlersOK, Calls
<1>2. /\ UNCHANGED <<doc, save, timer, row, preview, editing, toPreview>>
      /\ UNCHANGED <<made, failed, thrown, missed, overtook>>
    BY DEF AnswerInPlace, canvas, history, past, lapses
<1>3. \A t \in Slots : call'[t] = Null
  <2>1. \A t \in Slots : t # s => call[t] = Null
      BY <1>1, Alone DEF Sound, Loads
  <2>2. call'[s] = Null
      BY <1>1, Goes, AsksOf
  <2> QED
      BY <1>1, <2>1, <2>2, Goes
<1>4. PairsOK' /\ HandlersOK' /\ ~Silent'
    BY <1>3 DEF PairsOK, HandlersOK, Silent
<1>5. Quiet /\ dirty /\ editing /\ preview # Null /\ ~Mirrored
  <2>1. Quiet
      BY <1>1 DEF Sound, ChannelOK, Silent, Mutes
  <2>2. dirty /\ editing
      BY <1>1 DEF HandlerOK, Sound, DirtyOK
  <2>3. preview # Null
      BY <2>2, NullAssumption DEF Parts, TabsOK
  <2> QED
      BY <2>1, <2>2, <2>3, QuietShapes
<1>6. Live \subseteq preview /\ Live \subseteq doc /\ Live' = Live
  <2>1. doc = preview /\ Live \subseteq doc
      BY <1>5 DEF Sound, DirtyOK, LiveOK
  <2> QED
      BY <1>2, <2>1 DEF Live
<1>7. SavingOK'
  <2>1. ~Busy(ShowSaving)
      BY <1>1, Alone DEF Sound, Busy, ShowSaving, Loads
  <2> QED
      BY <1>2, <2>1 DEF Sound, SavingOK
<1>8. LiveOK'
    BY <1>2, <1>6 DEF LiveOK
<1>9. doc = preview
    BY <1>5 DEF Sound, DirtyOK
<1>10. DirtyOK'
  <2>1. dirty' = dirty \/ dirty' = FALSE
      BY DEF AnswerInPlace
  <2> QED
      BY <1>2, <1>5, <1>9, <2>1 DEF DirtyOK
<1>11. ChannelOK'
  <2>1. CASE c.at = "failed"
    <3>1. Quiet'
        BY <1>2, <1>5, <2>1 DEF AnswerInPlace, Quiet
    <3> QED
        BY <1>2, <1>4, <1>6, <3>1 DEF ChannelOK
  <2>2. CASE c.at = "answered"
    <3>1. toEditor' = <<[kind |-> "saved"]>> /\ toPreview' = <<>> /\ ~dirty'
        BY <1>2, <1>5, <2>2 DEF AnswerInPlace, Quiet
    <3>2. doc' = Working(row')
        BY <1>1, <1>2, <2>2 DEF HandlerOK
    <3>3. News'
        BY <1>2, <1>5, <1>6, <3>1, <3>2 DEF News
    <3>4. ~Quiet'
      <4>1. toEditor' # <<>>
          BY <3>1, OneMessage
      <4> QED
          BY <4>1 DEF Quiet
    <3> QED
        BY <1>4, <3>3, <3>4 DEF ChannelOK
  <2> QED
      BY <1>1, <2>1, <2>2
<1>12. StoredOK'
  <2> SUFFICES ASSUME Spared, ~timer PROVE doc = Working(row)
      BY <1>2 DEF StoredOK, Spared, Working
  <2>1. ASSUME NEW t \in Slots, call[t] # Null, Sending(call[t]) \/ Discarded(call[t])
        PROVE  FALSE
    <3>1. t = s
        BY <1>1, <2>1, Alone DEF Sound, Loads
    <3> QED
        BY <1>1, <2>1, <3>1 DEF Sending, Discarded
  <2> QED
      BY <2>1 DEF Sound, StoredOK
<1> QED
    BY <1>4, <1>7, <1>8, <1>10, <1>11, <1>12 DEF Sound

LEMMA AnswerSound ==
    ASSUME Parts, Sound, NEW s \in Slots, Answer(s)
    PROVE  Sound'
<1> DEFINE c == call[s]
           loads == c.at = "answered" /\ Asks(c) = "get"
           opens == c.kind = "open"
<1>1. /\ c \in Calls /\ OnScript(c) /\ c # Null /\ c.kind # "inPlace" /\ HandlerOK(c)
      /\ c.at \in {"answered", "failed"} /\ Proceed(s) /\ ~Loads(c)
    BY DEF Parts, CallsOK, Answer, Sound, HandlersOK, Calls
<1>2. UNCHANGED <<timer, row, preview, editing, dirty, toPreview, made, failed, thrown,
                  missed, overtook>>
    BY DEF Answer, history, past, lapses
<1>3. /\ \A t \in Slots : t # s => call'[t] = call[t]
      /\ Ended(c) => call'[s] = Null
      /\ ~Ended(c) => /\ call'[s] # Null /\ call'[s].kind = c.kind
                      /\ call'[s].step = 2 /\ call'[s].at = "sent"
                      /\ c.step = 1 /\ (opens \/ c.at = "answered")
                      /\ Asks(call'[s]) # "patch"
    BY <1>1, Goes
<1>4. \A t \in Slots : call'[t] # Null =>
          call[t] # Null /\ call'[t].kind = call[t].kind /\ call'[t].step >= call[t].step
    BY <1>1, <1>3 DEF Parts, CallsOK, Calls
<1>5. PairsOK'
  <2> SUFFICES ASSUME NEW t \in Slots, NEW u \in Slots, t # u, call'[t] # Null, call'[u] # Null
               PROVE  Together(call'[t], call'[u]) \/ Together(call'[u], call'[t])
      BY DEF PairsOK, Together, Loads
  <2>1. Together(call[t], call[u]) \/ Together(call[u], call[t])
      BY <1>4 DEF Sound, PairsOK
  <2>2. \A w \in Slots : call'[w] # Null /\ Loads(call[w]) => Loads(call'[w])
      BY <1>1, <1>3 DEF Loads
  <2> QED
      BY <1>4, <2>1, <2>2 DEF Together
<1>6. /\ Silent' => Silent
      /\ Busy({"reload"})' => Busy({"reload"})
  <2>1. ASSUME NEW t \in Slots, call'[t] # Null, Mutes(call'[t]) PROVE Mutes(call[t])
    <3>1. CASE t = s
        BY <1>3, <2>1, <3>1 DEF Mutes
    <3>2. CASE t # s
        BY <1>3, <2>1, <3>2 DEF Mutes
    <3> QED
        BY <3>1, <3>2
  <2>2. Silent' <=> \E t \in Slots : call'[t] # Null /\ Mutes(call'[t])
      BY DEF Silent, Mutes
  <2> QED
      BY <1>4, <2>1, <2>2 DEF Silent, Busy
<1>7. opens => /\ preview = Null /\ Quiet /\ ~editing /\ ~loads /\ doc' = doc
               /\ c.step = 1 /\ call'[s] # Null /\ call'[s].kind = "open"
               /\ call'[s].step = 2 /\ call'[s].at = "sent"
               /\ \A t \in Slots : t # s => call'[t] = Null
  <2> SUFFICES ASSUME opens
               PROVE  /\ preview = Null /\ Quiet /\ ~editing /\ ~loads /\ doc' = doc
                      /\ c.step = 1 /\ call'[s] # Null /\ call'[s].kind = "open"
                      /\ call'[s].step = 2 /\ call'[s].at = "sent"
                      /\ \A t \in Slots : t # s => call'[t] = Null
      OBVIOUS
  <2>1. c.step = 1
      BY <1>1 DEF Loads, Calls
  <2>2. preview = Null /\ Quiet
      BY <1>1, <2>1 DEF HandlerOK, Sound, ChannelOK, Silent, Mutes
  <2>3. ~editing
      BY <2>2, NullAssumption DEF Parts, TabsOK
  <2>4. ~loads /\ ~Ended(c)
      BY <1>1, <2>1, AsksOf
  <2>5. \A t \in Slots : t # s => call[t] = Null
      BY <1>1, Alone DEF Sound
  <2>6. doc' = doc
      BY <2>4 DEF Answer
  <2> QED
      BY <1>3, <2>1, <2>2, <2>3, <2>4, <2>5, <2>6
<1>8. loads => /\ c.kind \in {"discard", "reload"} /\ doc' = Working(row) /\ Quiet
               /\ c.kind = "reload" => doc' = doc
               /\ c.kind = "discard" => ~editing /\ Live \subseteq doc'
  <2> SUFFICES ASSUME loads
               PROVE  /\ c.kind \in {"discard", "reload"} /\ doc' = Working(row) /\ Quiet
                      /\ c.kind = "reload" => doc' = doc
                      /\ c.kind = "discard" => ~editing /\ Live \subseteq doc'
      OBVIOUS
  <2>1. c.kind \in {"discard", "reload"}
      BY <1>1, AsksOf
  <2>2. Quiet
      BY <1>1, <2>1 DEF Sound, ChannelOK, Silent, Mutes
  <2>3. doc' = Working(c.reply)
      BY DEF Answer, Loaded
  <2>4. CASE c.kind = "reload"
      BY <1>1, <2>1, <2>2, <2>3, <2>4 DEF HandlerOK
  <2>5. CASE c.kind = "discard"
    <3>1. row.draft = Null /\ c.reply = row /\ ~editing /\ Live \subseteq row.data
        BY <1>1, <2>5 DEF HandlerOK, Discarded
    <3> QED
        BY <2>1, <2>2, <2>3, <2>5, <3>1 DEF Working
  <2> QED
      BY <2>1, <2>4, <2>5
<1>9. ~loads => doc' = doc
    BY DEF Answer
<1>10. Live' = Live /\ Spared' = Spared
    BY <1>2 DEF Live, Spared
<1>11. ~opens => toEditor' = toEditor
    BY DEF Answer
<1>12. ~opens => /\ Quiet' <=> Quiet
                 /\ Greeted' <=> Greeted
                 /\ Mirrored' <=> Mirrored
                 /\ Shown' <=> Shown
                 /\ News' <=> News
  <2> SUFFICES ASSUME ~opens
               PROVE  /\ Quiet' <=> Quiet
                      /\ Greeted' <=> Greeted
                      /\ Mirrored' <=> Mirrored
                      /\ Shown' <=> Shown
                      /\ News' <=> News
      OBVIOUS
  <2>1. UNCHANGED <<preview, toEditor>>
      BY <1>2, <1>11
  <2>2. Quiet' <=> Quiet
      BY <1>2, <2>1 DEF Quiet
  <2>3. (Greeted' <=> Greeted) /\ (Mirrored' <=> Mirrored) /\ (Shown' <=> Shown)
      BY <1>2, <1>10, <2>1 DEF Greeted, Mirrored, Shown
  <2>4. CASE loads
    <3>1. Quiet /\ ~News
        BY <1>8, <2>4, QuietShapes
    <3>2. toEditor' = <<>>
        BY <2>1, <3>1 DEF Quiet
    <3>3. ~News'
        BY <3>2, OneMessage DEF News
    <3> QED
        BY <2>2, <2>3, <3>1, <3>3
  <2>5. CASE ~loads
    <3>1. News' <=> News
        BY <1>2, <1>9, <1>10, <2>1, <2>5 DEF News, Working
    <3> QED
        BY <2>2, <2>3, <3>1
  <2> QED
      BY <2>4, <2>5
<1>13. SavingOK'
  <2> SUFFICES ASSUME save' = "saving" PROVE Busy(ShowSaving)'
      BY DEF SavingOK
  <2>1. save = "saving" /\ (c.kind \notin ShowSaving \/ ~Ended(c))
      BY DEF Answer
  <2>2. PICK t \in Slots : call[t] # Null /\ call[t].kind \in ShowSaving
      BY <2>1 DEF Sound, SavingOK, Busy
  <2>3. call'[t] # Null /\ call'[t].kind \in ShowSaving
      BY <1>3, <2>1, <2>2
  <2> QED
      BY <2>3 DEF Busy
<1>14. LiveOK'
  <2>1. CASE opens
    <3>1. ~Mirrored
        BY <1>7, <2>1, QuietShapes
    <3> QED
        BY <1>7, <1>10, <2>1, <3>1 DEF Sound, LiveOK
  <2>2. CASE ~opens /\ loads
    <3>1. Live \subseteq doc
        BY <1>8, <2>2, QuietShapes DEF Sound, LiveOK
    <3> QED
        BY <1>8, <1>10, <2>2, <3>1 DEF LiveOK
  <2>3. CASE ~opens /\ ~loads
      BY <1>9, <1>10, <1>12, <2>3 DEF Sound, LiveOK
  <2> QED
      BY <2>1, <2>2, <2>3
<1>15. DirtyOK'
  <2>1. CASE ~editing
      BY <1>2, <2>1 DEF Sound, DirtyOK
  <2>2. CASE editing
    <3>1. ~opens /\ doc' = doc
        BY <1>7, <1>8, <1>9, <2>2
    <3> QED
        BY <1>2, <1>11, <1>12, <3>1 DEF Sound, DirtyOK
  <2> QED
      BY <2>1, <2>2
<1>16. ChannelOK'
  <2>1. CASE opens
    <3>1. toEditor' = <<[kind |-> "hello"]>> /\ toPreview' = <<>>
        BY <1>2, <1>7, <2>1 DEF Answer, Quiet
    <3>2. Greeted'
        BY <1>2, <1>7, <2>1, <3>1 DEF Greeted
    <3>3. ~Quiet'
      <4>1. toEditor' # <<>>
          BY <3>1, OneMessage
      <4> QED
          BY <4>1 DEF Quiet
    <3>4. ~Silent'
      <4>1. Silent' <=> \E t \in Slots : call'[t] # Null /\ Mutes(call'[t])
          BY DEF Silent, Mutes
      <4> QED
          BY <1>7, <2>1, <4>1 DEF Mutes
    <3> QED
        BY <3>2, <3>3, <3>4 DEF ChannelOK
  <2>2. CASE ~opens
    <3>1. Loading => Loading'
      <4> SUFFICES ASSUME NEW t \in Slots, call[t] # Null, Loads(call[t]) PROVE Loading'
          BY DEF Loading
      <4>1. t # s /\ call'[t] = call[t]
          BY <1>1, <1>3
      <4> QED
          BY <4>1 DEF Loading, Loads
    <3> QED
        BY <1>2, <1>6, <1>10, <1>11, <1>12, <2>2, <3>1 DEF Sound, ChannelOK
  <2> QED
      BY <2>1, <2>2
<1>17. HandlersOK'
  <2>1. CASE opens
    <3>1. Asks(call[s])' # "patch"
      <4>1. Asks(call'[s]) # "patch"
          BY <1>3, <1>7, <2>1
      <4> QED
          BY <4>1 DEF Asks
    <3>2. ~News'
        BY <1>2, <1>7, <2>1 DEF News
    <3>3. HandlerOK(call[s])'
        BY <1>2, <1>7, <2>1, <3>1, <3>2 DEF HandlerOK, Loads, Discarded
    <3> QED
        BY <1>7, <2>1, <3>3 DEF HandlersOK
  <2>2. ASSUME ~opens, NEW t \in Slots, t # s, call'[t] # Null
        PROVE  HandlerOK(call[t])'
    <3>1. HandlerOK(call[t]) /\ call'[t] = call[t] /\ call[t] # Null
        BY <1>3, <2>2 DEF Sound, HandlersOK
    <3>2. doc' = doc
      <4>1. c.kind \in {"autosave", "reload"}
          BY <1>1, <2>2, <3>1 DEF Sound, PairsOK, Together
      <4> QED
          BY <1>8, <1>9, <4>1
    <3> QED
        BY <1>2, <1>6, <1>10, <1>11, <1>12, <2>2, <3>1, <3>2 DEF HandlerOK, Discarded, Loads, Asks, Working
  <2>3. ASSUME ~opens, call'[s] # Null
        PROVE  HandlerOK(call[s])'
    <3>1. ~Ended(c)
        BY <1>3, <2>3
    <3>2. c.kind \notin {"open", "inPlace", "reload", "autosave", "revert"}
        BY <1>1, <2>3, <3>1, AsksOf
    <3>3. /\ call'[s].kind = c.kind /\ call'[s].step = 2 /\ call'[s].at = "sent"
          /\ c.at = "answered" /\ Asks(call'[s]) # "patch"
        BY <1>3, <2>3, <3>1
    <3>4. Asks(call[s])' # "patch"
        BY <3>3 DEF Asks
    <3>5. ~News'
        BY <1>1, <1>12, <2>3, <3>2 DEF HandlerOK
    <3> QED
        BY <1>1, <1>2, <1>10, <3>2, <3>3, <3>4, <3>5 DEF HandlerOK, Loads, Discarded
  <2> QED
      BY <2>1, <2>2, <2>3 DEF HandlersOK
<1>18. StoredOK'
  <2> SUFFICES ASSUME Spared, ~timer, doc' # Working(row)
               PROVE  \E t \in Slots : call'[t] # Null /\ (Sending(call[t])' \/ Discarded(call[t])')
      BY <1>2, <1>10 DEF StoredOK, Working
  <2>1. ~loads /\ doc' = doc
      BY <1>8, <1>9
  <2>2. PICK t \in Slots : call[t] # Null /\ (Sending(call[t]) \/ Discarded(call[t]))
      BY <2>1 DEF Sound, StoredOK
  <2>3. CASE t # s
      BY <1>3, <2>1, <2>2, <2>3 DEF Sending, Discarded, Asks
  <2>4. CASE t = s
    <3>1. Discarded(c)
        BY <1>1, <2>2, <2>4 DEF Sending
    <3>2. ~Ended(c)
      <4>1. c.at = "failed" => c.step = 1
          BY <1>1, <3>1, AsksOf DEF HandlerOK, Discarded, Calls
      <4>2. c.step = 2 => c.at = "failed"
          BY <1>1, <2>1, <3>1, AsksOf DEF Discarded
      <4> QED
          BY <1>1, <3>1, <4>1, <4>2, AsksOf DEF Discarded, Calls
    <3>3. call'[s] # Null /\ call'[s].kind = "discard" /\ call'[s].step = 2
        BY <1>3, <3>1, <3>2 DEF Discarded
    <3> QED
        BY <3>3 DEF Discarded
  <2> QED
      BY <2>3, <2>4
<1> QED
    BY <1>5, <1>13, <1>14, <1>15, <1>16, <1>17, <1>18 DEF Sound

LEMMA LoadAnswerSound ==
    ASSUME Parts, Sound, NEW s \in Slots, LoadAnswer(s)
    PROVE  Sound'
<1> DEFINE c == call[s]
<1>1. /\ c \in Calls /\ OnScript(c) /\ c # Null /\ HandlerOK(c) /\ Loads(c) /\ Proceed(s)
      /\ c.at # "sent"
    BY DEF Parts, CallsOK, LoadAnswer, Sound, HandlersOK
<1>2. /\ UNCHANGED <<doc, save, timer, row, editing, dirty, toEditor, toPreview>>
      /\ UNCHANGED <<made, failed, thrown, overtook>>
      /\ missed' = (Quiet /\ preview' # Null /\ ~(doc \ thrown \subseteq preview'))
    BY DEF LoadAnswer, canvas, past
<1>3. call'[s] = Null /\ \A t \in Slots : t # s => call'[t] = call[t]
    BY <1>1, Goes, AsksOf
<1>4. \A t \in Slots : call'[t] # Null =>
          t # s /\ call[t] # Null /\ call'[t] = call[t] /\ call[t].kind = "autosave"
    BY <1>1, <1>3, BesideLoad DEF Sound
<1>5. ~editing /\ ~dirty /\ ~Mirrored /\ ~News' /\ Live' = Live /\ Live \subseteq doc
  <2>1. ~editing
      BY <1>1 DEF HandlerOK
  <2>2. ~Mirrored /\ ~News' /\ ~dirty
      BY <1>2, <2>1 DEF Mirrored, News, Sound, DirtyOK
  <2> QED
      BY <1>2, <2>1, <2>2 DEF Live, Sound, LiveOK
<1>6. PairsOK'
  <2> SUFFICES ASSUME NEW t \in Slots, NEW u \in Slots, t # u, call'[t] # Null, call'[u] # Null
               PROVE  FALSE
      BY DEF PairsOK
  <2>1. call[t].kind = "autosave" /\ call[u].kind = "autosave"
      BY <1>4
  <2> QED
      BY <1>4, <2>1 DEF Sound, PairsOK, Together, Loads
<1>7. SavingOK'
  <2> SUFFICES ASSUME save' = "saving" PROVE Busy(ShowSaving)'
      BY DEF SavingOK
  <2>1. PICK t \in Slots : call[t] # Null /\ call[t].kind \in ShowSaving
      BY <1>2 DEF Sound, SavingOK, Busy
  <2>2. t # s
      BY <1>1, <2>1 DEF ShowSaving, Loads
  <2> QED
      BY <1>3, <2>1, <2>2 DEF Busy
<1>8. ~Silent'
  <2>1. Silent' <=> \E t \in Slots : call'[t] # Null /\ Mutes(call'[t])
      BY DEF Silent, Mutes
  <2> QED
      BY <1>4, <2>1 DEF Mutes
<1>9. ChannelOK'
  <2>1. /\ Quiet' <=> Quiet
        /\ Greeted' <=> Greeted
        /\ Shown' <=> Shown
      BY <1>2, <1>5 DEF Quiet, Greeted, Shown
  <2>2. ~News
      BY <1>5 DEF News
  <2>3. Quiet' \/ Greeted' \/ Shown'
      BY <1>5, <2>1, <2>2 DEF Sound, ChannelOK
  <2>4. Quiet /\ preview' # Null /\ ~missed' => Live' \subseteq preview'
    <3> SUFFICES ASSUME Quiet, preview' # Null, ~missed' PROVE Live \subseteq preview'
        BY <1>5
    <3>1. doc \ thrown \subseteq preview'
        BY <1>2
    <3>2. \A e \in Live : e \in doc /\ e \notin thrown
        BY <1>5 DEF Live
    <3> QED
        BY <3>1, <3>2
  <2> QED
      BY <1>8, <2>1, <2>3, <2>4 DEF ChannelOK
<1>10. LiveOK' /\ DirtyOK'
    BY <1>2, <1>5 DEF LiveOK, DirtyOK
<1>11. HandlersOK'
  <2> SUFFICES ASSUME NEW t \in Slots, call'[t] # Null PROVE HandlerOK(call[t])'
      BY DEF HandlersOK
  <2>1. /\ call'[t] = call[t] /\ HandlerOK(call[t]) /\ call[t].kind = "autosave"
      BY <1>4 DEF Sound, HandlersOK
  <2>2. ~Busy({"reload"})'
    <3>1. Busy({"reload"})' <=> \E u \in Slots : call'[u] # Null /\ call'[u].kind = "reload"
        BY DEF Busy
    <3> QED
        BY <1>4, <3>1
  <2> QED
      BY <1>2, <1>5, <2>1, <2>2 DEF HandlerOK, Discarded, Loads, Asks, Spared
<1>12. StoredOK'
  <2> SUFFICES ASSUME Spared, ~timer, doc # Working(row)
               PROVE  \E t \in Slots : call'[t] # Null /\ (Sending(call[t])' \/ Discarded(call[t])')
      BY <1>2 DEF StoredOK, Spared, Working
  <2>1. PICK t \in Slots : call[t] # Null /\ (Sending(call[t]) \/ Discarded(call[t]))
      BY DEF Sound, StoredOK
  <2>2. t # s
      BY <1>1, <2>1, AsksOf DEF Sending, Discarded, Loads
  <2> QED
      BY <1>2, <1>3, <2>1, <2>2 DEF Sending, Discarded, Asks
<1> QED
    BY <1>6, <1>7, <1>9, <1>10, <1>11, <1>12 DEF Sound

LEMMA EditorHearsSound ==
    ASSUME Parts, Sound, NEW s \in Slots, EditorHears(s)
    PROVE  Sound'
<1> DEFINE m == Head(toEditor)
<1>1. toEditor # <<>> /\ toEditor' = Tail(toEditor)
    BY DEF EditorHears
<1>2. UNCHANGED <<row, preview, editing, dirty, made, failed, thrown, missed, overtook>>
    BY DEF EditorHears, history, past, lapses
<1>3. (Greeted \/ Mirrored \/ News) /\ ~Silent
    BY <1>1 DEF Sound, ChannelOK, Quiet, Shown
<1>4. Live' = Live /\ Spared' = Spared
    BY <1>2 DEF Live, Spared
<1>5. toEditor' = <<>>
    BY <1>1, <1>3, OneMessage DEF Greeted, Mirrored, News
<1>6. ~Mirrored' /\ ~News'
    BY <1>5, OneMessage DEF Mirrored, News
<1>7. \A t \in Slots : call[t] # Null =>
          HandlerOK(call[t]) /\ call[t].kind \notin {"discard", "reload", "inPlace"}
    BY <1>3 DEF Sound, HandlersOK, Silent, Mutes
<1>8. ASSUME call' = call PROVE HandlersOK' <=> \A t \in Slots : call[t] # Null => HandlerOK(call[t])'
    BY <1>8 DEF HandlersOK
<1>9. CASE Greeted
  <2>1. m = [kind |-> "hello"]
      BY <1>9, OneMessage DEF Greeted
  <2>2. m.kind = "hello"
      BY <2>1
  <2>3. /\ toPreview' = Append(toPreview, [kind |-> "draft", body |-> doc])
        /\ UNCHANGED <<doc, save, timer, call>>
      BY <2>2 DEF EditorHears
  <2>4. toPreview' = <<[kind |-> "draft", body |-> doc]>>
      BY <1>9, <2>3 DEF Greeted
  <2>5. ~editing /\ ~Mirrored /\ ~dirty
    <3>1. ~editing
        BY <1>9 DEF Greeted
    <3> QED
        BY <3>1 DEF Mirrored, Sound, DirtyOK
  <2>6. Live \subseteq doc
      BY <2>5 DEF Sound, LiveOK
  <2>7. Shown'
      BY <1>2, <1>4, <1>5, <2>4, <2>5, <2>6 DEF Shown, Parts, CanvasOK
  <2>8. ~Silent' /\ PairsOK' /\ SavingOK'
      BY <1>3, <2>3 DEF Silent, Mutes, Busy, Sound, PairsOK, Together, Loads, SavingOK
  <2>9. ~Quiet'
    <3>1. toPreview' # <<>>
        BY <2>4, OneMessage
    <3> QED
        BY <3>1 DEF Quiet
  <2>10. ChannelOK'
      BY <2>7, <2>8, <2>9 DEF ChannelOK
  <2>11. LiveOK' /\ DirtyOK'
      BY <1>2, <1>4, <2>3, <2>5, <2>6 DEF LiveOK, DirtyOK
  <2>12. HandlersOK'
    <3>1. ASSUME NEW t \in Slots, call[t] # Null PROVE HandlerOK(call[t])'
      <4>1. ~Busy({"reload"})'
          BY <1>7, <2>3 DEF Busy
      <4> QED
          BY <1>2, <1>4, <1>6, <1>7, <2>3, <3>1, <4>1 DEF HandlerOK, Discarded, Loads, Asks
    <3> QED
        BY <1>8, <2>3, <3>1
  <2>13. StoredOK'
      BY <1>2, <1>4, <2>3 DEF Sound, StoredOK, Sending, Discarded, Asks, Working
  <2> QED
      BY <2>8, <2>10, <2>11, <2>12, <2>13 DEF Sound
<1>10. CASE Mirrored
  <2> DEFINE d == [kind |-> "draft", body |-> preview]
  <2>1. d.kind = "draft" /\ d.body = preview
      OBVIOUS
  <2>2. toEditor = <<d>> /\ toPreview = <<>> /\ editing /\ dirty /\ Live \subseteq preview
      BY <1>10 DEF Mirrored
  <2> HIDE DEF d
  <2>3. m = d
      BY <2>2, OneMessage
  <2>4. Bump(preview) /\ UNCHANGED <<call, toPreview>>
      BY <2>1, <2>3 DEF EditorHears
  <2>5. doc' = preview /\ timer' = TRUE /\ (save' = "saving" => save = "saving")
      BY <2>4 DEF Bump
  <2>6. Quiet'
      BY <1>5, <2>2, <2>4 DEF Quiet
  <2>7. PairsOK' /\ SavingOK'
      BY <2>4, <2>5 DEF Sound, PairsOK, Together, Loads, SavingOK, Busy
  <2>8. ChannelOK' /\ LiveOK' /\ DirtyOK'
      BY <1>2, <1>4, <2>2, <2>5, <2>6 DEF ChannelOK, LiveOK, DirtyOK
  <2>9. HandlersOK'
    <3>1. ASSUME NEW t \in Slots, call[t] # Null PROVE HandlerOK(call[t])'
      <4>1. ~Busy({"reload"})'
          BY <1>7, <2>4 DEF Busy
      <4> QED
          BY <1>2, <1>4, <1>6, <1>7, <2>2, <2>4, <2>5, <3>1, <4>1 DEF HandlerOK, Discarded, Loads, Asks
    <3> QED
        BY <1>8, <2>4, <3>1
  <2>10. StoredOK'
      BY <2>5 DEF StoredOK
  <2> QED
      BY <2>7, <2>8, <2>9, <2>10 DEF Sound
<1>11. CASE News
  <2>1. m = [kind |-> "saved"]
      BY <1>11, OneMessage DEF News
  <2>2. m.kind = "saved"
      BY <2>1
  <2>3. Starts(s, "reload", {}) /\ UNCHANGED <<doc, save, timer, toPreview>>
      BY <2>2 DEF EditorHears
  <2>4. /\ call[s] = Null /\ call'[s].kind = "reload" /\ call'[s].at = "sent"
        /\ Asks(call'[s]) = "get"
        /\ \A t \in Slots : t # s => call'[t] = call[t]
    <3> DEFINE c == [kind |-> "reload", step |-> 1, body |-> {}, at |-> "sent", reply |-> Null]
    <3>1. call' = [call EXCEPT ![s] = c] /\ call[s] = Null
        BY <2>3 DEF Starts
    <3>2. call'[s] = c /\ \A t \in Slots : t # s => call'[t] = call[t]
        BY <3>1, OneSlot DEF Parts
    <3>3. Script["reload"][1] = "get"
        BY DEF Script
    <3> QED
        BY <3>1, <3>2, <3>3 DEF Asks
  <2>5. \A t \in Slots : t # s /\ call'[t] # Null =>
            call[t] # Null /\ call[t].kind = "autosave" /\ call[t].body = doc
      BY <1>7, <1>11, <2>4 DEF HandlerOK
  <2>6. \A t \in Slots : t # s /\ call'[t] # Null => call'[t].kind = "autosave"
      BY <2>4, <2>5
  <2>7. PairsOK'
    <3> SUFFICES ASSUME NEW t \in Slots, NEW u \in Slots, t # u, call'[t] # Null, call'[u] # Null
                 PROVE  Together(call'[t], call'[u]) \/ Together(call'[u], call'[t])
        BY DEF PairsOK, Together, Loads
    <3>1. CASE t # s /\ u # s
        BY <2>4, <2>5, <3>1 DEF Sound, PairsOK
    <3>2. CASE t = s \/ u = s
        BY <2>4, <2>6, <3>2 DEF Together
    <3> QED
        BY <3>1, <3>2
  <2>8. SavingOK'
    <3> SUFFICES ASSUME save' = "saving" PROVE Busy(ShowSaving)'
        BY DEF SavingOK
    <3>1. PICK t \in Slots : call[t] # Null /\ call[t].kind \in ShowSaving
        BY <2>3 DEF Sound, SavingOK, Busy
    <3>2. call'[t] = call[t]
        BY <2>4, <3>1
    <3> QED
        BY <3>1, <3>2 DEF Busy
  <2>9. Quiet' /\ ~dirty /\ editing /\ doc = Working(row) /\ Live \subseteq preview
      BY <1>5, <1>11, <2>3 DEF News, Quiet
  <2>10. ~Mirrored
      BY <2>9 DEF Mirrored
  <2>11. ChannelOK' /\ LiveOK' /\ DirtyOK'
      BY <1>2, <1>4, <2>3, <2>9, <2>10 DEF ChannelOK, LiveOK, DirtyOK, Sound
  <2>12. HandlersOK'
    <3>1. HandlerOK(call[s])'
      <4>1. Asks(call[s])' = "get"
          BY <2>4 DEF Asks
      <4> QED
          BY <1>2, <1>6, <2>3, <2>4, <2>9, <4>1 DEF HandlerOK, Discarded, Loads, Working
    <3>2. ASSUME NEW t \in Slots, t # s, call'[t] # Null PROVE HandlerOK(call[t])'
      <4>1. /\ call'[t] = call[t] /\ HandlerOK(call[t])
            /\ call[t].kind = "autosave" /\ call[t].body = doc
          BY <1>7, <2>4, <2>5, <3>2
      <4> QED
          BY <1>4, <1>6, <2>3, <4>1 DEF HandlerOK, Discarded, Loads, Asks
    <3> QED
        BY <3>1, <3>2 DEF HandlersOK
  <2>13. StoredOK'
      BY <1>2, <2>3, <2>9 DEF StoredOK, Working
  <2> QED
      BY <2>7, <2>8, <2>11, <2>12, <2>13 DEF Sound
<1> QED
    BY <1>3, <1>9, <1>10, <1>11

LEMMA PreviewHearsSound ==
    ASSUME Parts, Sound, PreviewHears
    PROVE  Sound'
<1>1. toPreview # <<>> /\ toPreview' = Tail(toPreview)
    BY DEF PreviewHears
<1>2. UNCHANGED <<doc, save, timer, call, row, editing, dirty, toEditor, made, failed, thrown,
                  overtook>>
    BY DEF PreviewHears, canvas, past
<1>3. Shown /\ ~Silent
    BY <1>1 DEF Sound, ChannelOK, Quiet, Greeted, Mirrored, News
<1>4. toEditor = <<>> /\ ~editing
    BY <1>3 DEF Shown
<1>5. ~dirty /\ ~Mirrored
    BY <1>4 DEF Sound, DirtyOK, Mirrored
<1> PICK b \in Contents : toPreview = <<[kind |-> "draft", body |-> b]>> /\ Live \subseteq b
    BY <1>3 DEF Shown
<1>6. toPreview' = <<>> /\ preview' = IF preview = Null THEN Null ELSE b
  <2> DEFINE d == [kind |-> "draft", body |-> b]
  <2>1. d.body = b
      OBVIOUS
  <2>2. Head(<<d>>) = d /\ Tail(<<d>>) = <<>>
      BY OneMessage
  <2> QED
      BY <1>1, <1>4, <2>1, <2>2 DEF PreviewHears
<1>7. Quiet' /\ ~News' /\ Live' = Live /\ Spared' = Spared
  <2>1. Quiet' /\ Live' = Live /\ Spared' = Spared
      BY <1>2, <1>4, <1>6 DEF Quiet, Live, Spared
  <2>2. ~News'
      BY <1>2, <1>4, OneMessage DEF News
  <2> QED
      BY <2>1, <2>2
<1>8. PairsOK' /\ SavingOK' /\ (Busy({"reload"})' <=> Busy({"reload"}))
    BY <1>2 DEF Sound, PairsOK, Together, Loads, SavingOK, Busy
<1>9. ChannelOK'
    BY <1>6, <1>7 DEF ChannelOK
<1>10. LiveOK' /\ DirtyOK'
    BY <1>2, <1>5, <1>7 DEF Sound, LiveOK, DirtyOK
<1>11. HandlersOK'
  <2> SUFFICES ASSUME NEW t \in Slots, call[t] # Null PROVE HandlerOK(call[t])'
      BY <1>2 DEF HandlersOK
  <2>1. /\ HandlerOK(call[t]) /\ call'[t] = call[t]
        /\ call[t].kind \notin {"discard", "reload", "inPlace"}
      BY <1>2, <1>3 DEF Sound, HandlersOK, Silent, Mutes
  <2>2. preview = Null => preview' = Null
      BY <1>6
  <2> QED
      BY <1>2, <1>7, <1>8, <2>1, <2>2 DEF HandlerOK, Discarded, Loads, Asks
<1>12. StoredOK'
    BY <1>2, <1>7 DEF Sound, StoredOK, Sending, Discarded, Asks, Working
<1> QED
    BY <1>8, <1>9, <1>10, <1>11, <1>12 DEF Sound

-----------------------------------------------------------------------------
LEMMA InitSound == Init => EInv
<1> SUFFICES ASSUME Init PROVE Plain(row) /\ Sound
    BY InitParts DEF EInv
<1>1. /\ doc = {} /\ save = "saved" /\ call = [s \in Slots |-> Null] /\ preview = Null
      /\ editing = FALSE /\ dirty = FALSE /\ toEditor = <<>> /\ toPreview = <<>>
      /\ made = {} /\ thrown = {} /\ row.draft = Null /\ row.data = {}
    BY DEF Init
<1>2. \A s \in Slots : call[s] = Null
    BY <1>1
<1>3. PairsOK /\ HandlersOK /\ SavingOK /\ ~Silent
    BY <1>1, <1>2 DEF PairsOK, HandlersOK, SavingOK, Silent
<1>4. Live \subseteq doc
    BY <1>1 DEF Live
<1>5. ChannelOK
    BY <1>1, <1>3 DEF ChannelOK, Quiet
<1>6. doc = Working(row) /\ Plain(row)
    BY <1>1 DEF Working, Plain
<1> QED
    BY <1>1, <1>3, <1>4, <1>5, <1>6 DEF Sound, LiveOK, DirtyOK, StoredOK

(* A run that has left the order does not come back to it. *)
LEMMA OrderlyBefore ==
    ASSUME Parts, [Next]_vars, Orderly'
    PROVE  Orderly
<1>1. CASE UNCHANGED vars
    BY <1>1 DEF vars, Orderly
<1>2. ASSUME Edit \/ StartEdit \/ EditInPlace PROVE ~hurried /\ slow' = slow
    BY <1>2 DEF Edit, StartEdit, EditInPlace, Waits
<1>3. ASSUME NEW s \in Slots, SaveInPlace(s) \/ StopEdit(s) PROVE ~hurried /\ slow' = slow
    BY <1>3 DEF SaveInPlace, StopEdit, Waits
<1>4. ASSUME NEW s \in Slots, NEW kind \in Kinds, Click(s, kind) PROVE ~hurried /\ slow' = slow
    BY <1>4 DEF Click, Waits
<1>5. ASSUME NEW s \in Slots, Timer(s) PROVE hurried' = hurried /\ (slow => slow')
    BY <1>5 DEF Timer
<1>6. ASSUME NEW s \in Slots, Runs(s) \/ Refuse(s) \/ Channel(s)
      PROVE  hurried' = hurried /\ slow' = slow
    BY <1>6 DEF Runs, Channel, Serve, Answer, LoadAnswer, AnswerInPlace, Refuse, EditorHears,
                PreviewHears, history, past
<1> QED
    BY <1>1, <1>2, <1>3, <1>4, <1>5, <1>6 DEF Next, Orderly

LEMMA PlainNext ==
    ASSUME Parts, Plain(row), [Next]_vars
    PROVE  Plain(row)'
<1>1. ASSUME NEW s \in Slots, Serve(s) PROVE Plain(row)'
  <2>1. call[s] \in Calls /\ OnScript(call[s])
      BY <1>1 DEF Parts, CallsOK, Serve
  <2>2. Asks(call[s]) \in Requests /\ call[s].body \in Contents /\ row \in Rows
      BY <2>1, AsksRequest DEF Calls, Parts
  <2>3. row' = Handled(row, Asks(call[s]), call[s].body) /\ (Asks(call[s]) = "approve" => row.draft # Null)
      BY <1>1 DEF Serve
  <2>4. Plain(Handled(row, Asks(call[s]), call[s].body))
      BY <2>2, <2>3, HandledText
  <2> QED
      BY <2>3, <2>4 DEF Plain
<1>2. ASSUME NEW s \in Slots, ~Serve(s),
             \/ Runs(s) \/ Channel(s) \/ Timer(s) \/ Refuse(s)
             \/ SaveInPlace(s) \/ StopEdit(s)
      PROVE  row' = row
    BY <1>2 DEF Runs, Channel, Timer, Refuse, SaveInPlace, StopEdit, Answer, LoadAnswer,
                AnswerInPlace, EditorHears, PreviewHears
<1>3. ASSUME NEW s \in Slots, NEW kind \in Kinds, Click(s, kind) PROVE row' = row
    BY <1>3 DEF Click
<1>4. CASE Edit \/ StartEdit \/ EditInPlace
    BY <1>4 DEF Edit, StartEdit, EditInPlace, Plain
<1>5. CASE UNCHANGED vars
    BY <1>5 DEF vars, Plain
<1> QED
    BY <1>1, <1>2, <1>3, <1>4, <1>5 DEF Next, Plain

LEMMA NextSound ==
    ASSUME Parts, Plain(row), Sound, [Next]_vars, Orderly'
    PROVE  Sound'
<1>1. CASE Edit \/ StartEdit \/ EditInPlace
    BY <1>1, EditSound, StartEditSound, EditInPlaceSound
<1>2. ASSUME NEW s \in Slots, Timer(s) \/ Refuse(s) \/ SaveInPlace(s) \/ StopEdit(s)
      PROVE  Sound'
    BY <1>2, TimerSound, RefuseSound, SaveInPlaceSound, StopEditSound
<1>3. ASSUME NEW s \in Slots, Runs(s)
      PROVE  Sound'
    BY <1>3, ServeSound, AnswerSound, LoadAnswerSound, AnswerInPlaceSound DEF Runs
<1>4. ASSUME NEW s \in Slots, Channel(s)
      PROVE  Sound'
    BY <1>4, EditorHearsSound, PreviewHearsSound DEF Channel
<1>5. ASSUME NEW s \in Slots, NEW kind \in Kinds, Click(s, kind)
      PROVE  Sound'
    BY <1>5, ClickSound
<1>6. CASE UNCHANGED vars
  <2>1. /\ UNCHANGED <<doc, save, timer, call, row, preview, editing, dirty, toEditor>>
        /\ UNCHANGED <<toPreview, made, failed, thrown, missed, overtook>>
      BY <1>6 DEF vars
  <2>2. PairsOK' /\ SavingOK' /\ ChannelOK' /\ LiveOK' /\ DirtyOK'
      BY <2>1 DEF Sound, PairsOK, Together, SavingOK, ChannelOK, LiveOK, DirtyOK, Busy, Quiet,
                  Greeted, Mirrored, News, Shown, Live, Working, Silent, Mutes, Loading, Loads
  <2>3. HandlersOK' /\ StoredOK'
      BY <2>1 DEF Sound, HandlersOK, StoredOK, HandlerOK, News, Busy, Spared, Sending, Discarded,
                  Asks, Live, Working, Loads
  <2> QED
      BY <2>2, <2>3 DEF Sound
<1> QED
    BY <1>1, <1>2, <1>3, <1>4, <1>5, <1>6 DEF Next

LEMMA EverSound == Spec => []EInv
<1>1. EInv /\ [Next]_vars => EInv'
  <2> SUFFICES ASSUME EInv, [Next]_vars PROVE EInv'
      OBVIOUS
  <2>1. Parts /\ Plain(row)
      BY DEF EInv
  <2>2. Parts' /\ Plain(row)'
      BY <2>1, NextParts, PlainNext
  <2>3. Orderly' => Sound'
      BY <2>1, OrderlyBefore, NextSound DEF EInv
  <2> QED
      BY <2>2, <2>3 DEF EInv
<1> QED
    BY <1>1, InitSound, PTL DEF Spec

(* "All changes saved" is true: for any number of handlers, edits and clicks *)
(* at the user's pace, when nothing is on its way and no save or reload has  *)
(* failed, the server holds what the editor shows.                           *)
THEOREM SavedMeansStored == Spec => []SavedIsStored
<1>1. EInv => SavedIsStored
    BY DEF EInv, Sound, StoredOK, SavedIsStored, Idle
<1> QED
    BY <1>1, EverSound, PTL

(* No save, reload, button or mirrored draft of either tab loses an edit the *)
(* user has not discarded, whatever request fails, unless a preview that     *)
(* loaded without the editor's text was edited in place.                     *)
THEOREM EditsSurvive == Spec => []NothingLost
<1>1. EInv => NothingLost
  <2> SUFFICES ASSUME EInv, Quiet, Orderly, ~overtook
               PROVE made \ thrown \subseteq doc \cup Working(row)
      BY DEF NothingLost
  <2>1. ~Mirrored
      BY QuietShapes
  <2>2. Live \subseteq doc
      BY <2>1 DEF EInv, Sound, LiveOK
  <2> QED
      BY <2>2 DEF Live
<1> QED
    BY <1>1, EverSound, PTL
=============================================================================
