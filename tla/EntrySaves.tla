----------------------------- MODULE EntrySaves -----------------------------
(***************************************************************************)
(* What a save leaves behind the entry's row: its slug, its versions and   *)
(* the index of its relations (create(), update(), snapshot() of           *)
(* content-entries.service.ts; RelationSyncService).  Each is a step of    *)
(* its own, and calls interleave between them.                             *)
(*                                                                         *)
(* A body is the number of the save that stored it; the relations of an    *)
(* entry are a function of its body, so the index names the body it was    *)
(* built from.                                                             *)
(***************************************************************************)
EXTENDS Integers, FiniteSets

CONSTANTS
    Entries, Calls, Authors,
    Names,          \* slugs, and the names a quick-create asks for
    Retention,      \* VERSION_RETENTION
    MaxSaves, MaxFaults,    \* bounds of the model
    Null

ASSUME BoundsAssumption == Retention \in Nat \ {0} /\ MaxSaves \in Nat /\ MaxFaults \in Nat

(* The rows of ContentEntry and ContentVersion, and what a call carries.     *)
Rows == [slug : Names, name : Names, body : Nat, quick : BOOLEAN]
Versions == [id : Nat, n : Nat \ {0}, body : Nat, by : {Null} \cup Authors,
             noted : BOOLEAN, open : BOOLEAN]
Requests == [e : Entries, step : {"quick", "write", "index", "last", "version", "prune", "end"},
             new : BOOLEAN, slug : {Null} \cup Names, by : Authors, noted : BOOLEAN,
             body : Nat, last : {Null} \cup Versions, whole : BOOLEAN, clash : BOOLEAN]

ASSUME NullAssumption == Null \notin Names \cup Rows \cup Versions \cup Requests

VARIABLES
    row,        \* [Entries -> the ContentEntry row, or Null]
    index,      \* [Entries -> the body its EntryRelation rows were built from, 0: none]
    versions,   \* [Entries -> set of ContentVersion rows]
    call,       \* [Calls -> the call in flight, or Null]
    saves,      \* bodies stored so far
    faults,     \* failures so far
    \* history variables: entries whose last saves overlapped or broke off, and
    \* entries whose slug was written while another call had checked the same one
    rough, clashed

stored == <<row, index, versions, saves>>
vars == <<stored, call, faults, rough, clashed>>

Flying == {c \in Calls : call[c] # Null}
At(c, step) == c \in Flying /\ call[c].step = step
On(e) == {c \in Flying : call[c].e = e}
Written(c) == call[c].step \notin {"quick", "write"}

(* Some entries were saved before.                                           *)
Init ==
    /\ \E slug \in {f \in [Entries -> Names \cup {Null}] :
                      \A d, e \in Entries : d # e /\ f[d] # Null => f[d] # f[e]} :
         /\ row = [e \in Entries |-> IF slug[e] = Null THEN Null ELSE
                     [slug |-> slug[e], name |-> slug[e], body |-> 0, quick |-> TRUE]]
         /\ versions = [e \in Entries |-> IF slug[e] = Null THEN {} ELSE
                     {[id |-> 0, n |-> 1, body |-> 0, by |-> Null, noted |-> TRUE, open |-> FALSE]}]
    /\ index = [e \in Entries |-> 0]
    /\ call = [c \in Calls |-> Null]
    /\ saves = 0 /\ faults = 0
    /\ rough = {} /\ clashed = {}

-----------------------------------------------------------------------------
(* slugConflict()                                                            *)
SlugFreeMutant(s, e) == TRUE

SlugFree(s, e) == \A f \in Entries \ {e} : row[f] # Null => row[f].slug # s

(* A call is made; the others on its entry no longer run whole, and those    *)
(* that have checked the slug it checks may clash with it.                   *)
Begin(c, e, step, s, by, noted) ==
    /\ \E d \in Calls : call[d] = Null
    /\ c = CHOOSE d \in Calls : call[d] = Null
    /\ saves < MaxSaves
    /\ LET lap == On(e)
           same == {d \in Flying : s # Null /\ call[d].slug = s /\ call[d].e # e /\ ~Written(d)}
       IN  call' = [d \in Calls |->
                     IF d = c
                     THEN [e |-> e, step |-> step, new |-> row[e] = Null, slug |-> s, by |-> by,
                           noted |-> noted, body |-> 0, last |-> Null,
                           whole |-> lap = {}, clash |-> same # {}]
                     ELSE IF d \in lap THEN [call[d] EXCEPT !.whole = FALSE]
                     ELSE IF d \in same THEN [call[d] EXCEPT !.clash = TRUE]
                     ELSE call[d]]
    /\ UNCHANGED <<stored, faults, rough, clashed>>

(* create(): the slug is checked here and inserted later.                    *)
Create(c, e, s, by) ==
    /\ row[e] = Null /\ On(e) = {}
    /\ SlugFree(s, e)
    /\ Begin(c, e, "write", s, by, TRUE)

(* create() with reuseExisting: an entry of that name, or at the address the *)
(* name makes, is used instead (exactMatch()).                               *)
Matches(s) == {f \in Entries : row[f] # Null /\ s \in {row[f].name, row[f].slug}}

QuickCreate(c, e, s, by) ==
    /\ row[e] = Null /\ On(e) = {}
    /\ Matches(s) = {}
    /\ Begin(c, e, "quick", s, by, TRUE)

(* update() of an entry edited in place; it may move the slug.               *)
Update(c, e, s, by, noted) ==
    /\ row[e] # Null
    /\ s # row[e].slug
    /\ s # Null => SlugFree(s, e)
    /\ Begin(c, e, "write", s, by, noted)

Go(c, step) == call' = [call EXCEPT ![c].step = step]

Answer(c) == call' = [call EXCEPT ![c] = Null]

(* The row is written; what is left to do comes in another order for a new   *)
(* entry.                                                                    *)
Edited(r, q, body) ==
    [r EXCEPT !.body = body, !.slug = IF q.slug = Null THEN r.slug ELSE q.slug]

Put(c, quick) ==
    LET q == call[c]
    IN  /\ saves < MaxSaves
        /\ saves' = saves + 1
        /\ row' = [row EXCEPT ![q.e] = IF q.new
                     THEN [slug |-> q.slug, name |-> q.slug, body |-> saves', quick |-> quick]
                     ELSE Edited(row[q.e], q, saves')]
        /\ call' = [call EXCEPT ![c] =
                     [q EXCEPT !.body = saves', !.step = IF q.new THEN "last" ELSE "index"]]
        /\ clashed' = IF q.clash THEN clashed \cup {q.e} ELSE IF q.slug = Null THEN clashed ELSE clashed \ {q.e}
        /\ UNCHANGED <<index, versions, faults, rough>>

Write(c) == At(c, "write") /\ Put(c, FALSE)

(* Under the lock of its name the match is looked for again.                 *)
AgainMutant(s) == {}

Again(s) == Matches(s)

QuickInsert(c) ==
    /\ At(c, "quick")
    /\ IF Again(call[c].slug) = {} /\ SlugFree(call[c].slug, call[c].e)
       THEN Put(c, TRUE)
       ELSE Answer(c) /\ UNCHANGED <<stored, faults, rough, clashed>>

-----------------------------------------------------------------------------
(* syncEntry(): the index is replaced by what the saved body says.  A        *)
(* failure is logged, and the save goes on.                                  *)
SyncedMutant(c) == index

Synced(c) == [index EXCEPT ![call[c].e] = call[c].body]

Sync(c) ==
    /\ At(c, "index")
    /\ index' = Synced(c)
    /\ Go(c, IF call[c].new THEN "end" ELSE "last")
    /\ UNCHANGED <<row, versions, saves, faults, rough, clashed>>

SyncFails(c) ==
    /\ At(c, "index") /\ faults < MaxFaults
    /\ faults' = faults + 1
    /\ call' = [call EXCEPT ![c] =
                 [call[c] EXCEPT !.step = IF call[c].new THEN "end" ELSE "last", !.whole = FALSE]]
    /\ UNCHANGED <<stored, rough, clashed>>

(* snapshot(): the newest version is read ...                                *)
ReadLast(c) ==
    /\ At(c, "last")
    /\ \E v \in (IF versions[call[c].e] = {} THEN {Null} ELSE
                  {w \in versions[call[c].e] : \A x \in versions[call[c].e] : x.n <= w.n}) :
         call' = [call EXCEPT ![c] = [call[c] EXCEPT !.step = "version", !.last = v]]
    /\ UNCHANGED <<stored, faults, rough, clashed>>

(* ... an autosave goes into it when it is an autosave of the same author,   *)
(* not ten minutes old (and fails when that version has been pruned);        *)
(* anything else is the next version.                                        *)
Merges(q) == q.last # Null /\ ~q.noted /\ ~q.last.noted /\ q.last.by = q.by /\ q.last.open
Gone(q) == Merges(q) /\ \A v \in versions[q.e] : v.id # q.last.id

Number(q) == IF q.last = Null THEN 1 ELSE q.last.n + 1

CutoffMutant(n) == n - Retention + 1

Cutoff(n) == n - Retention

(* What comes after the version.                                             *)
Versioned(q) == [q EXCEPT !.step = IF q.new THEN "index" ELSE "end", !.last = Null]

Version(c) ==
    LET q == call[c]
        n == Number(q)
        hit == {v \in versions[q.e] : q.last # Null /\ v.id = q.last.id}
    IN  /\ At(c, "version") /\ ~Gone(q)
        /\ IF Merges(q)
           THEN versions' = [versions EXCEPT ![q.e] =
                     (@ \ hit) \cup {[v EXCEPT !.body = q.body] : v \in hit}]
           ELSE versions' = [versions EXCEPT ![q.e] = @ \cup
                     {[id |-> q.body, n |-> n, body |-> q.body, by |-> q.by, noted |-> q.noted, open |-> TRUE]}]
        /\ call' = [call EXCEPT ![c] = IF ~Merges(q) /\ Cutoff(n) > 0
                                       THEN [q EXCEPT !.step = "prune"] ELSE Versioned(q)]
        /\ UNCHANGED <<row, index, saves, faults, rough, clashed>>

(* Then the versions past the retention go; a failure of that is swallowed.  *)
Prune(c) ==
    LET q == call[c]
    IN  /\ At(c, "prune")
        /\ versions' = [versions EXCEPT ![q.e] = {v \in @ : v.n > Cutoff(Number(q))}]
        /\ call' = [call EXCEPT ![c] = Versioned(q)]
        /\ UNCHANGED <<row, index, saves, faults, rough, clashed>>

PruneFails(c) ==
    /\ At(c, "prune") /\ faults < MaxFaults
    /\ faults' = faults + 1
    /\ call' = [call EXCEPT ![c] = Versioned(call[c])]
    /\ UNCHANGED <<stored, rough, clashed>>

(* A query throws: the call ends where it was, with what it has written.     *)
Throws(c) ==
    /\ \/ At(c, "version") /\ Gone(call[c]) /\ UNCHANGED faults
       \/ /\ c \in Flying /\ call[c].step \in {"quick", "write", "last", "version"}
          /\ faults < MaxFaults
          /\ faults' = faults + 1
    /\ Answer(c)
    /\ rough' = IF Written(c) THEN rough \cup {call[c].e} ELSE rough
    /\ UNCHANGED <<stored, clashed>>

(* The call answers.                                                         *)
End(c) ==
    /\ At(c, "end")
    /\ Answer(c)
    /\ rough' = IF call[c].whole THEN rough \ {call[c].e} ELSE rough \cup {call[c].e}
    /\ UNCHANGED <<stored, faults, clashed>>

(* Ten minutes without a save: the next autosave is a version of its own.    *)
Close(e) ==
    /\ \E v \in versions[e] : v.open
    /\ versions' = [versions EXCEPT ![e] = {[v EXCEPT !.open = FALSE] : v \in @}]
    /\ UNCHANGED <<row, index, saves, call, faults, rough, clashed>>

(* The process stops: the calls in flight are gone.                          *)
Crash ==
    /\ faults < MaxFaults
    /\ faults' = faults + 1
    /\ rough' = rough \cup {call[c].e : c \in {d \in Flying : Written(d)}}
    /\ call' = [c \in Calls |-> Null]
    /\ UNCHANGED <<stored, clashed>>

-----------------------------------------------------------------------------
Step(c) ==
    \/ Write(c) \/ QuickInsert(c) \/ Sync(c) \/ SyncFails(c) \/ ReadLast(c) \/ Version(c)
    \/ Prune(c) \/ PruneFails(c) \/ Throws(c) \/ End(c)

Next ==
    \/ \E c \in Calls :
         \/ Step(c)
         \/ \E e \in Entries, by \in Authors :
              \/ \E s \in Names : Create(c, e, s, by) \/ QuickCreate(c, e, s, by)
              \/ \E s \in {Null} \cup Names, noted \in BOOLEAN : Update(c, e, s, by, noted)
    \/ \E e \in Entries : Close(e)
    \/ Crash

Spec == Init /\ [][Next]_vars

-----------------------------------------------------------------------------
TypeOK ==
    /\ row \in [Entries -> {Null} \cup Rows]
    /\ index \in [Entries -> Nat]
    /\ versions \in [Entries -> SUBSET Versions]
    /\ call \in [Calls -> {Null} \cup Requests]
    /\ saves \in 0..MaxSaves /\ faults \in 0..MaxFaults
    /\ rough \subseteq Entries /\ clashed \subseteq Entries

(* Two quick-creates of one name, however they interleave, make one entry.   *)
OnePerName ==
    \A e, f \in Entries : row[e] # Null /\ row[f] # Null /\ row[e].quick /\ row[f].quick
                            /\ row[e].name = row[f].name => e = f

(* Two entries share a slug only when the calls that wrote it had both       *)
(* checked it before either wrote.                                           *)
SlugsUnique ==
    \A e, f \in Entries : e # f /\ row[e] # Null /\ row[f] # Null /\ row[e].slug = row[f].slug
                            => {e, f} \cap clashed # {}

(* Once no call is at an entry, its index and its newest version are those   *)
(* of the body it has, unless its last saves overlapped or broke off; the    *)
(* next save that runs alone repairs both.                                   *)
Settled ==
    \A e \in Entries : row[e] # Null /\ On(e) = {} /\ e \notin rough =>
        /\ index[e] = row[e].body
        /\ \E v \in versions[e] : v.body = row[e].body /\ \A w \in versions[e] : w.n <= v.n

(* A version leaves the history only when as many newer ones are kept as the *)
(* retention says; one that is not an autosave is never written over.        *)
RecentKept ==
    [][\A e \in Entries : \A v \in versions[e] :
         LET now == {w \in versions'[e] : w.id = v.id}
         IN  IF now = {} THEN Cardinality({w.n : w \in {x \in versions'[e] : x.n > v.n}}) >= Retention
                         ELSE v.noted => \A w \in now : w.body = v.body]_vars
=============================================================================
