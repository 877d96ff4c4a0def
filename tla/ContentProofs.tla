-------------------------- MODULE ContentProofs --------------------------
(***************************************************************************)
(* Proofs about what is kept of the content: EntrySaves (what a save       *)
(* leaves behind an entry's row), for any entries, calls, authors, names   *)
(* and retention; and ContentStore (versions, files, bin and snapshots),   *)
(* for any things, removals, days and number of requests and stops.        *)
(***************************************************************************)
EXTENDS EntrySaves, ContentStore, FiniteSetTheorems, TLAPS

Kept(k, q) ==
    /\ k \in Requests /\ k.e = q.e /\ k.new = q.new /\ k.slug = q.slug /\ k.by = q.by
    /\ k.noted = q.noted /\ k.clash = q.clash

(* A call that goes on as k. *)
Moves(c, k) == c \in Flying /\ call' = [call EXCEPT ![c] = k] /\ Kept(k, call[c])

LEMMA MoveEffect ==
    ASSUME TypeOK, NEW c, NEW k, Moves(c, k)
    PROVE  /\ call' \in [Calls -> {Null} \cup Requests]
           /\ c \in Calls /\ call[c] \in Requests /\ call'[c] = k /\ Flying' = Flying
           /\ \A d \in Calls \ {c} : call'[d] = call[d]
BY NullAssumption DEF TypeOK, Moves, Kept, Flying

LEMMA FlyingRequests ==
    ASSUME TypeOK, NEW c \in Flying
    PROVE  c \in Calls /\ call[c] \in Requests /\ call[c].e \in Entries
<1>1. c \in Calls /\ call[c] \in Requests
    BY DEF TypeOK, Flying
<1> QED
    BY <1>1 DEF Requests

-----------------------------------------------------------------------------
(* What the steps do. *)
After(q) == IF q.new THEN "end" ELSE "last"

LEMMA PutMoves ==
    ASSUME TypeOK, NEW c \in Flying, NEW quick, Put(c, quick)
    PROVE  LET q == call[c]
               k == [q EXCEPT !.body = saves + 1, !.step = IF q.new THEN "last" ELSE "index"]
           IN  /\ saves' = saves + 1 /\ saves \in Nat /\ saves < MaxSaves
               /\ Moves(c, k) /\ k.body = saves + 1 /\ k.whole = q.whole /\ k.last = q.last
               /\ k.step = IF q.new THEN "last" ELSE "index"
<1> DEFINE q == call[c]
           b == saves + 1
           st == IF q.new THEN "last" ELSE "index"
           k == [q EXCEPT !.body = b, !.step = st]
<1>1. saves' = b /\ saves \in Nat /\ b \in Nat /\ saves < MaxSaves
    BY BoundsAssumption DEF Put, TypeOK
<1>2. call' = [call EXCEPT ![c] = k]
    BY <1>1 DEF Put
<1>3. q \in Requests
    BY FlyingRequests
<1>4. st \in {"index", "last", "version", "end"}
    OBVIOUS
<1> HIDE DEF q, st
<1>5. b \in Nat => Kept(k, q) /\ k.step = st /\ k.body = b /\ k.last = q.last /\ k.whole = q.whole
    BY <1>3, <1>4, Zenon DEF Requests, Kept
<1> QED
    BY <1>1, <1>2, <1>5 DEF Moves, q, st

LEMMA SyncMoves ==
    ASSUME TypeOK, NEW c, Sync(c) \/ SyncFails(c)
    PROVE  \E k : /\ Moves(c, k) /\ k.body = call[c].body /\ k.last = call[c].last
                  /\ k.step = After(call[c]) /\ At(c, "index")
                  /\ k.whole => Sync(c) /\ call[c].whole
<1> DEFINE q == call[c]
           st == After(q)
<1>1. c \in Flying /\ q \in Requests /\ At(c, "index")
    BY FlyingRequests DEF Sync, SyncFails, At
<1>2. st \in {"index", "last", "version", "end"}
    BY DEF After
<1>3. CASE Sync(c)
  <2> DEFINE k == [q EXCEPT !.step = st]
  <2>1. call' = [call EXCEPT ![c] = k]
      BY <1>3 DEF Sync, Go, After
  <2> HIDE DEF st, q
  <2>2. Kept(k, q) /\ k.step = st /\ k.body = q.body /\ k.last = q.last /\ k.whole = q.whole
      BY <1>1, <1>2, Zenon DEF Requests, Kept
  <2> HIDE DEF k
  <2> QED
      BY <1>1, <1>3, <2>1, <2>2 DEF Moves, st, q
<1>4. CASE SyncFails(c)
  <2> DEFINE k == [q EXCEPT !.step = st, !.whole = FALSE]
  <2>1. call' = [call EXCEPT ![c] = k]
      BY <1>4 DEF SyncFails, After
  <2> HIDE DEF st, q
  <2>2. Kept(k, q) /\ k.step = st /\ k.body = q.body /\ k.last = q.last /\ k.whole = FALSE
      BY <1>1, <1>2, Zenon DEF Requests, Kept
  <2> HIDE DEF k
  <2> QED
      BY <1>1, <1>4, <2>1, <2>2 DEF Moves, st, q
<1> QED
    BY <1>3, <1>4

Top(v, e) == v \in versions[e] /\ \A x \in versions[e] : x.n <= v.n

LEMMA ReadMoves ==
    ASSUME TypeOK, NEW c, ReadLast(c)
    PROVE  \E k : /\ Moves(c, k) /\ k.body = call[c].body /\ k.whole = call[c].whole
                  /\ k.step = "version" /\ At(c, "last")
                  /\ \/ k.last = Null /\ versions[call[c].e] = {}
                     \/ k.last # Null /\ Top(k.last, call[c].e)
<1> DEFINE q == call[c]
<1>1. c \in Flying /\ q \in Requests /\ q.e \in Entries /\ At(c, "last")
    BY FlyingRequests DEF ReadLast, At
<1>2. PICK v : /\ call' = [call EXCEPT ![c] = [q EXCEPT !.step = "version", !.last = v]]
               /\ \/ v = Null /\ versions[q.e] = {}
                  \/ Top(v, q.e)
    BY DEF ReadLast, Top
<1>3. v \in {Null} \cup Versions /\ (Top(v, q.e) => v # Null)
    BY <1>1, <1>2, NullAssumption DEF TypeOK, Top
<1> DEFINE k == [q EXCEPT !.step = "version", !.last = v]
<1> HIDE DEF q
<1>4. Kept(k, q) /\ k.step = "version" /\ k.body = q.body /\ k.last = v /\ k.whole = q.whole
    BY <1>1, <1>3, Zenon DEF Requests, Kept
<1>5. call' = [call EXCEPT ![c] = k]
    BY <1>2
<1> HIDE DEF k
<1> QED
    BY <1>1, <1>2, <1>3, <1>4, <1>5 DEF Moves, q

Onward(q) == IF q.new THEN "index" ELSE "end"

LEMMA VersionedCall ==
    ASSUME NEW q \in Requests
    PROVE  LET k == Versioned(q)
           IN  Kept(k, q) /\ k.step = Onward(q) /\ k.body = q.body /\ k.last = Null /\ k.whole = q.whole
<1> DEFINE st == Onward(q)
           k == [q EXCEPT !.step = st, !.last = Null]
<1>1. st \in {"index", "last", "version", "prune", "end"} /\ Versioned(q) = k
    BY DEF Onward, Versioned
<1> HIDE DEF st
<1>2. Kept(k, q) /\ k.step = st /\ k.body = q.body /\ k.last = Null /\ k.whole = q.whole
    BY <1>1, Zenon DEF Requests, Kept
<1> HIDE DEF k
<1> QED
    BY <1>1, <1>2 DEF st

LEMMA VersionMoves ==
    ASSUME TypeOK, NEW c, Version(c)
    PROVE  \E k : /\ Moves(c, k) /\ k.body = call[c].body /\ k.whole = call[c].whole
                  /\ At(c, "version")
                  /\ \/ k.last = Null /\ k.step = Onward(call[c])
                     \/ k.last = call[c].last /\ k.step = "prune" /\ ~Merges(call[c])
<1> DEFINE q == call[c]
           prunes == ~Merges(q) /\ Cutoff(Number(q)) > 0
<1>1. /\ c \in Flying /\ q \in Requests /\ At(c, "version")
      /\ call' = [call EXCEPT ![c] = IF prunes THEN [q EXCEPT !.step = "prune"] ELSE Versioned(q)]
    BY FlyingRequests DEF Version, At
<1>2. CASE prunes
  <2> DEFINE k == [q EXCEPT !.step = "prune"]
  <2>1. call' = [call EXCEPT ![c] = k] /\ ~Merges(q)
      BY <1>1, <1>2
  <2> HIDE DEF q
  <2>2. Kept(k, q) /\ k.step = "prune" /\ k.body = q.body /\ k.last = q.last /\ k.whole = q.whole
      BY <1>1, Zenon DEF Requests, Kept
  <2> HIDE DEF k
  <2> QED
      BY <1>1, <2>1, <2>2 DEF Moves, q
<1>3. CASE ~prunes
  <2> DEFINE k == Versioned(q)
  <2>1. call' = [call EXCEPT ![c] = k]
      BY <1>1, <1>3
  <2>2. Kept(k, q) /\ k.step = Onward(q) /\ k.body = q.body /\ k.last = Null /\ k.whole = q.whole
      BY <1>1, VersionedCall
  <2> HIDE DEF k
  <2> QED
      BY <1>1, <2>1, <2>2 DEF Moves
<1> QED
    BY <1>2, <1>3

LEMMA PruneMoves ==
    ASSUME TypeOK, NEW c, Prune(c) \/ PruneFails(c)
    PROVE  \E k : /\ Moves(c, k) /\ k.body = call[c].body /\ k.whole = call[c].whole
                  /\ k.last = Null /\ k.step = Onward(call[c]) /\ At(c, "prune")
<1> DEFINE q == call[c]
           k == Versioned(q)
<1>1. c \in Flying /\ q \in Requests /\ At(c, "prune") /\ call' = [call EXCEPT ![c] = k]
    BY FlyingRequests DEF Prune, PruneFails, At
<1>2. Kept(k, q) /\ k.step = Onward(q) /\ k.body = q.body /\ k.last = Null /\ k.whole = q.whole
    BY <1>1, VersionedCall
<1> HIDE DEF k
<1> QED
    BY <1>1, <1>2 DEF Moves

(* A call that begins, and what the others make of it. *)
LEMMA FlagUpdate ==
    ASSUME NEW q \in Requests
    PROVE  /\ LET k == [q EXCEPT !.whole = FALSE]
              IN  /\ Kept(k, q) /\ k.step = q.step /\ k.body = q.body /\ k.last = q.last
                  /\ k.whole = FALSE
           /\ LET k == [q EXCEPT !.clash = TRUE]
              IN  /\ k \in Requests /\ k.e = q.e /\ k.new = q.new /\ k.slug = q.slug /\ k.by = q.by
                  /\ k.noted = q.noted /\ k.step = q.step /\ k.body = q.body /\ k.last = q.last
                  /\ k.whole = q.whole /\ k.clash = TRUE
<1>1. LET k == [q EXCEPT !.whole = FALSE]
      IN  /\ Kept(k, q) /\ k.step = q.step /\ k.body = q.body /\ k.last = q.last
          /\ k.whole = FALSE
    BY Zenon DEF Requests, Kept
<1>2. LET k == [q EXCEPT !.clash = TRUE]
      IN  /\ k \in Requests /\ k.e = q.e /\ k.new = q.new /\ k.slug = q.slug /\ k.by = q.by
          /\ k.noted = q.noted /\ k.step = q.step /\ k.body = q.body /\ k.last = q.last
          /\ k.whole = q.whole /\ k.clash = TRUE
    BY Zenon DEF Requests
<1> QED
    BY <1>1, <1>2, Zenon

(* A call q after the call on e that checked s began beside it. *)
Beside(k, q, e, s) ==
    /\ k \in Requests /\ k.e = q.e /\ k.new = q.new /\ k.slug = q.slug /\ k.noted = q.noted
    /\ k.step = q.step /\ k.body = q.body /\ k.last = q.last
    /\ k.whole => q.whole /\ q.e # e
    /\ q.clash => k.clash
    /\ s # Null /\ q.slug = s /\ q.e # e /\ q.step \in {"quick", "write"} => k.clash

Began(c, e, step, s) ==
    /\ c \in Calls /\ call[c] = Null /\ call' \in [Calls -> {Null} \cup Requests]
    /\ Flying' = Flying \cup {c}
    /\ call'[c] \in Requests /\ call'[c].e = e /\ call'[c].step = step /\ call'[c].slug = s
    /\ call'[c].new <=> row[e] = Null
    /\ call'[c].whole => On(e) = {}
    /\ s # Null => \A d \in Flying : call[d].slug = s /\ call[d].e # e
                      /\ call[d].step \in {"quick", "write"} => call'[c].clash
    /\ \A d \in Flying : Beside(call'[d], call[d], e, s)
    /\ UNCHANGED <<stored, faults, rough, clashed>>

LEMMA BeginEffect ==
    ASSUME TypeOK, NEW c, NEW e \in Entries, NEW step \in {"quick", "write"},
           NEW s \in {Null} \cup Names, NEW by \in Authors, NEW noted \in BOOLEAN,
           Begin(c, e, step, s, by, noted)
    PROVE  Began(c, e, step, s)
<1> DEFINE lap == On(e)
           same == {d \in Flying : s # Null /\ call[d].slug = s /\ call[d].e # e /\ ~Written(d)}
           k == [e |-> e, step |-> step, new |-> row[e] = Null, slug |-> s, by |-> by,
                 noted |-> noted, body |-> 0, last |-> Null,
                 whole |-> lap = {}, clash |-> same # {}]
<1>1. c \in Calls /\ call[c] = Null
  <2>1. (\E d \in Calls : call[d] = Null) /\ c = CHOOSE d \in Calls : call[d] = Null
      BY DEF Begin
  <2> QED
      BY <2>1, Zenon
<1>2. call' = [d \in Calls |-> IF d = c THEN k
                               ELSE IF d \in lap THEN [call[d] EXCEPT !.whole = FALSE]
                               ELSE IF d \in same THEN [call[d] EXCEPT !.clash = TRUE]
                               ELSE call[d]]
    BY DEF Begin
<1>3. \A d \in Flying : call[d].step \in {"quick", "write"} <=> ~Written(d)
    BY DEF Written
<1>4. /\ k \in Requests /\ k.e = e /\ k.step = step /\ k.slug = s
      /\ k.new <=> row[e] = Null
      /\ k.whole => On(e) = {}
      /\ k.clash <=> same # {}
  <2>1. /\ (row[e] = Null) \in BOOLEAN /\ (lap = {}) \in BOOLEAN /\ (same # {}) \in BOOLEAN
        /\ 0 \in Nat
      OBVIOUS
  <2> HIDE DEF lap, same
  <2>2. k \in Requests
      BY <2>1, Zenon DEF Requests
  <2> QED
      BY <2>2 DEF lap
<1> HIDE DEF k
<1>5. call'[c] = k
    BY <1>1, <1>2
<1>6. ASSUME NEW d \in Flying PROVE Beside(call'[d], call[d], e, s) /\ d # c
  <2>1. call[d] \in Requests /\ d \in Calls /\ d # c
      BY <1>1, FlyingRequests DEF Flying
  <2>2. CASE d \in lap
    <3>1. call'[d] = [call[d] EXCEPT !.whole = FALSE] /\ call[d].e = e
        BY <1>2, <2>1, <2>2 DEF On
    <3> DEFINE m == [call[d] EXCEPT !.whole = FALSE]
    <3>2. Kept(m, call[d]) /\ m.step = call[d].step /\ m.body = call[d].body
          /\ m.last = call[d].last /\ m.whole = FALSE
        BY <2>1, FlagUpdate
    <3> HIDE DEF m
    <3> QED
        BY <2>1, <3>1, <3>2 DEF Kept, Beside, m
  <2>3. CASE d \notin lap /\ d \in same
    <3>1. call'[d] = [call[d] EXCEPT !.clash = TRUE] /\ call[d].e # e
        BY <1>2, <2>1, <2>3 DEF On
    <3> DEFINE m == [call[d] EXCEPT !.clash = TRUE]
    <3>2. /\ m \in Requests /\ m.e = call[d].e /\ m.new = call[d].new /\ m.slug = call[d].slug
          /\ m.noted = call[d].noted /\ m.step = call[d].step /\ m.body = call[d].body
          /\ m.last = call[d].last /\ m.whole = call[d].whole /\ m.clash = TRUE
        BY <2>1, FlagUpdate
    <3> HIDE DEF m
    <3> QED
        BY <2>1, <3>1, <3>2 DEF Beside, m
  <2>4. CASE d \notin lap /\ d \notin same
    <3>1. call'[d] = call[d] /\ call[d].e # e
        BY <1>2, <2>1, <2>4 DEF On
    <3>2. ~(s # Null /\ call[d].slug = s /\ call[d].e # e /\ call[d].step \in {"quick", "write"})
        BY <1>3, <2>4
    <3> QED
        BY <2>1, <3>1, <3>2 DEF Beside
  <2> QED
      BY <2>2, <2>3, <2>4
<1>7. \A d \in Calls \ {c} : call[d] = Null => call'[d] = Null
    BY <1>2 DEF On, Flying
<1>8. call' \in [Calls -> {Null} \cup Requests] /\ Flying' = Flying \cup {c}
  <2>1. \A d \in Calls : call'[d] \in {Null} \cup Requests
      BY <1>4, <1>5, <1>6, <1>7 DEF Beside, Flying
  <2>2. \A d \in Calls : call'[d] # Null <=> d \in Flying \cup {c}
      BY <1>4, <1>5, <1>6, <1>7, NullAssumption DEF Beside, Flying
  <2> QED
      BY <1>1, <1>2, <2>1, <2>2 DEF Flying
<1>9. s # Null => \A d \in Flying : call[d].slug = s /\ call[d].e # e
                                    /\ call[d].step \in {"quick", "write"} => k.clash
    BY <1>3, <1>4
<1> QED
    BY <1>1, <1>4, <1>5, <1>6, <1>8, <1>9 DEF Begin, Began

-----------------------------------------------------------------------------
(* The invariant.  What is known of a call: it saves an entry that is there, *)
(* or makes one, and one that has saved names a body of its own.             *)
Unsaved(c) == call[c].step \in {"quick", "write"}

CallsOK ==
    \A c \in Flying :
        /\ ~call[c].new => row[call[c].e] # Null
        /\ call[c].new /\ Unsaved(c) => call[c].slug # Null
        /\ call[c].step = "quick" => call[c].new
        /\ ~Unsaved(c) => row[call[c].e] # Null /\ call[c].body \in 1..saves

(* A row is written as the request says. *)
RowAs(r, q, quick) ==
    /\ r \in Rows /\ r # Null /\ r.body = saves + 1
    /\ q.slug # Null => r.slug = q.slug
    /\ q.slug = Null => row[q.e] # Null /\ r.slug = row[q.e].slug
    /\ q.new => r.name = q.slug /\ r.quick = quick
    /\ ~q.new => row[q.e] # Null /\ r.name = row[q.e].name /\ r.quick = row[q.e].quick

LEMMA PutRow ==
    ASSUME TypeOK, CallsOK, NEW c \in Flying, Unsaved(c), NEW quick \in BOOLEAN, Put(c, quick)
    PROVE  \E r : RowAs(r, call[c], quick) /\ row' = [row EXCEPT ![call[c].e] = r]
<1> DEFINE q == call[c]
           b == saves + 1
<1>1. q \in Requests /\ q.e \in Entries /\ row[q.e] \in {Null} \cup Rows
    BY FlyingRequests DEF TypeOK
<1>2. saves' = b /\ b \in Nat
    BY DEF Put, TypeOK
<1>3. q.slug \in {Null} \cup Names
    BY <1>1 DEF Requests
<1>4. CASE q.new
  <2> DEFINE r == [slug |-> q.slug, name |-> q.slug, body |-> b, quick |-> quick]
  <2>1. q.slug # Null /\ q.slug \in Names
      BY <1>3, <1>4 DEF CallsOK
  <2>2. r \in Rows
      BY <1>2, <2>1, Zenon DEF Rows
  <2>3. row' = [row EXCEPT ![q.e] = r]
      BY <1>2, <1>4 DEF Put
  <2> QED
      BY <1>4, <2>1, <2>2, <2>3, NullAssumption DEF RowAs
<1>5. CASE ~q.new
  <2> DEFINE old == row[q.e]
             slug == IF q.slug = Null THEN old.slug ELSE q.slug
             r == [old EXCEPT !.body = b, !.slug = slug]
  <2>1. old \in Rows /\ old # Null
      BY <1>1, <1>5 DEF CallsOK
  <2>2. slug \in Names
      BY <1>3, <2>1 DEF Rows
  <2>3. row' = [row EXCEPT ![q.e] = r]
      BY <1>2, <1>5 DEF Put, Edited
  <2> HIDE DEF old, slug, b
  <2>4. r \in Rows /\ r.body = b /\ r.slug = slug /\ r.name = old.name /\ r.quick = old.quick
      BY <1>2, <2>1, <2>2, Zenon DEF Rows
  <2> HIDE DEF r
  <2> QED
      BY <1>5, <2>1, <2>3, <2>4, NullAssumption DEF RowAs, old, slug, b
<1> QED
    BY <1>4, <1>5

(* The versions of an entry are written as the call says: the autosave it    *)
(* read is written over, or the next number is added and old ones go.        *)
Over(c) ==
    LET q == call[c]
        vs == versions[q.e]
        hit == {v \in vs : v.id = q.last.id}
    IN  /\ q.last # Null /\ ~q.last.noted
        /\ versions' = [versions EXCEPT ![q.e] = (vs \ hit) \cup {[v EXCEPT !.body = q.body] : v \in hit}]

Added(c, x) ==
    LET q == call[c]
        n == Number(q)
    IN  /\ x \in Versions /\ x.id = q.body /\ x.body = q.body /\ x.n = n
        /\ n \in Nat \ {0}
        /\ versions' = [versions EXCEPT ![q.e] = versions[q.e] \cup {x}]

LEMMA VersionEffect ==
    ASSUME TypeOK, NEW c, Version(c)
    PROVE  (Merges(call[c]) /\ Over(c)) \/ \E x : Added(c, x)
<1> DEFINE q == call[c]
<1>1. c \in Flying /\ q \in Requests
    BY FlyingRequests DEF Version, At
<1>2. q.last \in {Null} \cup Versions /\ q.by \in Authors /\ q.noted \in BOOLEAN /\ q.body \in Nat
    BY <1>1 DEF Requests
<1>3. CASE Merges(q)
  <2>1. q.last # Null /\ ~q.last.noted
      BY <1>3 DEF Merges
  <2> QED
      BY <1>3, <2>1 DEF Version, Over
<1>4. CASE ~Merges(q)
  <2> DEFINE n == Number(q)
             x == [id |-> q.body, n |-> n, body |-> q.body, by |-> q.by, noted |-> q.noted, open |-> TRUE]
  <2>1. n \in Nat \ {0}
    <3>1. q.last # Null => q.last.n \in Nat \ {0}
        BY <1>2 DEF Versions
    <3> QED
        BY <3>1 DEF Number
  <2>2. versions' = [versions EXCEPT ![q.e] = versions[q.e] \cup {x}]
      BY <1>4 DEF Version
  <2> HIDE DEF q, n
  <2>3. x \in Versions
      BY <1>2, <2>1, Zenon DEF Versions
  <2> QED
      BY <2>1, <2>2, <2>3 DEF Added, q, n
<1> QED
    BY <1>3, <1>4

LEMMA VersionUpdates ==
    ASSUME NEW v \in Versions, NEW b \in Nat
    PROVE  /\ LET w == [v EXCEPT !.body = b]
              IN  w \in Versions /\ w.id = v.id /\ w.n = v.n /\ w.noted = v.noted /\ w.body = b
           /\ LET w == [v EXCEPT !.open = FALSE]
              IN  w \in Versions /\ w.id = v.id /\ w.n = v.n /\ w.noted = v.noted /\ w.body = v.body
<1>1. LET w == [v EXCEPT !.body = b]
      IN  w \in Versions /\ w.id = v.id /\ w.n = v.n /\ w.noted = v.noted /\ w.body = b
    BY Zenon DEF Versions
<1>2. LET w == [v EXCEPT !.open = FALSE]
      IN  w \in Versions /\ w.id = v.id /\ w.n = v.n /\ w.noted = v.noted /\ w.body = v.body
    BY Zenon DEF Versions
<1> QED
    BY <1>1, <1>2, Zenon

(* Two sets of versions with the same ids, numbers and notes; their bodies   *)
(* are the same too, but for one id.                                         *)
Mirrors(A, B, id, b) ==
    /\ A \subseteq Versions
    /\ \A v \in A : \E u \in B :
          /\ v.id = u.id /\ v.n = u.n /\ v.noted = u.noted
          /\ v.body = IF u.id = id THEN b ELSE u.body
    /\ \A u \in B : \E v \in A :
          /\ v.id = u.id /\ v.n = u.n /\ v.noted = u.noted
          /\ v.body = IF u.id = id THEN b ELSE u.body

OneRow(A) == \A v, w \in A : v.id = w.id => v = w

LEMMA OverMirrors ==
    ASSUME TypeOK, NEW c \in Flying, Over(c)
    PROVE  LET q == call[c] IN
           /\ q.last # Null /\ ~q.last.noted /\ q.last \in Versions
           /\ Mirrors(versions'[q.e], versions[q.e], q.last.id, q.body)
           /\ OneRow(versions[q.e]) => OneRow(versions'[q.e])
           /\ \A e \in Entries \ {q.e} : versions'[e] = versions[e]
           /\ versions' \in [Entries -> SUBSET Versions]
<1> DEFINE q == call[c]
           vs == versions[q.e]
           id == q.last.id
           b == q.body
           hit == {v \in vs : v.id = id}
           out == {[v EXCEPT !.body = b] : v \in hit}
           next == (vs \ hit) \cup out
<1>1. q \in Requests /\ q.e \in Entries /\ b \in Nat /\ vs \subseteq Versions
      /\ q.last \in {Null} \cup Versions
    BY FlyingRequests DEF Requests, TypeOK
<1>2. q.last # Null /\ ~q.last.noted /\ versions' = [versions EXCEPT ![q.e] = next]
    BY DEF Over
<1>3. versions'[q.e] = next /\ \A e \in Entries \ {q.e} : versions'[e] = versions[e]
    BY <1>1, <1>2 DEF TypeOK
<1> HIDE DEF q, vs, id, b
<1>4. \A v \in Versions : LET w == [v EXCEPT !.body = b] IN
         w \in Versions /\ w.id = v.id /\ w.n = v.n /\ w.noted = v.noted /\ w.body = b
    BY <1>1, VersionUpdates
<1>5. ASSUME NEW v \in next
      PROVE  /\ v \in Versions
             /\ \E u \in vs : /\ v.id = u.id /\ v.n = u.n /\ v.noted = u.noted
                             /\ v.body = IF u.id = id THEN b ELSE u.body
  <2>1. CASE v \in vs \ hit
      BY <1>1, <2>1
  <2>2. CASE v \in out
    <3>1. PICK u \in hit : v = [u EXCEPT !.body = b]
        BY <2>2
    <3>2. u \in vs /\ u.id = id /\ u \in Versions
        BY <1>1, <3>1
    <3>3. v \in Versions /\ v.id = u.id /\ v.n = u.n /\ v.noted = u.noted /\ v.body = b
        BY <1>4, <3>1, <3>2
    <3> QED
        BY <3>2, <3>3
  <2> QED
      BY <2>1, <2>2
<1>6. ASSUME NEW u \in vs
      PROVE  \E v \in next : /\ v.id = u.id /\ v.n = u.n /\ v.noted = u.noted
                            /\ v.body = IF u.id = id THEN b ELSE u.body
  <2>1. CASE u.id # id
      BY <2>1
  <2>2. CASE u.id = id
    <3> DEFINE v == [u EXCEPT !.body = b]
    <3>1. v \in next
        BY <2>2
    <3>2. v.id = u.id /\ v.n = u.n /\ v.noted = u.noted /\ v.body = b
        BY <1>1, <1>4
    <3> QED
        BY <2>2, <3>1, <3>2
  <2> QED
      BY <2>1, <2>2
<1>7. Mirrors(next, vs, id, b)
    BY <1>5, <1>6 DEF Mirrors
<1>8. ASSUME OneRow(vs) PROVE OneRow(next)
  <2> SUFFICES ASSUME NEW v \in next, NEW w \in next, v.id = w.id PROVE v = w
      BY DEF OneRow
  <2>1. \A x \in out : x.id = id /\ \E u \in hit : x = [u EXCEPT !.body = b]
      BY <1>1, <1>4
  <2>2. CASE v.id = id
    <3>1. v \in out /\ w \in out
        BY <2>2
    <3>2. PICK u \in hit, x \in hit : v = [u EXCEPT !.body = b] /\ w = [x EXCEPT !.body = b]
        BY <2>1, <3>1
    <3>3. u = x
        BY <1>8, <3>2 DEF OneRow
    <3> QED
        BY <3>2, <3>3
  <2>3. CASE v.id # id
    <3>1. v \in vs /\ w \in vs
        BY <2>1, <2>3
    <3> QED
        BY <1>8, <3>1 DEF OneRow
  <2> QED
      BY <2>2, <2>3
<1>9. versions' \in [Entries -> SUBSET Versions]
  <2>1. next \subseteq Versions
      BY <1>5
  <2> HIDE DEF next
  <2> QED
      BY <1>2, <2>1 DEF TypeOK
<1> QED
    BY <1>1, <1>2, <1>3, <1>7, <1>8, <1>9 DEF q, vs, id, b

LEMMA CloseMirrors ==
    ASSUME TypeOK, NEW e \in Entries, Close(e)
    PROVE  /\ Mirrors(versions'[e], versions[e], -1, 0)
           /\ OneRow(versions[e]) => OneRow(versions'[e])
           /\ \A d \in Entries \ {e} : versions'[d] = versions[d]
           /\ versions' \in [Entries -> SUBSET Versions]
<1> DEFINE vs == versions[e]
           out == {[v EXCEPT !.open = FALSE] : v \in vs}
<1>1. vs \subseteq Versions /\ versions' = [versions EXCEPT ![e] = out]
    BY DEF TypeOK, Close
<1>2. versions'[e] = out /\ \A d \in Entries \ {e} : versions'[d] = versions[d]
    BY <1>1 DEF TypeOK
<1> HIDE DEF vs
<1>3. \A v \in Versions : LET w == [v EXCEPT !.open = FALSE] IN
         w \in Versions /\ w.id = v.id /\ w.n = v.n /\ w.noted = v.noted /\ w.body = v.body
    BY VersionUpdates
<1>4. \A v \in Versions : v.id # -1
    BY DEF Versions
<1>5. Mirrors(out, vs, -1, 0)
  <2>1. ASSUME NEW v \in out
        PROVE  /\ v \in Versions
               /\ \E u \in vs : v.id = u.id /\ v.n = u.n /\ v.noted = u.noted /\ v.body = u.body /\ u.id # -1
    <3>1. PICK u \in vs : v = [u EXCEPT !.open = FALSE]
        BY <2>1
    <3> QED
        BY <1>1, <1>3, <1>4, <3>1
  <2>2. ASSUME NEW u \in vs
        PROVE  \E v \in out : v.id = u.id /\ v.n = u.n /\ v.noted = u.noted /\ v.body = u.body /\ u.id # -1
    <3> DEFINE v == [u EXCEPT !.open = FALSE]
    <3>1. v \in out /\ u \in Versions
        BY <1>1, <2>2
    <3>2. v.id = u.id /\ v.n = u.n /\ v.noted = u.noted /\ v.body = u.body /\ u.id # -1
        BY <1>3, <1>4, <3>1
    <3> QED
        BY <3>1, <3>2
  <2> QED
      BY <2>1, <2>2 DEF Mirrors
<1>6. ASSUME OneRow(vs) PROVE OneRow(out)
  <2> SUFFICES ASSUME NEW v \in out, NEW w \in out, v.id = w.id PROVE v = w
      BY DEF OneRow
  <2>1. PICK u \in vs, x \in vs : v = [u EXCEPT !.open = FALSE] /\ w = [x EXCEPT !.open = FALSE]
      OBVIOUS
  <2>2. u.id = x.id
      BY <1>1, <1>3, <2>1
  <2> QED
      BY <1>6, <2>1, <2>2 DEF OneRow
<1>7. versions' \in [Entries -> SUBSET Versions]
  <2>1. out \subseteq Versions
      BY <1>5 DEF Mirrors
  <2> HIDE DEF out
  <2> QED
      BY <1>1, <2>1 DEF TypeOK
<1> QED
    BY <1>2, <1>5, <1>6, <1>7 DEF vs

-----------------------------------------------------------------------------
(* Types and calls, over every step. *)
Begins(c, e, step, s, by, noted) ==
    /\ Begin(c, e, step, s, by, noted)
    /\ row[e] = Null => s # Null /\ On(e) = {}
    /\ step = "quick" => row[e] = Null
    /\ s # Null => SlugFree(s, e)

LEMMA StepCases ==
    ASSUME [Next]_vars
    PROVE  \/ \E c \in Calls, e \in Entries, step \in {"quick", "write"}, s \in {Null} \cup Names,
                 by \in Authors, noted \in BOOLEAN : Begins(c, e, step, s, by, noted)
           \/ \E c \in Flying, quick \in BOOLEAN :
                    /\ Put(c, quick)
                    /\ \/ ~quick /\ call[c].step = "write"
                       \/ quick /\ call[c].step = "quick" /\ Matches(call[c].slug) = {}
           \/ \E c \in Flying : Unsaved(c) /\ Answer(c) /\ UNCHANGED <<stored, faults, rough, clashed>>
           \/ \E c \in Flying : Sync(c) \/ SyncFails(c) \/ ReadLast(c) \/ Version(c)
           \/ \E c \in Flying : Prune(c) \/ PruneFails(c) \/ Throws(c) \/ End(c)
           \/ \E e \in Entries : Close(e)
           \/ Crash
           \/ UNCHANGED vars
<1>1. ASSUME NEW c, NEW e \in Entries, NEW s \in Names, NEW by \in Authors,
             Create(c, e, s, by) \/ QuickCreate(c, e, s, by)
      PROVE  \E step \in {"quick", "write"} : Begins(c, e, step, s, by, TRUE)
  <2>1. s # Null
      BY NullAssumption
  <2>2. Matches(s) = {} => SlugFree(s, e)
      BY DEF Matches, SlugFree
  <2> QED
      BY <1>1, <2>1, <2>2 DEF Create, QuickCreate, Begins
<1>2. ASSUME NEW c \in Calls, Step(c)
      PROVE  \/ \E quick \in BOOLEAN :
                    /\ c \in Flying /\ Put(c, quick)
                    /\ \/ ~quick /\ call[c].step = "write"
                       \/ quick /\ call[c].step = "quick" /\ Matches(call[c].slug) = {}
             \/ c \in Flying /\ Unsaved(c) /\ Answer(c) /\ UNCHANGED <<stored, faults, rough, clashed>>
             \/ c \in Flying /\ (Sync(c) \/ SyncFails(c) \/ ReadLast(c) \/ Version(c))
             \/ c \in Flying /\ (Prune(c) \/ PruneFails(c) \/ Throws(c) \/ End(c))
    BY <1>2 DEF Step, Write, QuickInsert, Again, At, Unsaved, Sync, SyncFails, ReadLast, Version,
                Prune, PruneFails, Throws, End
<1>3. ASSUME NEW c, NEW e, NEW s, NEW by, NEW noted, Update(c, e, s, by, noted)
      PROVE  Begins(c, e, "write", s, by, noted)
    BY <1>3 DEF Update, Begins
<1> DEFINE Start == \E c \in Calls, e \in Entries, step \in {"quick", "write"}, s \in {Null} \cup Names,
                       by \in Authors, noted \in BOOLEAN : Begins(c, e, step, s, by, noted)
<1>4. ASSUME NEW c \in Calls, NEW e \in Entries, NEW by \in Authors, NEW s \in Names,
             Create(c, e, s, by) \/ QuickCreate(c, e, s, by)
      PROVE  Start
  <2>1. s \in {Null} \cup Names /\ TRUE \in BOOLEAN
      OBVIOUS
  <2>2. PICK step \in {"quick", "write"} : Begins(c, e, step, s, by, TRUE)
      BY <1>1, <1>4
  <2> QED
      BY <2>1, <2>2, Zenon
<1>5. ASSUME NEW c \in Calls, NEW e \in Entries, NEW by \in Authors, NEW s \in {Null} \cup Names,
             NEW noted \in BOOLEAN, Update(c, e, s, by, noted)
      PROVE  Start
    BY <1>3, <1>5
<1> HIDE DEF Start
<1>6. CASE \E c \in Calls : Step(c)
    BY <1>2, <1>6
<1>7. CASE \/ \E e \in Entries : Close(e)
           \/ Crash
           \/ UNCHANGED vars
    BY <1>7
<1>8. CASE \E c \in Calls, e \in Entries, by \in Authors :
              \/ \E s \in Names : Create(c, e, s, by) \/ QuickCreate(c, e, s, by)
              \/ \E s \in {Null} \cup Names, noted \in BOOLEAN : Update(c, e, s, by, noted)
  <2>1. Start
      BY <1>4, <1>5, <1>8
  <2> QED
      BY <2>1 DEF Start
<1> QED
    BY <1>6, <1>7, <1>8, Zenon DEF Next

LEMMA CallsInitially == Init => TypeOK /\ CallsOK
<1> SUFFICES ASSUME Init PROVE TypeOK /\ CallsOK
    OBVIOUS
<1>1. PICK slug \in [Entries -> Names \cup {Null}] :
         /\ row = [e \in Entries |-> IF slug[e] = Null THEN Null ELSE
                     [slug |-> slug[e], name |-> slug[e], body |-> 0, quick |-> TRUE]]
         /\ versions = [e \in Entries |-> IF slug[e] = Null THEN {} ELSE
                     {[id |-> 0, n |-> 1, body |-> 0, by |-> Null, noted |-> TRUE, open |-> FALSE]}]
    BY DEF Init
<1>2. row \in [Entries -> {Null} \cup Rows]
  <2>1. ASSUME NEW e \in Entries, slug[e] # Null
        PROVE  [slug |-> slug[e], name |-> slug[e], body |-> 0, quick |-> TRUE] \in Rows
    <3>1. slug[e] \in Names
        BY <2>1
    <3> QED
        BY <3>1 DEF Rows
  <2> QED
      BY <1>1, <2>1
<1>3. versions \in [Entries -> SUBSET Versions]
  <2> DEFINE v == [id |-> 0, n |-> 1, body |-> 0, by |-> Null, noted |-> TRUE, open |-> FALSE]
  <2>1. v \in Versions
      BY DEF Versions
  <2> HIDE DEF v
  <2> QED
      BY <1>1, <2>1 DEF v
<1>4. Flying = {}
    BY DEF Init, Flying
<1>5. call \in [Calls -> {Null} \cup Requests] /\ index \in [Entries -> Nat]
    BY DEF Init
<1>6. saves \in 0..MaxSaves /\ faults \in 0..MaxFaults /\ rough = {} /\ clashed = {}
    BY BoundsAssumption DEF Init
<1> QED
    BY <1>2, <1>3, <1>4, <1>5, <1>6 DEF TypeOK, CallsOK

(* A call that goes on changes no row. *)
LEMMA MovesKeepCalls ==
    ASSUME TypeOK, CallsOK, NEW c, NEW k, Moves(c, k), ~Unsaved(c),
           k.step \in {"index", "last", "version", "prune", "end"}, k.body = call[c].body,
           UNCHANGED <<row, saves>>
    PROVE  CallsOK'
<1>1. Flying' = Flying /\ call'[c] = k /\ \A d \in Flying \ {c} : call'[d] = call[d]
    BY MoveEffect DEF Flying
<1>2. c \in Flying /\ k.e = call[c].e /\ k.new = call[c].new
    BY DEF Moves, Kept
<1>3. row[call[c].e] # Null /\ call[c].body \in 1..saves
    BY <1>2 DEF CallsOK
<1> SUFFICES ASSUME NEW d \in Flying
             PROVE  /\ ~call'[d].new => row'[call'[d].e] # Null
                    /\ call'[d].new /\ call'[d].step \in {"quick", "write"} => call'[d].slug # Null
                    /\ call'[d].step = "quick" => call'[d].new
                    /\ call'[d].step \notin {"quick", "write"} =>
                          row'[call'[d].e] # Null /\ call'[d].body \in 1..saves'
    BY <1>1 DEF CallsOK, Unsaved
<1>4. CASE d = c
    BY <1>1, <1>2, <1>3, <1>4
<1>5. CASE d # c
    BY <1>1, <1>5 DEF CallsOK, Unsaved
<1> QED
    BY <1>4, <1>5

LEMMA GoneKeepCalls ==
    ASSUME TypeOK, CallsOK, NEW c \in Flying, Answer(c), UNCHANGED <<row, saves>>
    PROVE  /\ CallsOK' /\ call' \in [Calls -> {Null} \cup Requests]
           /\ Flying' = Flying \ {c} /\ \A d \in Calls \ {c} : call'[d] = call[d]
<1>1. /\ call' \in [Calls -> {Null} \cup Requests]
      /\ Flying' = Flying \ {c} /\ \A d \in Calls \ {c} : call'[d] = call[d]
    BY DEF Answer, TypeOK, Flying
<1>2. CallsOK'
    BY <1>1, FlyingRequests DEF CallsOK, Unsaved
<1> QED
    BY <1>1, <1>2

LEMMA PutKeeps ==
    ASSUME TypeOK, CallsOK, NEW c \in Flying, Unsaved(c), NEW quick \in BOOLEAN, Put(c, quick)
    PROVE  TypeOK' /\ CallsOK'
<1> DEFINE q == call[c]
<1>1. PICK r : RowAs(r, q, quick) /\ row' = [row EXCEPT ![q.e] = r]
    BY PutRow
<1>2. PICK k : /\ saves' = saves + 1 /\ saves \in Nat /\ saves < MaxSaves
               /\ Moves(c, k) /\ k.body = saves + 1 /\ k.whole = q.whole /\ k.last = q.last
               /\ k.step = IF q.new THEN "last" ELSE "index"
    BY PutMoves
<1>3. q.e \in Entries /\ r \in Rows /\ r # Null
    BY <1>1, FlyingRequests DEF RowAs
<1>4. /\ call' \in [Calls -> {Null} \cup Requests] /\ Flying' = Flying /\ call'[c] = k
      /\ \A d \in Calls \ {c} : call'[d] = call[d]
    BY <1>2, MoveEffect
<1>5. /\ row' \in [Entries -> {Null} \cup Rows] /\ row'[q.e] = r
      /\ \A e \in Entries : row[e] # Null => row'[e] # Null
    BY <1>1, <1>3 DEF TypeOK
<1>6. TypeOK'
  <2>1. saves' \in 0..MaxSaves
      BY <1>2, BoundsAssumption
  <2>2. clashed' \subseteq Entries
    <3>1. clashed \subseteq Entries
        BY DEF TypeOK
    <3>2. clashed' \subseteq clashed \cup {q.e}
        BY DEF Put
    <3> QED
        BY <1>3, <3>1, <3>2
  <2> QED
      BY <1>4, <1>5, <2>1, <2>2 DEF Put, TypeOK
<1>7. CallsOK'
  <2> SUFFICES ASSUME NEW d \in Flying
               PROVE  /\ ~call'[d].new => row'[call'[d].e] # Null
                      /\ call'[d].new /\ call'[d].step \in {"quick", "write"} => call'[d].slug # Null
                      /\ call'[d].step = "quick" => call'[d].new
                      /\ call'[d].step \notin {"quick", "write"} =>
                            row'[call'[d].e] # Null /\ call'[d].body \in 1..saves'
      BY <1>4 DEF CallsOK, Unsaved
  <2>1. CASE d = c
      BY <1>2, <1>3, <1>4, <1>5, <2>1 DEF Moves, Kept
  <2>2. CASE d # c
    <3>1. call'[d] = call[d] /\ call[d].e \in Entries
        BY <1>4, <2>2, FlyingRequests
    <3> QED
        BY <1>2, <1>5, <3>1 DEF CallsOK, Unsaved
  <2> QED
      BY <2>1, <2>2
<1> QED
    BY <1>6, <1>7

LEMMA BeginKeeps ==
    ASSUME TypeOK, CallsOK, NEW c, NEW e \in Entries, NEW step \in {"quick", "write"},
           NEW s \in {Null} \cup Names, NEW by \in Authors, NEW noted \in BOOLEAN,
           Begins(c, e, step, s, by, noted)
    PROVE  TypeOK' /\ CallsOK'
<1>1. Begin(c, e, step, s, by, noted)
    BY DEF Begins
<1>2. /\ call' \in [Calls -> {Null} \cup Requests] /\ Flying' = Flying \cup {c}
      /\ call'[c].e = e /\ call'[c].step = step /\ call'[c].slug = s
      /\ call'[c].new <=> row[e] = Null
      /\ \A d \in Flying : Beside(call'[d], call[d], e, s)
      /\ UNCHANGED <<stored, faults, rough, clashed>>
  <2>1. Began(c, e, step, s)
      BY <1>1, BeginEffect
  <2> QED
      BY <2>1 DEF Began
<1>3. TypeOK'
    BY <1>2 DEF TypeOK, stored
<1>4. ASSUME NEW d \in Flying'
      PROVE  /\ ~call'[d].new => row'[call'[d].e] # Null
             /\ call'[d].new /\ call'[d].step \in {"quick", "write"} => call'[d].slug # Null
             /\ call'[d].step = "quick" => call'[d].new
             /\ call'[d].step \notin {"quick", "write"} =>
                    row'[call'[d].e] # Null /\ call'[d].body \in 1..saves'
  <2>1. row' = row /\ saves' = saves
      BY <1>2 DEF stored
  <2>2. CASE d = c
      BY <1>2, <2>1, <2>2 DEF Begins
  <2>3. CASE d \in Flying
      BY <1>2, <2>1, <2>3 DEF Beside, CallsOK, Unsaved
  <2> QED
      BY <1>2, <2>2, <2>3
<1> QED
    BY <1>3, <1>4 DEF CallsOK, Unsaved

LEMMA CallsStep ==
    ASSUME TypeOK, CallsOK, [Next]_vars
    PROVE  TypeOK' /\ CallsOK'
<1>1. ASSUME NEW c \in Flying, Sync(c) \/ SyncFails(c) PROVE TypeOK' /\ CallsOK'
  <2>1. PICK k : /\ Moves(c, k) /\ k.body = call[c].body /\ k.step = After(call[c]) /\ At(c, "index")
      BY <1>1, SyncMoves
  <2>2. CallsOK'
      BY <1>1, <2>1, MovesKeepCalls DEF After, At, Unsaved, Sync, SyncFails, stored
  <2>3. call' \in [Calls -> {Null} \cup Requests]
      BY <2>1, MoveEffect
  <2>4. index' \in [Entries -> Nat]
    <3>1. call[c].body \in Nat /\ call[c].e \in Entries
        BY FlyingRequests DEF Requests
    <3> QED
        BY <1>1, <3>1 DEF Sync, SyncFails, Synced, TypeOK, stored
  <2>5. faults' \in 0..MaxFaults
      BY <1>1, BoundsAssumption DEF Sync, SyncFails, TypeOK
  <2>6. UNCHANGED <<row, versions, saves, rough, clashed>>
      BY <1>1 DEF Sync, SyncFails, stored
  <2> QED
      BY <2>2, <2>3, <2>4, <2>5, <2>6 DEF TypeOK
<1>2. ASSUME NEW c \in Flying, ReadLast(c) PROVE TypeOK' /\ CallsOK'
  <2>1. PICK k : Moves(c, k) /\ k.body = call[c].body /\ k.step = "version" /\ At(c, "last")
      BY <1>2, ReadMoves
  <2>2. UNCHANGED <<stored, faults, rough, clashed>>
      BY <1>2 DEF ReadLast
  <2>3. CallsOK'
      BY <2>1, <2>2, MovesKeepCalls DEF At, Unsaved, stored
  <2> QED
      BY <2>1, <2>2, <2>3, MoveEffect DEF TypeOK, stored
<1>3. ASSUME NEW c \in Flying, Version(c) PROVE TypeOK' /\ CallsOK'
  <2>1. PICK k : /\ Moves(c, k) /\ k.body = call[c].body /\ At(c, "version")
                 /\ k.step \in {Onward(call[c]), "prune"}
      BY <1>3, VersionMoves
  <2>2. UNCHANGED <<row, index, saves, faults, rough, clashed>>
      BY <1>3 DEF Version
  <2>3. CallsOK'
      BY <2>1, <2>2, MovesKeepCalls DEF At, Unsaved, Onward
  <2>4. versions' \in [Entries -> SUBSET Versions]
    <3>1. CASE Over(c)
        BY <3>1, OverMirrors
    <3>2. ASSUME NEW x, Added(c, x) PROVE versions' \in [Entries -> SUBSET Versions]
        BY <3>2, FlyingRequests DEF Added, TypeOK
    <3> QED
        BY <1>3, <3>1, <3>2, VersionEffect
  <2> QED
      BY <2>1, <2>2, <2>3, <2>4, MoveEffect DEF TypeOK
<1>10. ASSUME NEW c \in Flying, Prune(c) \/ PruneFails(c) PROVE TypeOK' /\ CallsOK'
  <2>1. PICK k : /\ Moves(c, k) /\ k.body = call[c].body /\ At(c, "prune")
                 /\ k.step = Onward(call[c])
      BY <1>10, PruneMoves
  <2>2. UNCHANGED <<row, index, saves, rough, clashed>>
      BY <1>10 DEF Prune, PruneFails, stored
  <2>3. CallsOK'
      BY <2>1, <2>2, MovesKeepCalls DEF At, Unsaved, Onward
  <2>4. versions' \in [Entries -> SUBSET Versions]
      BY <1>10, FlyingRequests DEF Prune, PruneFails, stored, TypeOK
  <2>5. faults' \in 0..MaxFaults
      BY <1>10, BoundsAssumption DEF Prune, PruneFails, TypeOK
  <2> QED
      BY <2>1, <2>2, <2>3, <2>4, <2>5, MoveEffect DEF TypeOK
<1>11. ASSUME NEW c \in Flying, Throws(c) PROVE TypeOK' /\ CallsOK'
  <2>1. Answer(c) /\ UNCHANGED <<stored, clashed>> /\ rough' \subseteq rough \cup {call[c].e}
      BY <1>11 DEF Throws
  <2>2. faults' \in 0..MaxFaults
      BY <1>11, BoundsAssumption DEF Throws, TypeOK
  <2> QED
      BY <2>1, <2>2, GoneKeepCalls, FlyingRequests DEF TypeOK, stored
<1>4. ASSUME NEW c \in Flying, End(c) PROVE TypeOK' /\ CallsOK'
  <2>1. Answer(c) /\ UNCHANGED <<stored, faults, clashed>>
        /\ rough' \subseteq rough \cup {call[c].e}
      BY <1>4 DEF End
  <2> QED
      BY <2>1, GoneKeepCalls, FlyingRequests DEF TypeOK, stored
<1>5. ASSUME NEW c \in Flying, Answer(c), UNCHANGED <<stored, faults, rough, clashed>>
      PROVE  TypeOK' /\ CallsOK'
    BY <1>5, GoneKeepCalls DEF TypeOK, stored
<1>6. ASSUME NEW e \in Entries, Close(e) PROVE TypeOK' /\ CallsOK'
  <2>1. versions' \in [Entries -> SUBSET Versions]
      BY <1>6, CloseMirrors
  <2>2. UNCHANGED <<row, index, saves, call, faults, rough, clashed>>
      BY <1>6 DEF Close
  <2> QED
      BY <2>1, <2>2 DEF TypeOK, CallsOK, Flying, Unsaved
<1>7. CASE Crash
  <2>1. /\ call' = [c \in Calls |-> Null] /\ UNCHANGED <<stored, clashed>>
        /\ faults < MaxFaults /\ faults' = faults + 1
        /\ rough' = rough \cup {call[c].e : c \in {d \in Flying : Written(d)}}
      BY <1>7 DEF Crash
  <2>2. Flying' = {}
      BY <2>1 DEF Flying
  <2>3. rough' \subseteq Entries
      BY <2>1, FlyingRequests DEF TypeOK
  <2>4. faults' \in 0..MaxFaults
      BY <2>1, BoundsAssumption DEF TypeOK
  <2> QED
      BY <2>1, <2>2, <2>3, <2>4 DEF TypeOK, CallsOK, stored
<1>8. CASE UNCHANGED vars
    BY <1>8 DEF TypeOK, CallsOK, Flying, Unsaved, vars, stored
<1>9. CASE \E c \in Calls, e \in Entries, step \in {"quick", "write"}, s \in {Null} \cup Names,
                 by \in Authors, noted \in BOOLEAN : Begins(c, e, step, s, by, noted)
    BY <1>9, BeginKeeps
<1>12. ASSUME NEW c \in Flying, NEW quick \in BOOLEAN, Put(c, quick), call[c].step \in {"quick", "write"}
       PROVE  TypeOK' /\ CallsOK'
    BY <1>12, PutKeeps DEF Unsaved
<1> QED
    BY StepCases, <1>1, <1>2, <1>3, <1>4, <1>5, <1>6, <1>7, <1>8, <1>9, <1>10, <1>11, <1>12

-----------------------------------------------------------------------------
(* Slugs.  A call whose slug no other call was beside with may still write   *)
(* it, and two that were beside each other with it both know.                *)
Free(q) == \A f \in Entries \ {q.e} : row[f] # Null => row[f].slug # q.slug

Checked == \A c \in Flying : Unsaved(c) /\ call[c].slug # Null /\ ~call[c].clash => Free(call[c])

Paired ==
    \A c, d \in Flying :
        Unsaved(c) /\ Unsaved(d) /\ call[c].slug # Null /\ call[c].slug = call[d].slug
            /\ call[c].e # call[d].e => call[c].clash

SlugsOK == OnePerName /\ SlugsUnique /\ Checked /\ Paired

LEMMA SlugsInitially == Init => SlugsOK
<1> SUFFICES ASSUME Init PROVE SlugsOK
    OBVIOUS
<1>1. PICK slug \in {f \in [Entries -> Names \cup {Null}] :
                      \A d, e \in Entries : d # e /\ f[d] # Null => f[d] # f[e]} :
         row = [e \in Entries |-> IF slug[e] = Null THEN Null ELSE
                     [slug |-> slug[e], name |-> slug[e], body |-> 0, quick |-> TRUE]]
    BY DEF Init
<1>2. \A e \in Entries : row[e] # Null => row[e].slug = slug[e] /\ row[e].name = slug[e] /\ slug[e] # Null
    BY <1>1
<1>3. OnePerName /\ SlugsUnique
    BY <1>1, <1>2 DEF OnePerName, SlugsUnique
<1>4. Flying = {}
    BY DEF Init, Flying
<1> QED
    BY <1>3, <1>4 DEF SlugsOK, Checked, Paired

(* Steps that write no row, and in which the calls yet to write keep what    *)
(* they know.                                                                *)
LEMMA SlugsKept ==
    ASSUME SlugsOK, UNCHANGED <<row, clashed>>,
           \A c \in Flying' : \/ ~Unsaved(c)'
                              \/ /\ c \in Flying /\ Unsaved(c)
                                 /\ call'[c].e = call[c].e /\ call'[c].slug = call[c].slug
                                 /\ call[c].clash => call'[c].clash
    PROVE  SlugsOK'
<1>1. OnePerName' /\ SlugsUnique'
    BY DEF SlugsOK, OnePerName, SlugsUnique
<1>2. Checked'
    BY DEF SlugsOK, Checked, Free
<1>3. Paired'
    BY DEF SlugsOK, Paired
<1> QED
    BY <1>1, <1>2, <1>3 DEF SlugsOK

LEMMA BeginSlugs ==
    ASSUME TypeOK, SlugsOK, NEW c, NEW e \in Entries, NEW step \in {"quick", "write"},
           NEW s \in {Null} \cup Names, Began(c, e, step, s), s # Null => SlugFree(s, e)
    PROVE  SlugsOK'
<1>1. /\ c \notin Flying /\ Flying' = Flying \cup {c}
      /\ call'[c].e = e /\ call'[c].slug = s
      /\ s # Null => \A d \in Flying : call[d].slug = s /\ call[d].e # e /\ Unsaved(d) => call'[c].clash
      /\ UNCHANGED <<row, clashed>>
    BY DEF Began, Flying, Unsaved, stored
<1>2. ASSUME NEW d \in Flying
      PROVE  /\ call'[d].e = call[d].e /\ call'[d].slug = call[d].slug /\ (Unsaved(d)' <=> Unsaved(d))
             /\ call[d].clash => call'[d].clash
             /\ s # Null /\ call[d].slug = s /\ call[d].e # e /\ Unsaved(d) => call'[d].clash
    BY DEF Began, Beside, Unsaved
<1>3. OnePerName' /\ SlugsUnique'
    BY <1>1 DEF SlugsOK, OnePerName, SlugsUnique
<1>4. Checked'
  <2> SUFFICES ASSUME NEW d \in Flying', Unsaved(d)', call'[d].slug # Null, ~call'[d].clash
               PROVE  Free(call[d])' 
      BY DEF Checked
  <2>1. CASE d = c
      BY <1>1, <2>1 DEF SlugFree, Free
  <2>2. CASE d \in Flying
      BY <1>1, <1>2, <2>2 DEF SlugsOK, Checked, Free
  <2> QED
      BY <1>1, <2>1, <2>2
<1>5. Paired'
    BY <1>1, <1>2 DEF SlugsOK, Paired
<1> QED
    BY <1>3, <1>4, <1>5 DEF SlugsOK

LEMMA PutSlugs ==
    ASSUME TypeOK, CallsOK, SlugsOK, NEW c \in Flying, Unsaved(c), NEW quick \in BOOLEAN, Put(c, quick),
           quick => call[c].new /\ Matches(call[c].slug) = {}
    PROVE  SlugsOK'
<1> DEFINE q == call[c]
<1>1. PICK r : RowAs(r, q, quick) /\ row' = [row EXCEPT ![q.e] = r]
    BY PutRow
<1>2. PICK k : Moves(c, k) /\ k.step = IF q.new THEN "last" ELSE "index"
    BY PutMoves
<1>3. q.e \in Entries /\ row'[q.e] = r /\ r # Null /\ \A f \in Entries \ {q.e} : row'[f] = row[f]
    BY <1>1, FlyingRequests DEF RowAs, TypeOK
<1>4. /\ Flying' = Flying /\ \A d \in Flying \ {c} : call'[d] = call[d]
      /\ ~Unsaved(c)'
    BY <1>2, MoveEffect DEF Flying, Unsaved
<1>5. clashed' = IF q.clash THEN clashed \cup {q.e} ELSE IF q.slug = Null THEN clashed ELSE clashed \ {q.e}
    BY DEF Put
<1>6. /\ q.slug # Null => r.slug = q.slug
      /\ q.slug = Null => row[q.e] # Null /\ r.slug = row[q.e].slug
    BY <1>1 DEF RowAs
<1>7. q.slug # Null /\ ~q.clash => \A f \in Entries \ {q.e} : row[f] # Null => row[f].slug # q.slug
    BY DEF SlugsOK, Checked, Free
<1>8. SlugsUnique'
  <2> SUFFICES ASSUME NEW x \in Entries, NEW y \in Entries, x # y, row'[x] # Null, row'[y] # Null,
                      row'[x].slug = row'[y].slug
               PROVE  {x, y} \cap clashed' # {}
      BY DEF SlugsUnique
  <2>1. CASE x # q.e /\ y # q.e
    <3>1. {x, y} \cap clashed # {}
        BY <1>3, <2>1 DEF SlugsOK, SlugsUnique
    <3> QED
        BY <1>5, <2>1, <3>1
  <2>2. CASE q.clash /\ q.e \in {x, y}
      BY <1>5, <2>2
  <2>3. CASE ~q.clash /\ q.e \in {x, y}
    <3>1. q.slug = Null
        BY <1>3, <1>6, <1>7, <2>3
    <3>2. row[x] # Null /\ row[y] # Null /\ row[x].slug = row[y].slug
        BY <1>3, <1>6, <2>3, <3>1
    <3> QED
        BY <1>5, <2>3, <3>1, <3>2 DEF SlugsOK, SlugsUnique
  <2> QED
      BY <2>1, <2>2, <2>3
<1>9. Checked'
  <2> SUFFICES ASSUME NEW d \in Flying, d # c, Unsaved(d), call[d].slug # Null, ~call[d].clash,
                      NEW f \in Entries \ {call[d].e}, row'[f] # Null
               PROVE  row'[f].slug # call[d].slug
      BY <1>4 DEF Checked, Free, Unsaved
  <2>1. row[f] # Null => row[f].slug # call[d].slug
      BY DEF SlugsOK, Checked, Free
  <2>2. CASE f # q.e
      BY <1>3, <2>1, <2>2
  <2>3. CASE f = q.e
    <3>1. q.slug # Null => q.slug # call[d].slug
        BY <2>3 DEF SlugsOK, Paired
    <3> QED
        BY <1>3, <1>6, <2>1, <2>3, <3>1
  <2> QED
      BY <2>2, <2>3
<1>10. Paired'
    BY <1>4 DEF SlugsOK, Paired, Unsaved
<1>11. OnePerName'
  <2>1. q.new => r.name = q.slug /\ r.quick = quick
      BY <1>1 DEF RowAs
  <2>2. ~q.new => row[q.e] # Null /\ r.name = row[q.e].name /\ r.quick = row[q.e].quick
      BY <1>1 DEF RowAs
  <2>3. quick => q.new /\ \A f \in Entries : row[f] # Null => row[f].name # q.slug
      BY DEF Matches
  <2> SUFFICES ASSUME NEW x \in Entries, NEW y \in Entries, row'[x] # Null, row'[y] # Null, row'[x].quick,
                      row'[y].quick, row'[x].name = row'[y].name
               PROVE  x = y
      BY DEF OnePerName
  <2>4. CASE q.new
    <3>1. CASE x = q.e
        BY <1>3, <2>1, <2>3, <2>4, <3>1
    <3>2. CASE y = q.e
        BY <1>3, <2>1, <2>3, <2>4, <3>2
    <3>3. CASE x # q.e /\ y # q.e
        BY <1>3, <3>3 DEF SlugsOK, OnePerName
    <3> QED
        BY <3>1, <3>2, <3>3
  <2>5. CASE ~q.new
    <3>1. \A f \in {x, y} : row[f] # Null /\ row'[f].name = row[f].name /\ row'[f].quick = row[f].quick
        BY <1>3, <2>2, <2>5
    <3> QED
        BY <3>1 DEF SlugsOK, OnePerName
  <2> QED
      BY <2>4, <2>5
<1> QED
    BY <1>8, <1>9, <1>10, <1>11 DEF SlugsOK

LEMMA SlugsStep ==
    ASSUME TypeOK, CallsOK, SlugsOK, [Next]_vars
    PROVE  SlugsOK'
<1>1. ASSUME NEW c \in Flying,
             Sync(c) \/ SyncFails(c) \/ ReadLast(c) \/ Version(c) \/ Prune(c) \/ PruneFails(c)
      PROVE  SlugsOK'
  <2>1. \E k : Moves(c, k) /\ k.step \in {"end", "last", "index", "version", "prune"}
      BY <1>1, SyncMoves, ReadMoves, VersionMoves, PruneMoves DEF After, Onward
  <2>2. PICK k : Moves(c, k) /\ k.step \in {"end", "last", "index", "version", "prune"}
      BY <2>1
  <2>3. Flying' = Flying /\ call'[c] = k /\ \A d \in Flying \ {c} : call'[d] = call[d]
      BY <2>2, MoveEffect DEF Flying
  <2>4. UNCHANGED <<row, clashed>>
      BY <1>1 DEF Sync, SyncFails, ReadLast, Version, Prune, PruneFails, stored
  <2> QED
      BY <2>2, <2>3, <2>4, SlugsKept DEF Unsaved
<1>2. ASSUME NEW c \in Flying, Answer(c), UNCHANGED <<row, saves, clashed>> PROVE SlugsOK'
    BY <1>2, GoneKeepCalls, SlugsKept DEF Unsaved, Flying
<1>3. ASSUME NEW c \in Flying, Throws(c) \/ End(c) PROVE SlugsOK'
    BY <1>2, <1>3 DEF Throws, End, stored
<1>4. CASE (\E e \in Entries : Close(e)) \/ UNCHANGED vars
    BY <1>4, SlugsKept DEF Close, vars, stored, Flying, Unsaved
<1>5. CASE Crash
  <2>1. Flying' = {} /\ UNCHANGED <<row, clashed>>
      BY <1>5 DEF Crash, Flying, stored
  <2> QED
      BY <2>1, SlugsKept
<1>6. ASSUME NEW c, NEW e \in Entries, NEW step \in {"quick", "write"}, NEW s \in {Null} \cup Names,
             NEW by \in Authors, NEW noted \in BOOLEAN, Begins(c, e, step, s, by, noted)
      PROVE  SlugsOK'
    BY <1>6, BeginEffect, BeginSlugs DEF Begins
<1>7. ASSUME NEW c \in Flying, NEW quick \in BOOLEAN, Put(c, quick),
             \/ ~quick /\ call[c].step = "write"
             \/ quick /\ call[c].step = "quick" /\ Matches(call[c].slug) = {}
      PROVE  SlugsOK'
  <2>1. Unsaved(c) /\ (quick => call[c].new /\ Matches(call[c].slug) = {})
      BY <1>7 DEF Unsaved, CallsOK
  <2> QED
      BY <1>7, <2>1, PutSlugs
<1> QED
    BY StepCases, <1>1, <1>2, <1>3, <1>4, <1>5, <1>6, <1>7 DEF stored

-----------------------------------------------------------------------------
(* The history of an entry.  Its newest numbers are all there, as many as    *)
(* the retention says.                                                       *)
Full(A, hi) ==
    /\ hi \in Nat /\ \A v \in A : v.n <= hi
    /\ \A k \in Nat \ {0} : hi - Retention < k /\ k <= hi => \E v \in A : v.n = k

Recent(A) == A = {} \/ \E hi \in Nat \ {0} : Full(A, hi)

LEMMA RecentMirrored ==
    ASSUME NEW A, NEW B, NEW id, NEW b, Mirrors(A, B, id, b), Recent(B)
    PROVE  Recent(A)
<1>1. CASE B = {}
    BY <1>1 DEF Mirrors, Recent
<1>2. ASSUME NEW hi \in Nat \ {0}, Full(B, hi) PROVE Recent(A)
    BY <1>2 DEF Mirrors, Recent, Full
<1> QED
    BY <1>1, <1>2 DEF Recent

LEMMA RecentAdded ==
    ASSUME NEW A \in SUBSET Versions, Recent(A), NEW x \in Versions,
           \/ x.n = 1
           \/ \E v \in A : x.n <= v.n + 1
    PROVE  LET B == A \cup {x} IN
           \E hi \in Nat \ {0} :
               /\ Full(B, hi) /\ x.n <= hi
               /\ \A v \in A : v.n <= hi
<1> DEFINE n == x.n
           B == A \cup {x}
<1>1. n \in Nat \ {0} /\ Retention \in Nat \ {0} /\ \A v \in A : v.n \in Nat \ {0}
    BY BoundsAssumption DEF Versions
<1>2. CASE A = {}
  <2>1. n = 1 /\ B = {x}
      BY <1>2
  <2>2. Full(B, 1)
      BY <1>1, <2>1 DEF Full
  <2> QED
      BY <1>2, <2>1, <2>2
<1>3. ASSUME NEW hi \in Nat \ {0}, Full(A, hi)
      PROVE  \E h \in Nat \ {0} : Full(B, h) /\ n <= h /\ \A v \in A : v.n <= h
  <2> DEFINE h == IF n <= hi THEN hi ELSE n
  <2>1. n <= hi + 1
      BY <1>1, <1>3 DEF Full
  <2>2. h \in Nat \ {0} /\ hi <= h /\ n <= h /\ (h = hi \/ (h = n /\ n = hi + 1))
      BY <1>1, <2>1
  <2> HIDE DEF h, n
  <2>3. \A v \in A : v.n <= h
      BY <1>1, <1>3, <2>2 DEF Full
  <2>4. \A v \in B : v.n <= h
      BY <2>2, <2>3 DEF n
  <2>5. ASSUME NEW k \in Nat \ {0}, h - Retention < k, k <= h
        PROVE  \E v \in B : v.n = k
    <3>1. CASE k = n
        BY <3>1 DEF n
    <3>2. CASE k # n
      <4>1. k <= hi /\ hi - Retention < k
          BY <1>1, <2>2, <2>5, <3>2
      <4>2. PICK v \in A : v.n = k
          BY <1>3, <4>1 DEF Full
      <4> QED
          BY <4>2
    <3> QED
        BY <3>1, <3>2
  <2>6. Full(B, h)
      BY <2>2, <2>4, <2>5 DEF Full
  <2> QED
      BY <2>2, <2>3, <2>6
<1> QED
    BY <1>2, <1>3 DEF Recent

(* So as many newer numbers are there as the retention says.                 *)
LEMMA FullCounts ==
    ASSUME NEW B \in SUBSET Versions, NEW hi \in Nat, Full(B, hi), NEW m \in Nat \ {0}, m <= hi - Retention
    PROVE  Cardinality({w.n : w \in {y \in B : y.n > m}}) >= Retention
<1> DEFINE N == {w.n : w \in {y \in B : y.n > m}}
           I == (hi - Retention + 1)..hi
<1>1. Retention \in Nat \ {0} /\ \A v \in B : v.n \in Nat \ {0}
    BY BoundsAssumption DEF Versions
<1>2. N \in SUBSET (1..hi)
    BY <1>1 DEF Full
<1>3. IsFiniteSet(N)
  <2> HIDE DEF N
  <2>1. 1 \in Int /\ hi \in Int
      OBVIOUS
  <2>2. IsFiniteSet(1..hi)
      BY <2>1, FS_Interval
  <2> QED
      BY <1>2, <2>2, FS_Subset
<1>4. I \in SUBSET N
  <2> SUFFICES ASSUME NEW k \in I PROVE k \in N
      OBVIOUS
  <2>1. k \in Nat \ {0} /\ hi - Retention < k /\ k <= hi /\ k > m
      BY <1>1
  <2>2. PICK v \in B : v.n = k
      BY <2>1 DEF Full
  <2> QED
      BY <2>1, <2>2
<1>5. Cardinality(I) <= Cardinality(N) /\ Cardinality(N) \in Nat
    BY <1>3, <1>4, FS_Subset, FS_CardinalityType
<1>6. Cardinality(I) = Retention
  <2>1. hi - Retention + 1 \in Int /\ hi \in Int /\ ~(hi - Retention + 1 > hi)
        /\ hi - (hi - Retention + 1) + 1 = Retention
      BY <1>1
  <2> QED
      BY <2>1, FS_Interval
<1> QED
    BY <1>1, <1>5, <1>6

(* Calls yet to store their version.  Each names a body no version has, and  *)
(* the version one has read is still there, or gone with a newer in place.   *)
Pending(c) ==
    \/ call[c].step \in {"last", "version"}
    \/ call[c].step = "index" /\ ~call[c].new

Histories == \A e \in Entries : OneRow(versions[e]) /\ Recent(versions[e]) /\ \A v \in versions[e] : v.id <= saves

OwnBodies == \A c, d \in Flying : c # d /\ ~Unsaved(c) /\ ~Unsaved(d) => call[c].body # call[d].body

Fresh == \A c \in Flying : Pending(c) => \A e \in Entries : \A v \in versions[e] : v.id # call[c].body

Noted(last, e) ==
    /\ last.id <= saves
    /\ \A v \in versions[e] : v.id = last.id => v.noted = last.noted
    /\ \E v \in versions[e] : last.n <= v.n
    /\ \A d \in Flying : Pending(d) => call[d].body # last.id

LastOK == \A c \in Flying : call[c].step = "version" /\ call[c].last # Null => Noted(call[c].last, call[c].e)

HistoryOK == Histories /\ OwnBodies /\ Fresh /\ LastOK

(* Two histories alike but for bodies. *)
Alike(A, B) ==
    /\ \A v \in A : \E u \in B : v.id = u.id /\ v.n = u.n /\ v.noted = u.noted
    /\ \A u \in B : \E v \in A : v.id = u.id /\ v.n = u.n /\ v.noted = u.noted
    /\ OneRow(B) => OneRow(A)
    /\ Recent(B) => Recent(A)

LEMMA MirrorsAlike ==
    ASSUME NEW A, NEW B, NEW id, NEW b, Mirrors(A, B, id, b), OneRow(B) => OneRow(A)
    PROVE  Alike(A, B)
<1>1. Recent(B) => Recent(A)
    BY RecentMirrored
<1>2. /\ \A v \in A : \E u \in B : v.id = u.id /\ v.n = u.n /\ v.noted = u.noted
      /\ \A u \in B : \E v \in A : v.id = u.id /\ v.n = u.n /\ v.noted = u.noted
    BY DEF Mirrors
<1> QED
    BY <1>1, <1>2 DEF Alike

LEMMA HistoryInitially == Init => HistoryOK
<1> SUFFICES ASSUME Init PROVE HistoryOK
    OBVIOUS
<1>1. Flying = {} /\ saves = 0
    BY DEF Init, Flying
<1>2. ASSUME NEW e \in Entries, versions[e] # {}
      PROVE  versions[e] = {[id |-> 0, n |-> 1, body |-> 0, by |-> Null, noted |-> TRUE, open |-> FALSE]}
    BY <1>2 DEF Init
<1>3. ASSUME NEW e \in Entries
      PROVE  OneRow(versions[e]) /\ Recent(versions[e]) /\ \A v \in versions[e] : v.id <= saves
  <2>1. CASE versions[e] = {}
      BY <2>1 DEF OneRow, Recent
  <2>2. CASE versions[e] # {}
    <3>1. \A v \in versions[e] : v.id = 0 /\ v.n = 1
        BY <1>2, <2>2
    <3>2. \E v \in versions[e] : v.n = 1
        BY <1>2, <2>2
    <3>3. Full(versions[e], 1)
        BY <3>1, <3>2, BoundsAssumption DEF Full
    <3>4. Recent(versions[e])
        BY <3>3 DEF Recent
    <3>5. OneRow(versions[e])
        BY <1>2, <2>2 DEF OneRow
    <3> QED
        BY <1>1, <3>1, <3>4, <3>5
  <2> QED
      BY <2>1, <2>2
<1> QED
    BY <1>1, <1>3 DEF HistoryOK, Histories, OwnBodies, Fresh, LastOK

(* Steps that store no body and no new version, and in which no call reads   *)
(* one.                                                                      *)
Goes(c) ==
    /\ c \in Flying /\ ~Unsaved(c)
    /\ call'[c].e = call[c].e /\ call'[c].body = call[c].body
    /\ Pending(c)' => Pending(c)
    /\ call'[c].step = "version" => call[c].step = "version" /\ call'[c].last = call[c].last

LEMMA HistoryKept ==
    ASSUME TypeOK, HistoryOK, UNCHANGED saves,
           \A e \in Entries : versions'[e] = versions[e] \/ Alike(versions'[e], versions[e]),
           \A c \in Flying' : Unsaved(c)' \/ Goes(c)
    PROVE  HistoryOK'
<1>1. ASSUME NEW e \in Entries
      PROVE  /\ \A v \in versions'[e] : \E u \in versions[e] : v.id = u.id /\ v.n = u.n /\ v.noted = u.noted
             /\ \A u \in versions[e] : \E v \in versions'[e] : v.id = u.id /\ v.n = u.n /\ v.noted = u.noted
             /\ OneRow(versions[e]) => OneRow(versions'[e])
             /\ Recent(versions[e]) => Recent(versions'[e])
    BY DEF Alike
<1>2. ASSUME NEW c \in Flying', Pending(c)'
      PROVE  Goes(c) /\ Pending(c) /\ call[c].e \in Entries
    BY <1>2, FlyingRequests DEF Goes, Pending, Unsaved
<1>3. Histories'
    BY <1>1 DEF HistoryOK, Histories
<1>4. OwnBodies'
    BY DEF HistoryOK, OwnBodies, Goes
<1>5. Fresh'
  <2> SUFFICES ASSUME NEW c \in Flying', Pending(c)', NEW e \in Entries, NEW v \in versions'[e]
               PROVE  v.id # call'[c].body
      BY DEF Fresh
  <2>1. c \in Flying /\ Pending(c) /\ call'[c].body = call[c].body
      BY <1>2 DEF Goes
  <2>2. PICK u \in versions[e] : v.id = u.id
      BY <1>1, <2>1
  <2> QED
      BY <2>1, <2>2 DEF HistoryOK, Fresh
<1>6. LastOK'
  <2> SUFFICES ASSUME NEW c \in Flying', call'[c].step = "version", call'[c].last # Null
               PROVE  Noted(call[c].last, call[c].e)'
      BY DEF LastOK
  <2>1. Pending(c)'
      BY DEF Pending
  <2>2. c \in Flying /\ call[c].e \in Entries /\ call'[c].e = call[c].e /\ call[c].step = "version"
        /\ call'[c].last = call[c].last
      BY <1>2, <2>1 DEF Goes
  <2> DEFINE last == call[c].last
             e == call[c].e
  <2>3. Noted(last, e)
      BY <2>2 DEF HistoryOK, LastOK
  <2> HIDE DEF last, e
  <2>4. e \in Entries
      BY <2>2 DEF e
  <2>5. \A v \in versions'[e] : v.id = last.id => v.noted = last.noted
      BY <1>1, <2>3, <2>4 DEF Noted
  <2>6. \E v \in versions'[e] : last.n <= v.n
      BY <1>1, <2>3, <2>4 DEF Noted
  <2>7. ASSUME NEW d \in Flying', Pending(d)' PROVE call'[d].body # last.id
    <3>1. d \in Flying /\ Pending(d) /\ call'[d].body = call[d].body
        BY <1>2, <2>7 DEF Goes
    <3> QED
        BY <2>3, <3>1 DEF Noted
  <2>8. call'[c].last = last /\ call'[c].e = e
      BY <2>2 DEF last, e
  <2> QED
      BY <2>3, <2>5, <2>6, <2>7, <2>8 DEF Noted
<1> QED
    BY <1>3, <1>4, <1>5, <1>6 DEF HistoryOK

LEMMA HistoryRead ==
    ASSUME TypeOK, CallsOK, HistoryOK, NEW c, ReadLast(c)
    PROVE  HistoryOK'
<1>1. PICK k : /\ Moves(c, k) /\ k.body = call[c].body /\ k.step = "version" /\ At(c, "last")
               /\ \/ k.last = Null /\ versions[call[c].e] = {}
                  \/ k.last # Null /\ Top(k.last, call[c].e)
    BY ReadMoves
<1>2. /\ Flying' = Flying /\ call'[c] = k /\ \A d \in Flying \ {c} : call'[d] = call[d]
      /\ c \in Flying /\ k.e = call[c].e /\ k.new = call[c].new /\ call[c].step = "last"
    BY <1>1, MoveEffect DEF Flying, Moves, Kept, At
<1>3. versions' = versions /\ saves' = saves
    BY DEF ReadLast, stored
<1>4. \A d \in Flying : /\ Pending(d)' <=> Pending(d)
                        /\ Unsaved(d)' <=> Unsaved(d)
                        /\ call'[d].body = call[d].body /\ call'[d].e = call[d].e
    BY <1>1, <1>2 DEF Pending, Unsaved
<1>5. Histories'
    BY <1>3 DEF HistoryOK, Histories
<1>6. OwnBodies'
    BY <1>2, <1>4 DEF HistoryOK, OwnBodies
<1>7. Fresh'
    BY <1>2, <1>3, <1>4 DEF HistoryOK, Fresh
<1>8. LastOK'
  <2> SUFFICES ASSUME NEW d \in Flying, call'[d].step = "version", call'[d].last # Null
               PROVE  Noted(call[d].last, call[d].e)'
      BY <1>2 DEF LastOK
  <2>1. CASE d # c
      BY <1>2, <1>3, <1>4, <2>1 DEF HistoryOK, LastOK, Noted
  <2>2. CASE d = c
    <3> DEFINE e == call[c].e
    <3>1. k.last \in versions[e] /\ e \in Entries /\ c \in Flying
        BY <1>1, <1>2, <2>2, FlyingRequests DEF Top
    <3>2. k.last.id <= saves /\ k.last.n <= k.last.n
      <4>1. k.last \in Versions
          BY <3>1 DEF TypeOK
      <4> QED
          BY <3>1, <4>1 DEF HistoryOK, Histories, Versions
    <3>3. \A v \in versions[e] : v.id = k.last.id => v.noted = k.last.noted
        BY <3>1 DEF HistoryOK, Histories, OneRow
    <3>4. \A f \in Flying : Pending(f) => call[f].body # k.last.id
        BY <3>1 DEF HistoryOK, Fresh
    <3> QED
        BY <1>2, <1>3, <1>4, <2>2, <3>1, <3>2, <3>3, <3>4 DEF Noted
  <2> QED
      BY <2>1, <2>2
<1> QED
    BY <1>5, <1>6, <1>7, <1>8 DEF HistoryOK

LEMMA HistoryPut ==
    ASSUME TypeOK, CallsOK, HistoryOK, NEW c \in Flying, Unsaved(c), NEW quick \in BOOLEAN, Put(c, quick)
    PROVE  HistoryOK'
<1>1. PICK k : /\ saves' = saves + 1 /\ saves \in Nat
               /\ Moves(c, k) /\ k.body = saves + 1
               /\ k.step = IF call[c].new THEN "last" ELSE "index"
    BY PutMoves
<1>2. /\ Flying' = Flying /\ call'[c] = k /\ \A d \in Flying \ {c} : call'[d] = call[d]
      /\ k.e = call[c].e /\ call[c].e \in Entries
    BY <1>1, MoveEffect, FlyingRequests DEF Flying, Moves, Kept
<1>3. versions' = versions
    BY DEF Put
<1>4. \A d \in Flying : ~Unsaved(d) => call[d].body \in Nat /\ call[d].body <= saves
    BY <1>1 DEF CallsOK
<1>5. \A e \in Entries : \A v \in versions[e] : v.id \in Nat /\ v.id <= saves
    BY DEF HistoryOK, Histories, TypeOK, Versions
<1>6. \A d \in Flying : Pending(d) => ~Unsaved(d)
    BY DEF Pending, Unsaved
<1>7. Histories'
    BY <1>1, <1>3, <1>5 DEF HistoryOK, Histories
<1>8. OwnBodies'
    BY <1>1, <1>2, <1>4 DEF HistoryOK, OwnBodies, Unsaved
<1>9. Fresh'
  <2> SUFFICES ASSUME NEW d \in Flying, Pending(d)', NEW e \in Entries, NEW v \in versions[e]
               PROVE  v.id # call'[d].body
      BY <1>2, <1>3 DEF Fresh
  <2>1. CASE d = c
      BY <1>1, <1>2, <1>5, <2>1
  <2>2. CASE d # c
      BY <1>2, <2>2 DEF HistoryOK, Fresh, Pending
  <2> QED
      BY <2>1, <2>2
<1>10. LastOK'
  <2> SUFFICES ASSUME NEW d \in Flying, call'[d].step = "version", call'[d].last # Null
               PROVE  Noted(call[d].last, call[d].e)'
      BY <1>2 DEF LastOK
  <2>1. d # c /\ call'[d] = call[d]
      BY <1>1, <1>2
  <2> DEFINE last == call[d].last
  <2>2. Noted(last, call[d].e)
      BY <2>1 DEF HistoryOK, LastOK
  <2>3. last.id \in Nat /\ last.id <= saves
    <3>1. last \in Versions
        BY <2>1, FlyingRequests DEF Requests
    <3> QED
        BY <2>2, <3>1 DEF Noted, Versions
  <2>4. \A f \in Flying : Pending(f)' => call'[f].body # last.id
      BY <1>1, <1>2, <2>2, <2>3 DEF Noted, Pending
  <2> HIDE DEF last
  <2> QED
      BY <1>1, <1>2, <1>3, <2>1, <2>2, <2>3, <2>4 DEF Noted, last
<1> QED
    BY <1>7, <1>8, <1>9, <1>10 DEF HistoryOK

(* A version added to the history of an entry. *)
LEMMA AddedEffect ==
    ASSUME TypeOK, CallsOK, HistoryOK, NEW c \in Flying, At(c, "version"), NEW x, Added(c, x)
    PROVE  LET e == call[c].e
               A == versions[e]
               B == versions'[e]
           IN  /\ e \in Entries /\ A \in SUBSET Versions /\ B \in SUBSET Versions /\ x \in Versions
               /\ B = A \cup {x}
               /\ \A d \in Entries \ {e} : versions'[d] = versions[d]
               /\ x.id = call[c].body /\ x.id <= saves
               /\ \A d \in Entries : \A v \in versions[d] : v.id # x.id
               /\ \E hi \in Nat \ {0} : Full(B, hi) /\ x.n <= hi /\ \A v \in A : v.n <= hi
<1> DEFINE q == call[c]
           e == q.e
           A == versions[e]
           B == versions'[e]
<1>1. /\ q \in Requests /\ e \in Entries /\ A \in SUBSET Versions
      /\ q.step = "version" /\ ~Unsaved(c) /\ Pending(c)
    BY FlyingRequests DEF TypeOK, At, Unsaved, Pending
<1>2. /\ x \in Versions /\ x.id = q.body /\ x.n = Number(q)
      /\ versions' = [versions EXCEPT ![e] = A \cup {x}]
    BY DEF Added
<1>3. B = A \cup {x} /\ \A d \in Entries \ {e} : versions'[d] = versions[d]
    BY <1>1, <1>2 DEF TypeOK
<1>4. q.body <= saves
    BY <1>1 DEF CallsOK, TypeOK
<1>5. \A d \in Entries : \A v \in versions[d] : v.id # x.id
    BY <1>1, <1>2 DEF HistoryOK, Fresh
<1>6. \/ x.n = 1
      \/ \E v \in A : x.n <= v.n + 1
  <2>1. CASE q.last = Null
      BY <1>2, <2>1 DEF Number
  <2>2. CASE q.last # Null
    <3>1. q.last \in Versions
        BY <1>1, <2>2 DEF Requests
    <3>2. PICK v \in A : q.last.n <= v.n
        BY <1>1, <2>2 DEF HistoryOK, LastOK, Noted
    <3>3. x.n = q.last.n + 1
        BY <1>2, <2>2 DEF Number
    <3>4. v \in Versions
        BY <1>1
    <3> HIDE DEF q, A
    <3>5. x.n <= v.n + 1
        BY <3>1, <3>2, <3>3, <3>4 DEF Versions
    <3> QED
        BY <3>5
  <2> QED
      BY <2>1, <2>2
<1>7. Recent(A)
    BY <1>1 DEF HistoryOK, Histories
<1> HIDE DEF A
<1>8. \E hi \in Nat \ {0} : Full(B, hi) /\ x.n <= hi /\ \A v \in A : v.n <= hi
    BY <1>1, <1>2, <1>3, <1>6, <1>7, RecentAdded
<1> QED
    BY <1>1, <1>2, <1>3, <1>4, <1>5, <1>8 DEF A

LEMMA HistoryAdded ==
    ASSUME TypeOK, CallsOK, HistoryOK, NEW c \in Flying, Version(c), NEW x, Added(c, x)
    PROVE  HistoryOK'
<1> DEFINE e == call[c].e
           A == versions[e]
           B == versions'[e]
<1>1. At(c, "version") /\ saves' = saves
    BY DEF Version
<1>2. /\ e \in Entries /\ A \in SUBSET Versions /\ x \in Versions
      /\ B = A \cup {x}
      /\ \A d \in Entries \ {e} : versions'[d] = versions[d]
      /\ x.id = call[c].body /\ x.id <= saves
      /\ \A d \in Entries : \A v \in versions[d] : v.id # x.id
    BY <1>1, AddedEffect
<1>3. PICK hi \in Nat \ {0} : Full(B, hi) /\ x.n <= hi /\ \A v \in A : v.n <= hi
    BY <1>1, AddedEffect
<1>4. PICK k : /\ Moves(c, k) /\ k.body = call[c].body
               /\ k.step \in {Onward(call[c]), "prune"}
    BY VersionMoves
<1>5. /\ Flying' = Flying /\ call'[c] = k /\ \A d \in Flying \ {c} : call'[d] = call[d]
      /\ k.e = e /\ k.new = call[c].new /\ ~Pending(c)' /\ ~Unsaved(c) /\ Pending(c)
    BY <1>1, <1>4, MoveEffect DEF Flying, Moves, Kept, Pending, At, Unsaved, Onward
<1>6. Histories'
  <2> SUFFICES ASSUME NEW d \in Entries
               PROVE  OneRow(versions'[d]) /\ Recent(versions'[d]) /\ \A v \in versions'[d] : v.id <= saves
      BY <1>1 DEF Histories
  <2>1. CASE d # e
      BY <1>2, <2>1 DEF HistoryOK, Histories
  <2>2. CASE d = e
    <3>1. Recent(B)
        BY <1>3 DEF Recent
    <3>2. OneRow(B)
        BY <1>2 DEF HistoryOK, Histories, OneRow
    <3>3. \A v \in B : v.id <= saves
        BY <1>2 DEF HistoryOK, Histories
    <3> QED
        BY <2>2, <3>1, <3>2, <3>3
  <2> QED
      BY <2>1, <2>2
<1>7. OwnBodies'
    BY <1>4, <1>5 DEF HistoryOK, OwnBodies, Unsaved
<1>8. Fresh'
  <2> SUFFICES ASSUME NEW d \in Flying, Pending(d)', NEW f \in Entries, NEW v \in versions'[f]
               PROVE  v.id # call'[d].body
      BY <1>5 DEF Fresh
  <2>1. d # c /\ call'[d] = call[d] /\ Pending(d) /\ ~Unsaved(d)
      BY <1>5 DEF Pending, Unsaved
  <2>2. call[d].body # x.id
      BY <1>2, <1>5, <2>1 DEF HistoryOK, OwnBodies
  <2>3. v = x \/ v \in versions[f]
      BY <1>2
  <2> QED
      BY <2>1, <2>2, <2>3 DEF HistoryOK, Fresh
<1>9. LastOK'
  <2> SUFFICES ASSUME NEW d \in Flying, call'[d].step = "version", call'[d].last # Null
               PROVE  Noted(call[d].last, call[d].e)'
      BY <1>5 DEF LastOK
  <2>1. d # c /\ call'[d] = call[d] /\ Pending(d)
      BY <1>4, <1>5 DEF Pending, Onward
  <2> DEFINE last == call[d].last
             f == call[d].e
  <2>2. Noted(last, f)
      BY <2>1 DEF HistoryOK, LastOK
  <2>3. last \in Versions /\ f \in Entries
      BY <2>1, FlyingRequests DEF Requests
  <2>4. x.id # last.id
      BY <1>2, <1>5, <2>2 DEF Noted
  <2>5. \A g \in Flying' : Pending(g)' => call'[g].body # last.id
      BY <1>5, <2>2 DEF Noted, Pending
  <2> HIDE DEF last, f
  <2>6. \A v \in versions'[f] : v.id = last.id => v.noted = last.noted
      BY <1>2, <2>2, <2>3, <2>4 DEF Noted
  <2>7. \E v \in versions'[f] : last.n <= v.n
    <3>1. CASE f # e
        BY <1>2, <2>2, <2>3, <3>1 DEF Noted
    <3>2. CASE f = e
      <4>1. PICK u \in A : last.n <= u.n
          BY <2>2, <3>2 DEF Noted
      <4>2. PICK v \in B : v.n = hi
        <5>1. hi \in Nat \ {0} /\ hi - Retention < hi /\ hi <= hi
            BY BoundsAssumption
        <5> QED
            BY <1>3, <5>1 DEF Full
      <4>3. u.n <= hi /\ u.n \in Nat /\ last.n \in Nat
          BY <1>2, <1>3, <2>3 DEF Versions
      <4> HIDE DEF A, B, e
      <4>4. last.n <= v.n
          BY <4>1, <4>2, <4>3
      <4> QED
          BY <3>2, <4>4 DEF B
    <3> QED
        BY <3>1, <3>2
  <2>8. call'[d].last = last /\ call'[d].e = f
      BY <2>1 DEF last, f
  <2> QED
      BY <1>1, <2>2, <2>5, <2>6, <2>7, <2>8 DEF Noted
<1> QED
    BY <1>6, <1>7, <1>8, <1>9 DEF HistoryOK

(* What pruning leaves: as many of the newest numbers as there were, since   *)
(* the version that made it prune, or a newer one, is there.                 *)
PruneOK ==
    \A c \in Flying : call[c].step = "prune"
        => \E v \in versions[call[c].e] : Number(call[c]) <= v.n

LEMMA PrunedEffect ==
    ASSUME TypeOK, HistoryOK, PruneOK, NEW c \in Flying, Prune(c)
    PROVE  LET e == call[c].e
               A == versions[e]
               B == versions'[e]
               m == Number(call[c])
           IN  /\ e \in Entries /\ A \in SUBSET Versions /\ m \in Nat \ {0}
               /\ B = {v \in A : v.n > m - Retention}
               /\ \A d \in Entries \ {e} : versions'[d] = versions[d]
               /\ \E hi \in Nat \ {0} : Full(A, hi) /\ Full(B, hi) /\ m <= hi
<1> DEFINE q == call[c]
           e == q.e
           A == versions[e]
           B == versions'[e]
           m == Number(q)
<1>1. q \in Requests /\ e \in Entries /\ A \in SUBSET Versions /\ q.step = "prune"
    BY FlyingRequests DEF TypeOK, Prune, At
<1>2. m \in Nat \ {0}
  <2>1. q.last = Null \/ q.last \in Versions
      BY <1>1 DEF Requests
  <2> QED
      BY <2>1 DEF Number, Versions
<1>3. /\ B = {v \in A : v.n > m - Retention}
      /\ \A d \in Entries \ {e} : versions'[d] = versions[d]
    BY <1>1 DEF Prune, Cutoff, TypeOK
<1>4. PICK u \in A : m <= u.n
    BY <1>1 DEF PruneOK
<1>5. Recent(A)
    BY <1>1 DEF HistoryOK, Histories
<1>6. PICK hi \in Nat \ {0} : Full(A, hi)
    BY <1>4, <1>5 DEF Recent
<1>7. u.n \in Nat /\ Retention \in Nat \ {0} /\ \A v \in A : v.n \in Nat
    BY <1>1, <1>4, BoundsAssumption DEF Versions
<1> HIDE DEF m, A, B
<1>8. m <= hi
    BY <1>2, <1>4, <1>6, <1>7 DEF Full
<1>9. Full(B, hi)
  <2>1. \A v \in B : v.n <= hi
      BY <1>3, <1>6 DEF Full
  <2>2. ASSUME NEW k \in Nat \ {0}, hi - Retention < k, k <= hi
        PROVE  \E v \in B : v.n = k
    <3>1. PICK v \in A : v.n = k
        BY <1>6, <2>2 DEF Full
    <3>2. v.n > m - Retention
        BY <1>2, <1>7, <1>8, <2>2, <3>1
    <3> QED
        BY <1>3, <3>1, <3>2
  <2> QED
      BY <2>1, <2>2 DEF Full
<1> QED
    BY <1>1, <1>2, <1>3, <1>6, <1>8, <1>9 DEF m, A, B

LEMMA HistoryPruned ==
    ASSUME TypeOK, HistoryOK, PruneOK, NEW c \in Flying, Prune(c)
    PROVE  HistoryOK'
<1> DEFINE e == call[c].e
           A == versions[e]
           B == versions'[e]
<1>1. /\ e \in Entries /\ A \in SUBSET Versions /\ B \subseteq A
      /\ \A d \in Entries \ {e} : versions'[d] = versions[d]
    BY PrunedEffect
<1>2. PICK hi \in Nat \ {0} : Full(A, hi) /\ Full(B, hi)
    BY PrunedEffect
<1>3. PICK k : /\ Moves(c, k) /\ k.body = call[c].body
               /\ k.step = Onward(call[c]) /\ At(c, "prune")
    BY PruneMoves
<1>4. /\ Flying' = Flying /\ call'[c] = k /\ \A d \in Flying \ {c} : call'[d] = call[d]
      /\ k.e = e /\ k.new = call[c].new /\ ~Unsaved(c) /\ ~Unsaved(c)' /\ ~Pending(c)'
      /\ k.step # "version" /\ saves' = saves
    BY <1>3, MoveEffect DEF Flying, Moves, Kept, Pending, At, Unsaved, Onward, Prune
<1>5. \A d \in Entries : versions'[d] \subseteq versions[d]
    BY <1>1
<1>6. Histories'
  <2> SUFFICES ASSUME NEW d \in Entries
               PROVE  OneRow(versions'[d]) /\ Recent(versions'[d]) /\ \A v \in versions'[d] : v.id <= saves
      BY <1>4 DEF Histories
  <2>1. Recent(B)
      BY <1>2 DEF Recent
  <2>2. Recent(versions'[d])
      BY <1>1, <2>1 DEF HistoryOK, Histories
  <2> QED
      BY <1>5, <2>2 DEF HistoryOK, Histories, OneRow
<1>7. OwnBodies'
    BY <1>3, <1>4 DEF HistoryOK, OwnBodies, Unsaved
<1>8. Fresh'
  <2> SUFFICES ASSUME NEW d \in Flying, Pending(d)', NEW f \in Entries, NEW v \in versions'[f]
               PROVE  v.id # call'[d].body
      BY <1>4 DEF Fresh
  <2>1. d # c /\ call'[d] = call[d] /\ Pending(d)
      BY <1>4 DEF Pending
  <2> QED
      BY <1>5, <2>1 DEF HistoryOK, Fresh
<1>9. LastOK'
  <2> SUFFICES ASSUME NEW d \in Flying, call'[d].step = "version", call'[d].last # Null
               PROVE  Noted(call[d].last, call[d].e)'
      BY <1>4 DEF LastOK
  <2>1. d # c /\ call'[d] = call[d]
      BY <1>4
  <2> DEFINE last == call[d].last
             f == call[d].e
  <2>2. Noted(last, f)
      BY <2>1 DEF HistoryOK, LastOK
  <2>3. last \in Versions /\ f \in Entries
      BY <2>1, FlyingRequests DEF Requests
  <2>4. \A g \in Flying' : Pending(g)' => call'[g].body # last.id
      BY <1>4, <2>2 DEF Noted, Pending
  <2> HIDE DEF last, f
  <2>5. \A v \in versions'[f] : v.id = last.id => v.noted = last.noted
      BY <1>5, <2>2, <2>3 DEF Noted
  <2>6. \E v \in versions'[f] : last.n <= v.n
    <3>1. CASE f # e
        BY <1>1, <2>2, <2>3, <3>1 DEF Noted
    <3>2. CASE f = e
      <4>1. PICK u \in A : last.n <= u.n
          BY <2>2, <3>2 DEF Noted
      <4>2. PICK v \in B : v.n = hi
        <5>1. hi \in Nat \ {0} /\ hi - Retention < hi /\ hi <= hi
            BY BoundsAssumption
        <5> QED
            BY <1>2, <5>1 DEF Full
      <4>3. u.n <= hi /\ u.n \in Nat /\ last.n \in Nat
          BY <1>1, <1>2, <2>3 DEF Versions, Full
      <4> HIDE DEF A, B, e
      <4>4. last.n <= v.n
          BY <4>1, <4>2, <4>3
      <4> QED
          BY <3>2, <4>4 DEF B
    <3> QED
        BY <3>1, <3>2
  <2>7. call'[d].last = last /\ call'[d].e = f
      BY <2>1 DEF last, f
  <2> QED
      BY <1>4, <2>2, <2>4, <2>5, <2>6, <2>7 DEF Noted
<1> QED
    BY <1>6, <1>7, <1>8, <1>9 DEF HistoryOK

LEMMA HistoryStep ==
    ASSUME TypeOK, CallsOK, HistoryOK, PruneOK, [Next]_vars
    PROVE  HistoryOK'
<1>1. ASSUME NEW c \in Flying, NEW k, Moves(c, k), k.body = call[c].body, ~Unsaved(c), UNCHANGED saves,
             k.step = "last" => Pending(c), k.step = "index" => call[c].new,
             k.step # "version",
             \A e \in Entries : versions'[e] = versions[e] \/ Alike(versions'[e], versions[e])
      PROVE  HistoryOK'
  <2>1. /\ Flying' = Flying /\ call'[c] = k /\ \A d \in Flying \ {c} : call'[d] = call[d]
        /\ k.e = call[c].e /\ k.new = call[c].new
      BY <1>1, MoveEffect DEF Flying, Moves, Kept
  <2>2. ASSUME NEW d \in Flying' PROVE Unsaved(d)' \/ Goes(d)
    <3>1. CASE d = c
        BY <1>1, <2>1, <3>1 DEF Goes, Pending
    <3>2. CASE d # c
        BY <2>1, <3>2 DEF Goes, Pending, Unsaved
    <3> QED
        BY <3>1, <3>2
  <2> QED
      BY <1>1, <2>2, HistoryKept
<1>2. ASSUME NEW c \in Flying, Sync(c) \/ SyncFails(c) PROVE HistoryOK'
  <2>1. PICK k : Moves(c, k) /\ k.body = call[c].body /\ k.step = After(call[c]) /\ At(c, "index")
      BY <1>2, SyncMoves
  <2>2. UNCHANGED <<saves, versions>>
      BY <1>2 DEF Sync, SyncFails, stored
  <2>3. call[c].step = "index"
      BY <2>1 DEF At
  <2>4. k.step \in {"last", "end"} /\ (k.step = "last" => ~call[c].new)
      BY <2>1 DEF After
  <2>5. ~Unsaved(c) /\ (k.step = "last" => Pending(c)) /\ (k.step = "index" => call[c].new) /\ k.step # "version"
      BY <2>3, <2>4 DEF Pending, Unsaved
  <2>6. \A e \in Entries : versions'[e] = versions[e] \/ Alike(versions'[e], versions[e])
      BY <2>2
  <2>7. UNCHANGED saves /\ Moves(c, k) /\ k.body = call[c].body
      BY <2>1, <2>2
  <2> QED
      BY <1>1, <2>5, <2>6, <2>7
<1>3. ASSUME NEW c \in Flying, Version(c) PROVE HistoryOK'
  <2>1. PICK k : /\ Moves(c, k) /\ k.body = call[c].body /\ At(c, "version")
                 /\ k.step \in {Onward(call[c]), "prune"}
      BY <1>3, VersionMoves
  <2>2. CASE Over(c)
    <3>1. \A e \in Entries : versions'[e] = versions[e] \/ Alike(versions'[e], versions[e])
        BY <2>2, OverMirrors, MirrorsAlike, FlyingRequests
    <3>2. saves' = saves
        BY <1>3 DEF Version
    <3> QED
        BY <1>1, <2>1, <3>1, <3>2 DEF At, Unsaved, Onward
  <2>3. ASSUME NEW x, Added(c, x) PROVE HistoryOK'
      BY <1>3, <2>3, HistoryAdded
  <2> QED
      BY <1>3, <2>2, <2>3, VersionEffect
<1>4. ASSUME NEW c \in Flying, Answer(c), UNCHANGED <<row, saves, versions>> PROVE HistoryOK'
  <2>1. Flying' = Flying \ {c} /\ \A d \in Flying' : call'[d] = call[d]
      BY <1>4, GoneKeepCalls DEF Flying
  <2>2. \A d \in Flying' : Unsaved(d)' \/ Goes(d)
      BY <2>1 DEF Goes, Pending, Unsaved
  <2> QED
      BY <1>4, <2>2, HistoryKept
<1>5. ASSUME NEW c \in Flying, Throws(c) \/ End(c) PROVE HistoryOK'
    BY <1>4, <1>5 DEF Throws, End, stored
<1>12. ASSUME NEW c \in Flying, PruneFails(c) PROVE HistoryOK'
  <2>1. PICK k : /\ Moves(c, k) /\ k.body = call[c].body /\ At(c, "prune")
                 /\ k.step = Onward(call[c])
      BY <1>12, PruneMoves
  <2>2. UNCHANGED <<saves, versions>>
      BY <1>12 DEF PruneFails, stored
  <2> QED
      BY <1>1, <2>1, <2>2 DEF At, Unsaved, Onward
<1>6. ASSUME NEW e \in Entries, Close(e) PROVE HistoryOK'
  <2>1. \A d \in Entries : versions'[d] = versions[d] \/ Alike(versions'[d], versions[d])
      BY <1>6, CloseMirrors, MirrorsAlike
  <2>2. UNCHANGED <<call, saves>>
      BY <1>6 DEF Close
  <2>3. \A d \in Flying' : Unsaved(d)' \/ Goes(d)
      BY <2>2 DEF Goes, Pending, Unsaved, Flying
  <2> QED
      BY <2>1, <2>2, <2>3, HistoryKept
<1>7. CASE Crash
  <2>1. Flying' = {} /\ UNCHANGED <<saves, versions>>
      BY <1>7 DEF Crash, Flying, stored
  <2> QED
      BY <2>1, HistoryKept
<1>8. CASE UNCHANGED vars
  <2>1. UNCHANGED <<call, saves, versions>>
      BY <1>8 DEF vars, stored
  <2>2. \A d \in Flying' : Unsaved(d)' \/ Goes(d)
      BY <2>1 DEF Goes, Pending, Unsaved, Flying
  <2> QED
      BY <2>1, <2>2, HistoryKept
<1>9. ASSUME NEW c, NEW e \in Entries, NEW step \in {"quick", "write"}, NEW s \in {Null} \cup Names,
             NEW by \in Authors, NEW noted \in BOOLEAN, Begins(c, e, step, s, by, noted)
      PROVE  HistoryOK'
  <2>1. Began(c, e, step, s)
      BY <1>9, BeginEffect DEF Begins
  <2>2. UNCHANGED <<saves, versions>>
      BY <2>1 DEF Began, stored
  <2>3. \A d \in Flying' : Unsaved(d)' \/ Goes(d)
      BY <2>1 DEF Began, Beside, Goes, Pending, Unsaved
  <2> QED
      BY <2>2, <2>3, HistoryKept
<1>10. ASSUME NEW c \in Flying, NEW quick \in BOOLEAN, Put(c, quick), call[c].step \in {"quick", "write"}
       PROVE  HistoryOK'
    BY <1>10, HistoryPut DEF Unsaved
<1>11. ASSUME NEW c \in Flying, Unsaved(c), Answer(c), UNCHANGED <<stored, faults, rough, clashed>>
       PROVE  HistoryOK'
    BY <1>4, <1>11 DEF stored
<1> QED
    BY StepCases, <1>2, <1>3, <1>5, <1>6, <1>7, <1>8, <1>9, <1>10, <1>11, <1>12, HistoryRead,
       HistoryPruned

(* What a step does to the histories. *)
Guarded(e) ==
    \A v \in versions[e] :
         LET next == {w \in versions'[e] : w.id = v.id}
         IN  IF next = {} THEN Cardinality({w.n : w \in {x \in versions'[e] : x.n > v.n}}) >= Retention
                         ELSE v.noted => \A w \in next : w.body = v.body

LEMMA UnchangedGuarded ==
    ASSUME HistoryOK, NEW e \in Entries, versions'[e] = versions[e]
    PROVE  Guarded(e)
BY DEF HistoryOK, Histories, OneRow, Guarded

LEMMA MirrorsGuarded ==
    ASSUME HistoryOK, NEW e \in Entries, NEW id, NEW b, Mirrors(versions'[e], versions[e], id, b),
           \A v \in versions[e] : v.noted => v.id # id
    PROVE  Guarded(e)
<1> SUFFICES ASSUME NEW v \in versions[e]
             PROVE  /\ \E w \in versions'[e] : w.id = v.id
                    /\ v.noted => \A w \in versions'[e] : w.id = v.id => w.body = v.body
    BY DEF Guarded
<1>1. \E w \in versions'[e] : w.id = v.id
    BY DEF Mirrors
<1>2. ASSUME v.noted, NEW w \in versions'[e], w.id = v.id PROVE w.body = v.body
  <2>1. PICK u \in versions[e] : w.id = u.id /\ w.body = IF u.id = id THEN b ELSE u.body
      BY <1>2 DEF Mirrors
  <2>2. u = v
      BY <1>2, <2>1 DEF HistoryOK, Histories, OneRow
  <2> QED
      BY <1>2, <2>1, <2>2
<1> QED
    BY <1>1, <1>2

LEMMA AddedGuarded ==
    ASSUME TypeOK, CallsOK, HistoryOK, NEW c \in Flying, At(c, "version"), NEW x, Added(c, x)
    PROVE  Guarded(call[c].e)
<1> DEFINE e == call[c].e
           A == versions[e]
           B == versions'[e]
<1>1. e \in Entries /\ B = A \cup {x} /\ \A v \in A : v.id # x.id
    BY AddedEffect
<1>2. ASSUME NEW v \in A PROVE v \in B /\ \A w \in B : w.id = v.id => w = v
    BY <1>1, <1>2 DEF HistoryOK, Histories, OneRow
<1> QED
    BY <1>2 DEF Guarded

LEMMA PrunedGuarded ==
    ASSUME TypeOK, HistoryOK, PruneOK, NEW c \in Flying, Prune(c)
    PROVE  Guarded(call[c].e)
<1> DEFINE e == call[c].e
           A == versions[e]
           B == versions'[e]
           m == Number(call[c])
<1>1. /\ e \in Entries /\ A \in SUBSET Versions /\ B = {v \in A : v.n > m - Retention}
      /\ m \in Nat \ {0}
    BY PrunedEffect
<1>2. PICK hi \in Nat \ {0} : Full(B, hi) /\ m <= hi
    BY PrunedEffect
<1>3. ASSUME NEW v \in A, v.n > m - Retention
      PROVE  v \in B /\ \A w \in B : w.id = v.id => w = v
    BY <1>1, <1>3 DEF HistoryOK, Histories, OneRow
<1>4. ASSUME NEW v \in A, ~(v.n > m - Retention)
      PROVE  /\ Cardinality({w.n : w \in {y \in B : y.n > v.n}}) >= Retention
             /\ \A w \in B : w.id # v.id
  <2>1. v.n \in Nat \ {0} /\ Retention \in Nat \ {0}
      BY <1>1, BoundsAssumption DEF Versions
  <2>2. \A w \in B : w.id # v.id
      BY <1>1, <1>4 DEF HistoryOK, Histories, OneRow
  <2>3. B \in SUBSET Versions
      BY <1>1
  <2> HIDE DEF A, B, e, m
  <2>4. v.n <= hi - Retention
      BY <1>1, <1>2, <1>4, <2>1
  <2>5. Cardinality({w.n : w \in {y \in B : y.n > v.n}}) >= Retention
      BY <1>2, <2>1, <2>3, <2>4, FullCounts
  <2> QED
      BY <2>2, <2>5
<1> HIDE DEF A, B, e, m
<1>5. \A v \in A : LET next == {w \in B : w.id = v.id}
                  IN  IF next = {} THEN Cardinality({w.n : w \in {y \in B : y.n > v.n}}) >= Retention
                                  ELSE v.noted => \A w \in next : w.body = v.body
  <2> TAKE v \in A
  <2>1. CASE v.n > m - Retention
      BY <1>3, <2>1
  <2>2. CASE ~(v.n > m - Retention)
    <3>1. {w \in B : w.id = v.id} = {}
        BY <1>4, <2>2
    <3>2. Cardinality({w.n : w \in {y \in B : y.n > v.n}}) >= Retention
        BY <1>4, <2>2
    <3> QED
        BY <3>1, <3>2
  <2> QED
      BY <2>1, <2>2
<1> QED
    BY <1>5 DEF Guarded, A, B, e

LEMMA HistoriesGuarded ==
    ASSUME TypeOK, CallsOK, HistoryOK, PruneOK, [Next]_vars, NEW e \in Entries
    PROVE  Guarded(e)
<1>1. CASE versions' = versions
    BY <1>1, UnchangedGuarded
<1>2. ASSUME NEW c \in Flying, Version(c) PROVE Guarded(e)
  <2>1. CASE e # call[c].e
    <3>1. CASE Over(c)
        BY <2>1, <3>1, OverMirrors, UnchangedGuarded
    <3>2. ASSUME NEW x, Added(c, x) PROVE Guarded(e)
        BY <1>2, <2>1, <3>2, AddedEffect, UnchangedGuarded DEF Version
    <3> QED
        BY <1>2, <3>1, <3>2, VersionEffect
  <2>2. CASE e = call[c].e
    <3>1. CASE Over(c)
      <4> DEFINE last == call[c].last
      <4>1. last # Null /\ ~last.noted /\ Mirrors(versions'[e], versions[e], last.id, call[c].body)
          BY <2>2, <3>1, OverMirrors
      <4>2. Noted(last, e)
          BY <1>2, <2>2, <4>1 DEF Version, At, HistoryOK, LastOK
      <4>3. \A v \in versions[e] : v.noted => v.id # last.id
          BY <4>1, <4>2 DEF Noted
      <4> QED
          BY <4>1, <4>3, MirrorsGuarded
    <3>2. ASSUME NEW x, Added(c, x) PROVE Guarded(e)
        BY <1>2, <2>2, <3>2, AddedGuarded DEF Version
    <3> QED
        BY <1>2, <3>1, <3>2, VersionEffect
  <2> QED
      BY <2>1, <2>2
<1>3. ASSUME NEW d \in Entries, Close(d) PROVE Guarded(e)
  <2>1. CASE e = d
    <3>1. Mirrors(versions'[e], versions[e], -1, 0)
        BY <1>3, <2>1, CloseMirrors
    <3>2. \A v \in versions[e] : v.id # -1
        BY DEF TypeOK, Versions
    <3> QED
        BY <3>1, <3>2, MirrorsGuarded
  <2>2. CASE e # d
      BY <1>3, <2>2, CloseMirrors, UnchangedGuarded
  <2> QED
      BY <2>1, <2>2
<1>4. ASSUME NEW c \in Flying,
             Sync(c) \/ SyncFails(c) \/ ReadLast(c) \/ PruneFails(c) \/ Throws(c) \/ End(c)
      PROVE  versions' = versions
    BY <1>4 DEF Sync, SyncFails, ReadLast, PruneFails, Throws, End, stored
<1>9. ASSUME NEW c \in Flying, Prune(c) PROVE Guarded(e)
  <2>1. CASE e # call[c].e
      BY <1>9, <2>1, PrunedEffect, UnchangedGuarded
  <2>2. CASE e = call[c].e
      BY <1>9, <2>2, PrunedGuarded
  <2> QED
      BY <2>1, <2>2
<1>5. ASSUME NEW c, NEW d, NEW step, NEW s, NEW by, NEW noted, Begins(c, d, step, s, by, noted)
      PROVE  versions' = versions
    BY <1>5 DEF Begins, Begin, stored
<1>6. ASSUME NEW c, NEW quick, Put(c, quick) PROVE versions' = versions
    BY <1>6 DEF Put
<1>7. CASE Crash \/ UNCHANGED vars
    BY <1>1, <1>7 DEF Crash, vars, stored
<1>8. ASSUME UNCHANGED <<stored, faults, rough, clashed>> PROVE versions' = versions
    BY <1>8 DEF stored
<1> QED
    BY StepCases, <1>1, <1>2, <1>3, <1>4, <1>5, <1>6, <1>7, <1>8, <1>9

(* A step leaves a version as new as any that was there.                     *)
TopsKept == \A e \in Entries : \A v \in versions[e] : \E w \in versions'[e] : v.n <= w.n

LEMMA TopsStay ==
    ASSUME TypeOK, CallsOK, HistoryOK, PruneOK, [Next]_vars
    PROVE  TopsKept
<1>1. \A e \in Entries : \A v \in versions[e] : v.n \in Nat
    BY DEF TypeOK, Versions
<1>2. CASE versions' = versions
    BY <1>1, <1>2 DEF TopsKept
<1>3. ASSUME NEW c \in Flying, Version(c) PROVE TopsKept
  <2>1. CASE Over(c)
    <3>1. \A e \in Entries : versions'[e] = versions[e] \/ Alike(versions'[e], versions[e])
        BY <2>1, OverMirrors, MirrorsAlike, FlyingRequests
    <3> QED
        BY <1>1, <3>1 DEF TopsKept, Alike
  <2>2. ASSUME NEW x, Added(c, x) PROVE TopsKept
    <3>1. /\ versions'[call[c].e] = versions[call[c].e] \cup {x}
          /\ \A e \in Entries \ {call[c].e} : versions'[e] = versions[e]
        BY <1>3, <2>2, AddedEffect DEF Version
    <3>2. \A e \in Entries : versions[e] \subseteq versions'[e]
        BY <3>1
    <3> QED
        BY <1>1, <3>2 DEF TopsKept
  <2> QED
      BY <1>3, <2>1, <2>2, VersionEffect
<1>4. ASSUME NEW c \in Flying, Prune(c) PROVE TopsKept
  <2> SUFFICES ASSUME NEW e \in Entries, NEW v \in versions[e]
               PROVE  \E w \in versions'[e] : v.n <= w.n
      BY DEF TopsKept
  <2>1. CASE e # call[c].e
    <3>1. versions'[e] = versions[e]
        BY <1>4, <2>1, PrunedEffect
    <3> QED
        BY <1>1, <3>1
  <2>2. CASE e = call[c].e
    <3>1. PICK hi \in Nat \ {0} : Full(versions[e], hi) /\ Full(versions'[e], hi)
        BY <1>4, <2>2, PrunedEffect
    <3>2. hi - Retention < hi /\ hi <= hi
        BY BoundsAssumption
    <3> QED
        BY <3>1, <3>2 DEF Full
  <2> QED
      BY <2>1, <2>2
<1>5. ASSUME NEW e \in Entries, Close(e) PROVE TopsKept
  <2>1. \A d \in Entries : versions'[d] = versions[d] \/ Alike(versions'[d], versions[d])
      BY <1>5, CloseMirrors, MirrorsAlike
  <2> QED
      BY <1>1, <2>1 DEF TopsKept, Alike
<1>6. ASSUME NEW c \in Flying,
             Sync(c) \/ SyncFails(c) \/ ReadLast(c) \/ PruneFails(c) \/ Throws(c) \/ End(c)
      PROVE  versions' = versions
    BY <1>6 DEF Sync, SyncFails, ReadLast, PruneFails, Throws, End, stored
<1>7. ASSUME NEW c, NEW d, NEW step, NEW s, NEW by, NEW noted, Begins(c, d, step, s, by, noted)
      PROVE  versions' = versions
    BY <1>7 DEF Begins, Begin, stored
<1>8. ASSUME NEW c, NEW quick, Put(c, quick) PROVE versions' = versions
    BY <1>8 DEF Put
<1>9. ASSUME UNCHANGED <<stored, faults, rough, clashed>> PROVE versions' = versions
    BY <1>9 DEF stored
<1>10. CASE Crash \/ UNCHANGED vars
    BY <1>2, <1>10 DEF Crash, vars, stored
<1> QED
    BY StepCases, <1>2, <1>3, <1>4, <1>5, <1>6, <1>7, <1>8, <1>9, <1>10

LEMMA PruneStep ==
    ASSUME TypeOK, CallsOK, HistoryOK, PruneOK, [Next]_vars
    PROVE  PruneOK'
<1>1. TopsKept
    BY TopsStay
<1>2. ASSUME \A d \in Flying' : call'[d].step = "prune" =>
                /\ d \in Flying /\ call[d].step = "prune"
                /\ call'[d].e = call[d].e /\ call'[d].last = call[d].last
      PROVE  PruneOK'
  <2> SUFFICES ASSUME NEW d \in Flying', call'[d].step = "prune"
               PROVE  \E w \in versions'[call'[d].e] : Number(call'[d]) <= w.n
      BY DEF PruneOK
  <2> DEFINE e == call[d].e
             m == Number(call[d])
  <2>1. d \in Flying /\ call[d].step = "prune" /\ call'[d].e = e /\ Number(call'[d]) = m
      BY <1>2 DEF Number
  <2>2. PICK v \in versions[e] : m <= v.n
      BY <2>1 DEF PruneOK
  <2>3. call[d] \in Requests /\ e \in Entries
      BY <2>1, FlyingRequests
  <2>4. m \in Nat
    <3>1. call[d].last = Null \/ call[d].last \in Versions
        BY <2>3 DEF Requests
    <3> QED
        BY <3>1 DEF Number, Versions
  <2>5. PICK w \in versions'[e] : v.n <= w.n
      BY <1>1, <2>3 DEF TopsKept
  <2>6. v.n \in Nat /\ w.n \in Nat
      BY <2>3, CallsStep DEF TypeOK, Versions
  <2> HIDE DEF m, e
  <2>7. m <= w.n
      BY <2>2, <2>4, <2>5, <2>6
  <2> QED
      BY <2>1, <2>7
<1>3. ASSUME NEW c \in Flying, NEW k, Moves(c, k), k.step # "prune" PROVE PruneOK'
  <2>1. Flying' = Flying /\ call'[c] = k /\ \A d \in Flying \ {c} : call'[d] = call[d]
      BY <1>3, MoveEffect DEF Flying
  <2> QED
      BY <1>2, <1>3, <2>1
<1>4. ASSUME NEW c \in Flying, Version(c) PROVE PruneOK'
  <2>1. PICK k : /\ Moves(c, k) /\ At(c, "version")
                 /\ \/ k.last = Null /\ k.step = Onward(call[c])
                    \/ k.last = call[c].last /\ k.step = "prune" /\ ~Merges(call[c])
      BY <1>4, VersionMoves
  <2>2. CASE k.step # "prune"
      BY <1>3, <2>1, <2>2
  <2>3. CASE k.step = "prune"
    <3>1. k.last = call[c].last /\ ~Merges(call[c])
        BY <2>1, <2>3 DEF Onward
    <3>2. PICK x : Added(c, x)
        BY <1>4, <3>1, VersionEffect
    <3>3. versions'[call[c].e] = versions[call[c].e] \cup {x} /\ x \in Versions
        BY <2>1, <3>2, AddedEffect
    <3>4. x.n = Number(call[c]) /\ x.n <= x.n
        BY <3>2, <3>3 DEF Added, Versions
    <3>5. /\ Flying' = Flying /\ call'[c] = k /\ k.e = call[c].e
          /\ \A d \in Flying \ {c} : call'[d] = call[d]
        BY <2>1, MoveEffect DEF Flying, Moves, Kept
    <3>6. Number(k) = x.n
        BY <3>1, <3>4 DEF Number
    <3>7. ASSUME NEW d \in Flying, d # c, call'[d].step = "prune"
          PROVE  \E w \in versions'[call'[d].e] : Number(call'[d]) <= w.n
      <4> DEFINE e == call[d].e
                 m == Number(call[d])
      <4>1. PICK v \in versions[e] : m <= v.n
          BY <3>5, <3>7 DEF PruneOK
      <4>2. call[d] \in Requests /\ e \in Entries
          BY FlyingRequests
      <4>3. m \in Nat
        <5>1. call[d].last = Null \/ call[d].last \in Versions
            BY <4>2 DEF Requests
        <5> QED
            BY <5>1 DEF Number, Versions
      <4>4. PICK w \in versions'[e] : v.n <= w.n
          BY <1>1, <4>2 DEF TopsKept
      <4>5. v.n \in Nat /\ w.n \in Nat
          BY <4>2, CallsStep DEF TypeOK, Versions
      <4>6. call'[d].e = e /\ Number(call'[d]) = m
          BY <3>5, <3>7
      <4> HIDE DEF m, e
      <4>7. m <= w.n
          BY <4>1, <4>3, <4>4, <4>5
      <4> QED
          BY <4>6, <4>7
    <3>8. \E w \in versions'[call'[c].e] : Number(call'[c]) <= w.n
        BY <3>3, <3>4, <3>5, <3>6
    <3> QED
        BY <3>5, <3>7, <3>8 DEF PruneOK
  <2> QED
      BY <2>2, <2>3
<1>5. ASSUME NEW c \in Flying, Answer(c), UNCHANGED <<row, saves>> PROVE PruneOK'
  <2>1. Flying' = Flying \ {c} /\ \A d \in Flying' : call'[d] = call[d]
      BY <1>5, GoneKeepCalls DEF Flying
  <2> QED
      BY <1>2, <2>1
<1>6. ASSUME NEW c \in Flying, Throws(c) \/ End(c) PROVE PruneOK'
    BY <1>5, <1>6 DEF Throws, End, stored
<1>7. ASSUME NEW c, NEW e \in Entries, NEW step \in {"quick", "write"}, NEW s \in {Null} \cup Names,
             NEW by \in Authors, NEW noted \in BOOLEAN, Begins(c, e, step, s, by, noted)
      PROVE  PruneOK'
  <2>1. Began(c, e, step, s)
      BY <1>7, BeginEffect DEF Begins
  <2>2. \A d \in Flying' : call'[d].step = "prune" =>
                /\ d \in Flying /\ call[d].step = "prune"
                /\ call'[d].e = call[d].e /\ call'[d].last = call[d].last
      BY <2>1 DEF Began, Beside, Unsaved
  <2> QED
      BY <1>2, <2>2
<1>8. ASSUME NEW c \in Flying, NEW quick \in BOOLEAN, Put(c, quick) PROVE PruneOK'
  <2>1. PICK k : Moves(c, k) /\ k.step = IF call[c].new THEN "last" ELSE "index"
      BY <1>8, PutMoves
  <2>2. k.step # "prune"
      BY <2>1
  <2> QED
      BY <1>3, <2>1, <2>2
<1>9. ASSUME NEW c \in Flying, Sync(c) \/ SyncFails(c) \/ ReadLast(c) \/ Prune(c) \/ PruneFails(c)
      PROVE  PruneOK'
  <2>1. \E k : Moves(c, k) /\ k.step # "prune"
      BY <1>9, SyncMoves, ReadMoves, PruneMoves DEF After, Onward
  <2> QED
      BY <1>3, <2>1
<1>10. CASE (\E e \in Entries : Close(e)) \/ UNCHANGED vars
  <2>1. call' = call /\ Flying' = Flying
      BY <1>10 DEF Close, vars, Flying
  <2> QED
      BY <1>2, <2>1
<1>11. CASE Crash
  <2>1. Flying' = {}
      BY <1>11 DEF Crash, Flying
  <2> QED
      BY <2>1 DEF PruneOK
<1>12. ASSUME NEW c \in Flying, Answer(c), UNCHANGED <<stored, faults, rough, clashed>> PROVE PruneOK'
    BY <1>5, <1>12 DEF stored
<1> QED
    BY StepCases, <1>4, <1>6, <1>7, <1>8, <1>9, <1>10, <1>11, <1>12

-----------------------------------------------------------------------------
(* What the index and the newest version say.  A call that runs whole is     *)
(* alone at its entry, and has done there what its step says.                *)
Newest(A, b) == \E v \in A : v.body = b /\ \A w \in A : w.n <= v.n

Found(last, A) ==
    IF last = Null THEN A = {}
    ELSE \E v \in A : v.id = last.id /\ v.n = last.n /\ \A w \in A : w.n <= v.n

Indexed(q) == q.step \in {"last", "version", "prune", "end"} /\ (q.new => q.step = "end")
Stored(q) == q.step \in {"index", "prune", "end"} /\ (~q.new => q.step # "index")

Done(q) ==
    /\ row[q.e].body = q.body
    /\ Indexed(q) => index[q.e] = q.body
    /\ Stored(q) => Newest(versions[q.e], q.body)
    /\ q.step = "version" => Found(q.last, versions[q.e])

Alone == \A c, d \in Flying : call[c].whole /\ call[d].e = call[c].e => d = c

Whole == \A c \in Flying : call[c].whole /\ ~Unsaved(c) => Done(call[c])

Told(e) == index[e] = row[e].body /\ Newest(versions[e], row[e].body)

AtRest ==
    \A e \in Entries :
        row[e] # Null /\ e \notin rough /\ (\A c \in Flying : call[c].e = e => Unsaved(c)) => Told(e)

SettledOK == Alone /\ Whole /\ AtRest

LEMMA SettledInitially == Init => SettledOK
<1> SUFFICES ASSUME Init PROVE SettledOK
    OBVIOUS
<1>1. Flying = {}
    BY DEF Init, Flying
<1>2. ASSUME NEW e \in Entries, row[e] # Null PROVE Told(e)
  <2>1. PICK slug \in [Entries -> Names \cup {Null}] :
           /\ row = [d \in Entries |-> IF slug[d] = Null THEN Null ELSE
                       [slug |-> slug[d], name |-> slug[d], body |-> 0, quick |-> TRUE]]
           /\ versions = [d \in Entries |-> IF slug[d] = Null THEN {} ELSE
                       {[id |-> 0, n |-> 1, body |-> 0, by |-> Null, noted |-> TRUE, open |-> FALSE]}]
      BY DEF Init
  <2>2. slug[e] # Null /\ row[e].body = 0 /\ index[e] = 0
      BY <1>2, <2>1 DEF Init
  <2> DEFINE v == [id |-> 0, n |-> 1, body |-> 0, by |-> Null, noted |-> TRUE, open |-> FALSE]
  <2>3. versions[e] = {v} /\ v.body = 0 /\ v.n <= v.n
      BY <2>1, <2>2
  <2> HIDE DEF v
  <2> QED
      BY <2>2, <2>3 DEF Told, Newest
<1> QED
    BY <1>1, <1>2 DEF SettledOK, Alone, Whole, AtRest

(* A call goes on, and what it changes is at its own entry. *)
LEMMA SettledMove ==
    ASSUME TypeOK, SettledOK, NEW c, NEW k, Moves(c, k), k.step \notin {"quick", "write"},
           UNCHANGED rough,
           \A d \in Entries \ {call[c].e} : row'[d] = row[d] /\ index'[d] = index[d] /\ versions'[d] = versions[d],
           k.whole => call[c].whole /\ Done(k)'
    PROVE  SettledOK'
<1> DEFINE e == call[c].e
<1>1. /\ Flying' = Flying /\ call'[c] = k /\ \A d \in Flying \ {c} : call'[d] = call[d]
      /\ c \in Flying /\ k.e = e /\ k = k'
    BY MoveEffect DEF Flying, Moves, Kept
<1>2. ~Unsaved(c)'
    BY <1>1 DEF Unsaved
<1>3. Alone'
    BY <1>1 DEF SettledOK, Alone
<1>4. Whole'
  <2> SUFFICES ASSUME NEW d \in Flying, call'[d].whole, ~Unsaved(d)' PROVE Done(call[d])'
      BY <1>1 DEF Whole
  <2>1. CASE d = c
      BY <1>1, <2>1
  <2>2. CASE d # c
    <3>1. call'[d] = call[d] /\ call[d].e # e /\ call[d].e \in Entries /\ Done(call[d])
        BY <1>1, <2>2, FlyingRequests DEF SettledOK, Alone, Whole, Unsaved
    <3>2. LET f == call[d].e IN row'[f] = row[f] /\ index'[f] = index[f] /\ versions'[f] = versions[f]
        BY <3>1
    <3> QED
        BY <3>1, <3>2 DEF Done
  <2> QED
      BY <2>1, <2>2
<1>5. AtRest'
  <2> SUFFICES ASSUME NEW f \in Entries, row'[f] # Null, f \notin rough,
                      \A d \in Flying : call'[d].e = f => Unsaved(d)'
               PROVE  Told(f)'
      BY <1>1 DEF AtRest
  <2>1. f # e
      BY <1>1, <1>2
  <2>2. \A d \in Flying : call[d].e = f => Unsaved(d)
      BY <1>1, <2>1 DEF Unsaved
  <2>3. row'[f] = row[f] /\ index'[f] = index[f] /\ versions'[f] = versions[f]
      BY <2>1
  <2>4. Told(f)
      BY <2>2, <2>3 DEF SettledOK, AtRest
  <2> QED
      BY <2>3, <2>4 DEF Told
<1> QED
    BY <1>3, <1>4, <1>5 DEF SettledOK

LEMMA MirrorsNewest ==
    ASSUME NEW A, NEW B, NEW id, NEW b, Mirrors(A, B, id, b)
    PROVE  /\ \A p : Newest(B, p) /\ (\A u \in B : u.id # id) => Newest(A, p)
           /\ \A last : last # Null /\ Found(last, B) => Found(last, A)
           /\ \A last : last # Null /\ last.id = id /\ Found(last, B) => Newest(A, b)
           /\ A = {} <=> B = {}
<1>1. ASSUME NEW v \in B, \A w \in B : w.n <= v.n
      PROVE  \E u \in A : /\ u.id = v.id /\ u.n = v.n /\ u.body = IF v.id = id THEN b ELSE v.body
                          /\ \A w \in A : w.n <= u.n
    BY <1>1 DEF Mirrors
<1>2. \A p : Newest(B, p) /\ (\A u \in B : u.id # id) => Newest(A, p)
    BY <1>1 DEF Newest
<1>3. \A last : last # Null /\ Found(last, B) => Found(last, A)
    BY <1>1 DEF Found
<1>4. \A last : last # Null /\ last.id = id /\ Found(last, B) => Newest(A, b)
    BY <1>1 DEF Found, Newest
<1>5. A = {} <=> B = {}
    BY DEF Mirrors
<1> QED
    BY <1>2, <1>3, <1>4, <1>5

LEMMA SettledGone ==
    ASSUME TypeOK, CallsOK, SettledOK, NEW c \in Flying, Answer(c),
           UNCHANGED <<row, index, versions, saves>>,
           \/ Unsaved(c) /\ UNCHANGED rough
           \/ call[c].whole /\ call[c].step = "end" /\ rough' = rough \ {call[c].e}
           \/ rough' = rough \cup {call[c].e}
    PROVE  SettledOK'
<1>1. Flying' = Flying \ {c} /\ \A d \in Flying' : call'[d] = call[d]
    BY GoneKeepCalls DEF Flying
<1>2. Alone' /\ Whole'
    BY <1>1 DEF SettledOK, Alone, Whole, Done, Unsaved
<1>3. AtRest'
  <2> SUFFICES ASSUME NEW e \in Entries, row[e] # Null, e \notin rough',
                      \A d \in Flying' : call[d].e = e => Unsaved(d)
               PROVE  Told(e)
      BY <1>1 DEF AtRest, Told, Unsaved
  <2>1. CASE e # call[c].e \/ Unsaved(c)
    <3>1. \A d \in Flying : call[d].e = e => Unsaved(d)
        BY <1>1, <2>1
    <3>2. e \notin rough \/ e = call[c].e
        BY <2>1
    <3>3. CASE e \notin rough
        BY <3>1, <3>3 DEF SettledOK, AtRest
    <3>4. CASE e \in rough
        BY <2>1, <3>2, <3>4 DEF Unsaved
    <3> QED
        BY <3>3, <3>4
  <2>2. CASE e = call[c].e /\ ~Unsaved(c)
    <3>1. call[c].whole /\ call[c].step = "end"
        BY <2>2
    <3>2. Done(call[c])
        BY <2>2, <3>1 DEF SettledOK, Whole
    <3> QED
        BY <2>2, <3>1, <3>2 DEF Done, Indexed, Stored, Told
  <2> QED
      BY <2>1, <2>2
<1> QED
    BY <1>2, <1>3 DEF SettledOK

LEMMA SettledClose ==
    ASSUME TypeOK, SettledOK, NEW e \in Entries, Close(e)
    PROVE  SettledOK'
<1>1. UNCHANGED <<row, index, call, rough>>
    BY DEF Close
<1>2. Mirrors(versions'[e], versions[e], -1, 0) /\ \A d \in Entries \ {e} : versions'[d] = versions[d]
    BY CloseMirrors
<1>3. \A u \in versions[e] : u.id # -1
    BY DEF TypeOK, Versions
<1>4. ASSUME NEW f \in Entries
      PROVE  /\ \A p : Newest(versions[f], p) => Newest(versions'[f], p)
             /\ \A last : Found(last, versions[f]) => Found(last, versions'[f])
  <2>1. CASE f = e
      BY <1>2, <1>3, <2>1, MirrorsNewest DEF Found
  <2>2. CASE f # e
      BY <1>2, <2>2
  <2> QED
      BY <2>1, <2>2
<1>5. Flying' = Flying
    BY <1>1 DEF Flying
<1>6. Alone'
    BY <1>1, <1>5 DEF SettledOK, Alone
<1>7. Whole'
  <2> SUFFICES ASSUME NEW c \in Flying, call[c].whole, ~Unsaved(c) PROVE Done(call[c])'
      BY <1>1, <1>5 DEF Whole, Unsaved
  <2>1. Done(call[c]) /\ call[c].e \in Entries
      BY FlyingRequests DEF SettledOK, Whole
  <2> QED
      BY <1>1, <1>4, <2>1 DEF Done, Indexed, Stored
<1>8. AtRest'
    BY <1>1, <1>4, <1>5 DEF SettledOK, AtRest, Told, Unsaved
<1> QED
    BY <1>6, <1>7, <1>8 DEF SettledOK

LEMMA SettledCrash ==
    ASSUME TypeOK, SettledOK, Crash
    PROVE  SettledOK'
<1>1. Flying' = {} /\ UNCHANGED <<row, index, versions>>
      /\ rough' = rough \cup {call[c].e : c \in {d \in Flying : Written(d)}}
    BY DEF Crash, Flying, stored
<1>2. AtRest'
  <2> SUFFICES ASSUME NEW e \in Entries, row[e] # Null, e \notin rough' PROVE Told(e)
      BY <1>1 DEF AtRest, Told
  <2>1. e \notin rough /\ \A c \in Flying : call[c].e = e => Unsaved(c)
      BY <1>1 DEF Written, Unsaved
  <2> QED
      BY <2>1 DEF SettledOK, AtRest
<1> QED
    BY <1>1, <1>2 DEF SettledOK, Alone, Whole

LEMMA SettledBegin ==
    ASSUME TypeOK, SettledOK, NEW c, NEW e \in Entries, NEW step \in {"quick", "write"},
           NEW s \in {Null} \cup Names, Began(c, e, step, s)
    PROVE  SettledOK'
<1>1. /\ c \notin Flying /\ Flying' = Flying \cup {c} /\ call'[c].e = e /\ Unsaved(c)'
      /\ call'[c].whole => On(e) = {}
      /\ UNCHANGED <<row, index, versions, rough>>
    BY DEF Began, Flying, Unsaved, stored
<1>2. ASSUME NEW d \in Flying
      PROVE  /\ call'[d].e = call[d].e /\ call'[d].step = call[d].step /\ call'[d].body = call[d].body
             /\ call'[d].new = call[d].new /\ call'[d].last = call[d].last /\ (Unsaved(d)' <=> Unsaved(d))
             /\ call'[d].whole => call[d].whole /\ call[d].e # e
    BY DEF Began, Beside, Unsaved
<1>3. Alone'
    BY <1>1, <1>2 DEF SettledOK, Alone, On
<1>4. Whole'
  <2> SUFFICES ASSUME NEW d \in Flying, call'[d].whole, ~Unsaved(d) PROVE Done(call[d])'
      BY <1>1, <1>2 DEF Whole
  <2>1. Done(call[d])
      BY <1>2 DEF SettledOK, Whole
  <2> QED
      BY <1>1, <1>2, <2>1 DEF Done, Indexed, Stored
<1>5. AtRest'
    BY <1>1, <1>2 DEF SettledOK, AtRest, Told
<1> QED
    BY <1>3, <1>4, <1>5 DEF SettledOK

LEMMA SettledPut ==
    ASSUME TypeOK, CallsOK, SettledOK, NEW c \in Flying, Unsaved(c), NEW quick \in BOOLEAN, Put(c, quick)
    PROVE  SettledOK'
<1> DEFINE q == call[c]
<1>1. PICK r : RowAs(r, q, quick) /\ row' = [row EXCEPT ![q.e] = r]
    BY PutRow
<1>2. PICK k : /\ Moves(c, k) /\ k.body = saves + 1 /\ k.whole = q.whole
               /\ k.step = IF q.new THEN "last" ELSE "index"
    BY PutMoves
<1>3. /\ q.e \in Entries /\ row'[q.e] = r /\ r.body = saves + 1
      /\ \A d \in Entries \ {q.e} : row'[d] = row[d]
    BY <1>1, FlyingRequests DEF RowAs, TypeOK
<1>4. UNCHANGED <<index, versions, rough>>
    BY DEF Put
<1>5. k.e = q.e /\ k.new = q.new
    BY <1>2 DEF Moves, Kept
<1>6. Done(k)'
    BY <1>2, <1>3, <1>5 DEF Done, Indexed, Stored
<1> QED
    BY <1>2, <1>3, <1>4, <1>6, SettledMove

LEMMA SettledSync ==
    ASSUME TypeOK, CallsOK, SettledOK, NEW c \in Flying, Sync(c) \/ SyncFails(c)
    PROVE  SettledOK'
<1> DEFINE q == call[c]
<1>1. PICK k : /\ Moves(c, k) /\ k.body = q.body /\ k.last = q.last
               /\ k.step = After(q) /\ At(c, "index")
               /\ k.whole => Sync(c) /\ q.whole
    BY SyncMoves
<1>2. k.e = q.e /\ k.new = q.new /\ q.e \in Entries /\ q.step = "index" /\ ~Unsaved(c)
    BY <1>1, FlyingRequests DEF Moves, Kept, At, Unsaved
<1>3. UNCHANGED <<row, versions, rough>> /\ \A d \in Entries \ {q.e} : index'[d] = index[d]
    BY <1>2 DEF Sync, SyncFails, stored, Synced, TypeOK
<1>4. ASSUME k.whole PROVE Done(k)'
  <2>1. Sync(c) /\ Done(q)
      BY <1>1, <1>2, <1>4 DEF SettledOK, Whole
  <2>2. index'[q.e] = q.body
      BY <1>2, <2>1 DEF Sync, Synced, TypeOK
  <2>3. Newest(versions[q.e], q.body) \/ ~q.new
      BY <1>2, <2>1 DEF Done, Stored
  <2>4. ~q.new => k.step = "last"
      BY <1>1 DEF After
  <2>5. k.step # "version"
      BY <1>1 DEF After
  <2> QED
      BY <1>1, <1>2, <1>3, <2>1, <2>2, <2>3, <2>4, <2>5 DEF Done, Stored
<1>5. k.step \notin {"quick", "write"}
    BY <1>1 DEF After
<1> QED
    BY <1>1, <1>3, <1>4, <1>5, SettledMove

LEMMA SettledRead ==
    ASSUME TypeOK, CallsOK, SettledOK, NEW c \in Flying, ReadLast(c)
    PROVE  SettledOK'
<1> DEFINE q == call[c]
<1>1. PICK k : /\ Moves(c, k) /\ k.body = q.body /\ k.whole = q.whole
               /\ k.step = "version" /\ At(c, "last")
               /\ \/ k.last = Null /\ versions[q.e] = {}
                  \/ k.last # Null /\ Top(k.last, q.e)
    BY ReadMoves
<1>2. k.e = q.e /\ k.new = q.new /\ q.step = "last" /\ ~Unsaved(c)
    BY <1>1 DEF Moves, Kept, At, Unsaved
<1>3. UNCHANGED <<row, index, versions, rough>>
    BY DEF ReadLast, stored
<1>4. Found(k.last, versions[q.e])
    BY <1>1 DEF Found, Top
<1>5. ASSUME k.whole PROVE Done(k)'
  <2>1. Done(q)
      BY <1>1, <1>2, <1>5 DEF SettledOK, Whole
  <2> QED
      BY <1>1, <1>2, <1>3, <1>4, <2>1 DEF Done, Indexed, Stored
<1> QED
    BY <1>1, <1>3, <1>5, SettledMove

LEMMA SettledVersion ==
    ASSUME TypeOK, CallsOK, HistoryOK, SettledOK, NEW c \in Flying, Version(c)
    PROVE  SettledOK'
<1> DEFINE q == call[c]
           A == versions[q.e]
           B == versions'[q.e]
<1>1. PICK k : /\ Moves(c, k) /\ k.body = q.body /\ k.whole = q.whole
               /\ k.step \in {Onward(q), "prune"} /\ At(c, "version")
    BY VersionMoves
<1>2. k.e = q.e /\ k.new = q.new /\ q.step = "version" /\ ~Unsaved(c) /\ q.e \in Entries
    BY <1>1, FlyingRequests DEF Moves, Kept, At, Unsaved
<1>3. UNCHANGED <<row, index, rough>>
    BY DEF Version
<1>4. \A d \in Entries \ {q.e} : versions'[d] = versions[d]
  <2>1. ASSUME NEW x, Added(c, x) PROVE \A d \in Entries \ {q.e} : versions'[d] = versions[d]
      BY <2>1 DEF Added, TypeOK
  <2> QED
      BY <2>1, VersionEffect, OverMirrors
<1>5. ASSUME Found(q.last, A) PROVE Newest(B, q.body)
  <2>1. CASE Over(c)
    <3>1. q.last # Null /\ Mirrors(B, A, q.last.id, q.body)
        BY <2>1, OverMirrors
    <3> QED
        BY <1>5, <3>1, MirrorsNewest
  <2>2. ASSUME NEW x, Added(c, x) PROVE Newest(B, q.body)
    <3>1. B = A \cup {x} /\ A \in SUBSET Versions /\ x \in Versions
        BY <1>1, <2>2, AddedEffect
    <3>2. x.body = q.body /\ x.n = Number(q)
        BY <2>2 DEF Added
    <3>3. \A v \in A : v.n <= x.n
      <4>1. CASE q.last = Null
          BY <1>5, <4>1 DEF Found
      <4>2. CASE q.last # Null
        <5>1. q.last \in Versions /\ x.n = q.last.n + 1
            BY <3>2, <4>2, FlyingRequests DEF Requests, Number
        <5>2. \A v \in A : v.n <= q.last.n
            BY <1>5, <4>2 DEF Found
        <5> HIDE DEF q, A
        <5> QED
            BY <3>1, <5>1, <5>2 DEF Versions
      <4> QED
          BY <4>1, <4>2
    <3>4. x.n <= x.n
        BY <3>1 DEF Versions
    <3> QED
        BY <3>1, <3>2, <3>3, <3>4 DEF Newest
  <2> QED
      BY <2>1, <2>2, VersionEffect
<1>6. ASSUME k.whole PROVE Done(k)'
  <2>1. Done(q)
      BY <1>1, <1>2, <1>6 DEF SettledOK, Whole
  <2>2. Newest(B, q.body)
      BY <1>2, <1>5, <2>1 DEF Done
  <2>3. ~q.new => index[q.e] = q.body
      BY <1>2, <2>1 DEF Done, Indexed
  <2> QED
      BY <1>1, <1>2, <1>3, <2>1, <2>2, <2>3 DEF Done, Indexed, Stored, Onward
<1>7. k.step \notin {"quick", "write"}
    BY <1>1 DEF Onward
<1> QED
    BY <1>1, <1>3, <1>4, <1>6, <1>7, SettledMove

LEMMA SettledPrune ==
    ASSUME TypeOK, CallsOK, HistoryOK, PruneOK, SettledOK, NEW c \in Flying, Prune(c) \/ PruneFails(c)
    PROVE  SettledOK'
<1> DEFINE q == call[c]
           A == versions[q.e]
           B == versions'[q.e]
<1>1. PICK k : /\ Moves(c, k) /\ k.body = q.body /\ k.whole = q.whole
               /\ k.step = Onward(q) /\ At(c, "prune")
    BY PruneMoves
<1>2. k.e = q.e /\ k.new = q.new /\ q.step = "prune" /\ ~Unsaved(c) /\ q.e \in Entries
    BY <1>1, FlyingRequests DEF Moves, Kept, At, Unsaved
<1>3. UNCHANGED <<row, index, rough>>
    BY DEF Prune, PruneFails, stored
<1>4. \A d \in Entries \ {q.e} : versions'[d] = versions[d]
    BY PrunedEffect DEF PruneFails, stored
<1>5. ASSUME Newest(A, q.body) PROVE Newest(B, q.body)
  <2>1. CASE Prune(c)
    <3>1. PICK v \in A : v.body = q.body /\ \A w \in A : w.n <= v.n
        BY <1>5 DEF Newest
    <3>2. /\ A \in SUBSET Versions /\ B = {w \in A : w.n > Number(q) - Retention}
          /\ Number(q) \in Nat \ {0}
        BY <2>1, PrunedEffect
    <3>3. PICK u \in A : Number(q) <= u.n
        BY <1>2 DEF PruneOK
    <3>4. v.n \in Nat /\ u.n \in Nat /\ u.n <= v.n /\ Retention \in Nat \ {0}
        BY <3>1, <3>2, <3>3, BoundsAssumption DEF Versions
    <3> DEFINE m == Number(q)
    <3>5. m \in Nat /\ m <= u.n
        BY <3>2, <3>3
    <3> HIDE DEF m
    <3>6. v.n > m - Retention
        BY <3>4, <3>5
    <3> QED
        BY <3>1, <3>2, <3>6 DEF Newest, m
  <2>2. CASE PruneFails(c)
      BY <1>5, <2>2 DEF PruneFails, stored
  <2> QED
      BY <2>1, <2>2
<1>6. ASSUME k.whole PROVE Done(k)'
  <2>1. Done(q)
      BY <1>1, <1>2, <1>6 DEF SettledOK, Whole
  <2>2. Newest(B, q.body)
      BY <1>2, <1>5, <2>1 DEF Done, Stored
  <2>3. ~q.new => index[q.e] = q.body
      BY <1>2, <2>1 DEF Done, Indexed
  <2> QED
      BY <1>1, <1>2, <1>3, <2>1, <2>2, <2>3 DEF Done, Indexed, Stored, Onward
<1>7. k.step \notin {"quick", "write"}
    BY <1>1 DEF Onward
<1> QED
    BY <1>1, <1>3, <1>4, <1>6, <1>7, SettledMove

LEMMA SettledStep ==
    ASSUME TypeOK, CallsOK, HistoryOK, PruneOK, SettledOK, [Next]_vars
    PROVE  SettledOK'
<1>1. ASSUME NEW c, NEW e \in Entries, NEW step \in {"quick", "write"}, NEW s \in {Null} \cup Names,
             NEW by \in Authors, NEW noted \in BOOLEAN, Begins(c, e, step, s, by, noted)
      PROVE  SettledOK'
    BY <1>1, BeginEffect, SettledBegin DEF Begins
<1>2. ASSUME NEW c \in Flying, NEW quick \in BOOLEAN, Put(c, quick), call[c].step \in {"quick", "write"}
      PROVE  SettledOK'
    BY <1>2, SettledPut DEF Unsaved
<1>3. ASSUME NEW c \in Flying, Unsaved(c), Answer(c), UNCHANGED <<stored, faults, rough, clashed>>
      PROVE  SettledOK'
    BY <1>3, SettledGone DEF stored
<1>4. ASSUME NEW c \in Flying, End(c) PROVE SettledOK'
  <2>1. /\ Answer(c) /\ UNCHANGED <<row, index, versions, saves>> /\ call[c].step = "end"
        /\ \/ call[c].whole /\ rough' = rough \ {call[c].e}
           \/ rough' = rough \cup {call[c].e}
      BY <1>4 DEF End, At, stored
  <2> QED
      BY <2>1, SettledGone
<1>6. ASSUME NEW c \in Flying, Throws(c) PROVE SettledOK'
  <2>1. /\ Answer(c) /\ UNCHANGED <<row, index, versions, saves>>
        /\ \/ Unsaved(c) /\ UNCHANGED rough
           \/ rough' = rough \cup {call[c].e}
      BY <1>6 DEF Throws, Written, Unsaved, stored
  <2> QED
      BY <2>1, SettledGone
<1>5. CASE UNCHANGED vars
  <2>1. UNCHANGED <<row, index, versions, call, rough>>
      BY <1>5 DEF vars, stored
  <2> QED
      BY <2>1 DEF SettledOK, Alone, Whole, AtRest, Done, Told, Flying, Unsaved, Indexed, Stored
<1> QED
    BY StepCases, <1>1, <1>2, <1>3, <1>4, <1>5, <1>6, SettledSync, SettledRead, SettledVersion,
       SettledPrune, SettledClose, SettledCrash

-----------------------------------------------------------------------------
(* The inductive invariant. *)
IInv == TypeOK /\ CallsOK /\ SlugsOK /\ HistoryOK /\ PruneOK /\ SettledOK

LEMMA Inductive == Spec => []IInv
<1>1. Init => IInv
  <2>1. Init => PruneOK
      BY DEF Init, PruneOK, Flying
  <2> QED
      BY <2>1, CallsInitially, SlugsInitially, HistoryInitially, SettledInitially DEF IInv
<1>2. IInv /\ [Next]_vars => IInv'
    BY CallsStep, SlugsStep, HistoryStep, PruneStep, SettledStep DEF IInv
<1> QED
    BY <1>1, <1>2, PTL DEF Spec

(* The rows, the index, the versions and the calls keep the shapes create(), *)
(* update() and snapshot() give them.                                        *)
THEOREM TypeCorrect == Spec => []TypeOK
<1>1. IInv => TypeOK
    BY DEF IInv
<1> QED
    BY <1>1, Inductive, PTL

(* However quick-creates interleave, no two of one name make two entries:    *)
(* each looks again under the lock of the name.                              *)
THEOREM OneEntryPerName == Spec => []OnePerName
<1>1. IInv => OnePerName
    BY DEF IInv, SlugsOK
<1> QED
    BY <1>1, Inductive, PTL

(* Two entries come to share a slug only when both calls had checked it      *)
(* before either wrote.                                                      *)
THEOREM SlugsStayUnique == Spec => []SlugsUnique
<1>1. IInv => SlugsUnique
    BY DEF IInv, SlugsOK
<1> QED
    BY <1>1, Inductive, PTL

(* An entry no call is at has the index and the newest version of its body,  *)
(* unless its last saves overlapped or broke off.                            *)
THEOREM AlwaysSettled == Spec => []Settled
<1>1. IInv => Settled
  <2> SUFFICES ASSUME IInv, NEW e \in Entries, row[e] # Null, On(e) = {}, e \notin rough
               PROVE  Told(e)
      BY DEF Settled, Told, Newest
  <2>1. \A c \in Flying : call[c].e # e
      BY DEF On
  <2> QED
      BY <2>1 DEF IInv, SettledOK, AtRest
<1> QED
    BY <1>1, Inductive, PTL

(* Whatever calls store a version at a time, one is pruned only when the     *)
(* retention's worth of newer ones is there, and one that is not an autosave *)
(* is never written over.                                                    *)
THEOREM RecentIsKept == Spec => RecentKept
<1>1. ASSUME IInv, [Next]_vars, NEW e \in Entries PROVE Guarded(e)
    BY <1>1, HistoriesGuarded DEF IInv
<1>2. IInv /\ [Next]_vars =>
        [\A e \in Entries : \A v \in versions[e] :
         LET next == {w \in versions'[e] : w.id = v.id}
         IN  IF next = {} THEN Cardinality({w.n : w \in {x \in versions'[e] : x.n > v.n}}) >= Retention
                         ELSE v.noted => \A w \in next : w.body = v.body]_vars
    BY <1>1 DEF Guarded
<1> QED
    BY <1>2, Inductive, PTL DEF Spec, RecentKept

-----------------------------------------------------------------------------
(* ContentStore: what its actions work with.                                 *)
LEMMA NowIsContents ==
    ASSUME StoreTypeOK
    PROVE  Now \in Contents
BY DEF StoreTypeOK, Now, Contents

LEMMA KeepTypes ==
    ASSUME StoreTypeOK, NEW kind \in {"daily", "manual", "undo"}, Keep(kind)
    PROVE  newest' \in Snapshots /\ backups' \subseteq Snapshots
<1>1. newest' \in Snapshots
    <2>1. now \in 0..MaxDays
        BY DEF StoreTypeOK
    <2> QED
        BY <2>1, NowIsContents DEF Keep, Snapshots
<1> QED
    BY <1>1 DEF StoreTypeOK, Keep, Pruned

LEMMA BinnedIsItem ==
    ASSUME StoreTypeOK, NEW r \in Removals
    PROVE  /\ Binned(r) \in Items
           /\ Binned(r).thing = r.thing /\ Binned(r).versions = r.versions /\ Binned(r).at = now
BY DEF StoreTypeOK, Removals, Items, Binned

LEMMA ItemFields ==
    ASSUME NEW i \in Items
    PROVE  /\ i.thing \in Things /\ i.data \in Edits /\ i.versions \in SUBSET Edits
           /\ i.at \in Nat /\ i.at <= MaxDays
BY DaysAssumption DEF Items

LEMMA AskedTypes ==
    ASSUME StoreTypeOK, Asked
    PROVE  ops' \in 1..MaxOps /\ stops' \in 0..MaxStops
BY DaysAssumption DEF StoreTypeOK, Asked

LEMMA HistoryTypes ==
    ASSUME StoreTypeOK, NEW t \in Things
    PROVE  History(t) \in SUBSET Edits
<1>1. \A i \in bin : i.versions \subseteq Edits
    BY ItemFields DEF StoreTypeOK
<1>2. versionsOf[t] \in SUBSET Edits
    BY DEF StoreTypeOK
<1> QED
    BY <1>1, <1>2 DEF History

LEMMA StoreInitTypes ==
    ASSUME StoreInit
    PROVE  StoreTypeOK
<1>1. 0 \in Edits /\ {0} \in SUBSET Edits /\ {0, 1} \subseteq 0..MaxEdits
    BY EditsAssumption DEF Edits
<1>2. 0 \in 0..MaxDays /\ 0 \in 0..MaxOps /\ 0 \in 0..MaxStops
    BY DaysAssumption
<1>3. data \in [Things -> Edits] /\ written \in [Things -> 0..MaxEdits]
    BY <1>1 DEF StoreInit
<1>4. versionsOf \in [Things -> SUBSET Edits]
    BY <1>1 DEF StoreInit
<1>5. removing \in [Removers -> {None} \cup Removals]
    BY DEF StoreInit
<1> QED
    BY <1>2, <1>3, <1>4, <1>5 DEF StoreInit, StoreTypeOK

LEMMA EditTypes ==
    ASSUME StoreTypeOK, NEW t \in Things, Edit(t)
    PROVE  StoreTypeOK'
<1>1. ops' \in 0..MaxOps /\ stops' \in 0..MaxStops
    BY AskedTypes, DaysAssumption DEF Edit
<1>2. written[t] \in Edits /\ written[t] + 1 \in 0..MaxEdits
    BY EditsAssumption DEF StoreTypeOK, Edit, Edits
<1>3. live' \subseteq Things /\ data' \in [Things -> Edits] /\ written' \in [Things -> 0..MaxEdits]
    BY <1>2 DEF StoreTypeOK, Edit
<1>4. versionsOf' \in [Things -> SUBSET Edits]
    <2>1. versionsOf[t] \cup {written[t]} \in SUBSET Edits
        BY <1>2 DEF StoreTypeOK
    <2> QED
        BY <2>1 DEF StoreTypeOK, Edit
<1>5. files' \subseteq MediaIds
    BY DEF StoreTypeOK, Edit
<1>6. touched' \in BOOLEAN
    BY DEF Edit
<1> QED
    BY <1>1, <1>3, <1>4, <1>5, <1>6
    DEF StoreTypeOK, Edit, snapshots, purge

LEMMA StartRemoveTypes ==
    ASSUME StoreTypeOK, NEW c \in Removers, NEW t \in Things, StartRemove(c, t)
    PROVE  StoreTypeOK'
<1>1. ops' \in 0..MaxOps /\ stops' \in 0..MaxStops
    BY AskedTypes, DaysAssumption DEF StartRemove
<1>2. [no |-> ops', thing |-> t, data |-> data[t], versions |-> versionsOf[t]] \in Removals
    BY AskedTypes DEF StartRemove, StoreTypeOK, Removals
<1>3. removing' \in [Removers -> {None} \cup Removals]
    BY <1>2 DEF StoreTypeOK, StartRemove
<1> QED
    BY <1>1, <1>3 DEF StoreTypeOK, StartRemove, snapshots, purge, workspace, history

LEMMA CommitRemoveTypes ==
    ASSUME StoreTypeOK, NEW c \in Removers, CommitRemove(c)
    PROVE  StoreTypeOK'
<1> DEFINE r == removing[c]
<1>1. r \in Removals /\ r.thing \in Things
    <2>1. r \in Removals
        BY DEF StoreTypeOK, CommitRemove
    <2> QED
        BY <2>1 DEF Removals
<1>2. bin' = bin \cup {Binned(r)} /\ bin' \subseteq Items
    BY <1>1, BinnedIsItem DEF CommitRemove, StoreTypeOK
<1>3. live' \subseteq Things /\ data' \in [Things -> Edits] /\ versionsOf' \in [Things -> SUBSET Edits]
    BY <1>1, EditsAssumption DEF CommitRemove, StoreTypeOK, Edits
<1>4. twice' \subseteq Things /\ cut' \subseteq Things
    BY <1>1 DEF CommitRemove, StoreTypeOK, Twice
<1>5. removing' \in [Removers -> {None} \cup Removals] /\ touched' \in BOOLEAN
    BY DEF CommitRemove, StoreTypeOK
<1> QED
    BY <1>2, <1>3, <1>4, <1>5 DEF CommitRemove, StoreTypeOK, snapshots, purge, bounds

LEMMA RestoreTypes ==
    ASSUME StoreTypeOK, NEW i \in bin, Restore(i)
    PROVE  StoreTypeOK'
<1>1. ops' \in 0..MaxOps /\ stops' \in 0..MaxStops
    BY AskedTypes, DaysAssumption DEF Restore
<1>2. i \in Items /\ i.thing \in Things /\ i.data \in Edits /\ i.versions \in SUBSET Edits
    BY ItemFields DEF StoreTypeOK
<1>3. live' \subseteq Things /\ data' \in [Things -> Edits] /\ versionsOf' \in [Things -> SUBSET Edits]
    BY <1>2 DEF Restore, StoreTypeOK
<1>4. bin' \subseteq Items /\ late' \subseteq Things /\ touched' \in BOOLEAN
    BY <1>2 DEF Restore, StoreTypeOK
<1> QED
    BY <1>1, <1>3, <1>4 DEF Restore, StoreTypeOK, snapshots, purge

LEMMA DailyTypes ==
    ASSUME StoreTypeOK, Daily
    PROVE  StoreTypeOK'
<1>1. newest' \in {None} \cup Snapshots /\ backups' \subseteq Snapshots
    <2>1. CASE newest # None /\ newest.state = Now
        BY <2>1 DEF Daily, Skipped, Pruned, StoreTypeOK
    <2>2. CASE ~(newest # None /\ newest.state = Now)
        BY <2>2, KeepTypes DEF Daily
    <2> QED
        BY <2>1, <2>2
<1>2. checked' \in BOOLEAN
    BY DEF Daily
<1> QED
    BY <1>1, <1>2 DEF Daily, StoreTypeOK, workspace, purge, bounds, history

LEMMA BackupTypes ==
    ASSUME StoreTypeOK, Backup
    PROVE  StoreTypeOK'
<1>1. ops' \in 0..MaxOps /\ stops' \in 0..MaxStops
    BY AskedTypes, DaysAssumption DEF Backup
<1>2. newest' \in {None} \cup Snapshots /\ backups' \subseteq Snapshots
    BY KeepTypes DEF Backup
<1> QED
    BY <1>1, <1>2 DEF Backup, StoreTypeOK, workspace, purge, history

LEMMA StartRollbackTypes ==
    ASSUME StoreTypeOK, NEW b \in backups, StartRollback(b)
    PROVE  StoreTypeOK'
<1>1. ops' \in 1..MaxOps /\ stops' \in 0..MaxStops /\ ops' \in 0..MaxOps
    BY AskedTypes, DaysAssumption DEF StartRollback
<1>2. newest' \in {None} \cup Snapshots /\ backups' \subseteq Snapshots
    BY KeepTypes DEF StartRollback
<1>3. b.state \in Contents
    BY DEF StoreTypeOK, Snapshots
<1>4. rolling' \in {None} \cup [no : 1..MaxOps, state : Contents]
    BY <1>1, <1>3 DEF StartRollback
<1>5. touched' \in BOOLEAN
    BY DEF StartRollback
<1> QED
    BY <1>1, <1>2, <1>4, <1>5 DEF StartRollback, StoreTypeOK, workspace, purge

LEMMA CommitRollbackTypes ==
    ASSUME StoreTypeOK, CommitRollback
    PROVE  StoreTypeOK'
<1> DEFINE then == rolling.state
           newer == (live \ then.things) \cap MediaIds
           Item(m) == [no |-> rolling.no, thing |-> m, data |-> data[m], versions |-> {}, at |-> now]
<1>1. rolling.no \in 1..MaxOps /\ then.things \in SUBSET Things /\ then.data \in [Things -> Edits]
    BY DEF StoreTypeOK, CommitRollback, Contents
<1>2. live' \subseteq Things /\ data' \in [Things -> Edits]
    BY <1>1 DEF CommitRollback
<1>3. versionsOf' \in [Things -> SUBSET Edits]
    <2>1. \A t \in Things : (IF t \in then.things THEN History(t) ELSE {}) \in SUBSET Edits
        BY HistoryTypes
    <2>2. versionsOf' = [t \in Things |-> IF t \in then.things THEN History(t) ELSE {}]
        BY DEF CommitRollback
    <2> HIDE DEF then
    <2> QED
        BY <2>1, <2>2
<1>4. bin' \subseteq Items
    <2>1. \A m \in newer : Item(m) \in Items
        BY <1>1 DEF StoreTypeOK, Items, Things
    <2>2. bin' = {i \in bin : i.thing \notin then.things} \cup {Item(m) : m \in newer}
        BY DEF CommitRollback
    <2> HIDE DEF then, newer, Item
    <2> QED
        BY <2>1, <2>2 DEF StoreTypeOK
<1>5. late' \subseteq Things
    <2>1. \A i \in bin : i.thing \in Things
        BY ItemFields DEF StoreTypeOK
    <2> QED
        BY <2>1 DEF CommitRollback, StoreTypeOK
<1>6. twice' \subseteq Things /\ cut' \subseteq Things
    BY DEF CommitRollback, StoreTypeOK, Twice
<1>7. undo' \in {None} \cup [at : 0..MaxDays, state : Contents]
    BY NowIsContents DEF CommitRollback, StoreTypeOK
<1>8. rolling' = None
    BY DEF CommitRollback
<1> QED
    BY <1>2, <1>3, <1>4, <1>5, <1>6, <1>7, <1>8
    DEF CommitRollback, StoreTypeOK, snapshots, purge, bounds

LEMMA PurgeTypes ==
    ASSUME StoreTypeOK, Purges
    PROVE  StoreTypeOK'
<1>1. CASE StartPurge
    BY <1>1 DEF StartPurge, StoreTypeOK, workspace, snapshots, bounds, history
<1>2. CASE DeleteFile
    <2>1. files' \subseteq MediaIds /\ freed' \in BOOLEAN
        BY <1>2 DEF DeleteFile, StoreTypeOK
    <2> QED
        BY <1>2, <2>1 DEF DeleteFile, StoreTypeOK, workspace, snapshots, bounds, history
<1>3. ASSUME NEW i \in due, Doom(i)
      PROVE  StoreTypeOK'
    <2>1. doomed' \in Items /\ freed' \in BOOLEAN
        BY <1>3 DEF Doom, StoreTypeOK
    <2> QED
        BY <1>3, <2>1 DEF Doom, StoreTypeOK, workspace, snapshots, bounds, history
<1>4. ASSUME NEW i \in due, Unlist(i)
      PROVE  StoreTypeOK'
    <2>1. i.thing \in Things
        BY ItemFields DEF StoreTypeOK
    <2>2. bin' \subseteq Items /\ due' \subseteq Items /\ doomed' = None /\ freed' \in BOOLEAN /\ cut' \subseteq Things
        BY <1>4, <2>1 DEF Unlist, Left, StoreTypeOK
    <2> QED
        BY <1>4, <2>2 DEF Unlist, StoreTypeOK, workspace, snapshots, bounds
<1> QED
    BY <1>1, <1>2, <1>3, <1>4 DEF Purges

LEMMA TickTypes ==
    ASSUME StoreTypeOK, Tick
    PROVE  StoreTypeOK'
<1>1. MaxDays \in Nat
    BY DaysAssumption
<1>2. now \in 0..MaxDays /\ now < MaxDays /\ now' = now + 1
    BY DEF Tick, StoreTypeOK
<1>3. now' \in 0..MaxDays
    BY <1>1, <1>2
<1>4. checked' \in BOOLEAN
    BY DEF Tick
<1> QED
    BY <1>3, <1>4 DEF Tick, StoreTypeOK, workspace, snapshots, purge, bounds, history

LEMMA StopTypes ==
    ASSUME StoreTypeOK, Stop
    PROVE  StoreTypeOK'
<1>1. stops' \in 0..MaxStops
    BY DaysAssumption DEF Stop, StoreTypeOK
<1>2. removing' \in [Removers -> {None} \cup Removals] /\ freed' \in BOOLEAN
    BY DEF Stop
<1> QED
    BY <1>1, <1>2 DEF Stop, StoreTypeOK, workspace, snapshots, history

LEMMA StoreStepTypes ==
    StoreTypeOK /\ [StoreNext]_storeVars => StoreTypeOK'
<1> SUFFICES ASSUME StoreTypeOK, [StoreNext]_storeVars
             PROVE  StoreTypeOK'
    OBVIOUS
<1>1. CASE UNCHANGED storeVars
    BY <1>1 DEF StoreTypeOK, storeVars, workspace, snapshots, purge, bounds, history
<1>2. CASE StoreNext
    BY <1>2, EditTypes, StartRemoveTypes, CommitRemoveTypes, RestoreTypes, DailyTypes, BackupTypes,
       StartRollbackTypes, CommitRollbackTypes, PurgeTypes, TickTypes, StopTypes
    DEF StoreNext
<1> QED
    BY <1>1, <1>2

(* Workspace, bin, snapshots and calls hold values of their types.           *)
THEOREM StoreTypeCorrect == StoreSpec => []StoreTypeOK
<1>1. StoreInit => StoreTypeOK
    BY StoreInitTypes
<1> QED
    BY <1>1, StoreStepTypes, PTL DEF StoreSpec

-----------------------------------------------------------------------------
(* The newest snapshot is never pruned.                                      *)
NewestKept == newest # None => newest \in backups

BInv == StoreTypeOK /\ NewestKept

LEMMA InitNewest == StoreInit => BInv
BY StoreInitTypes DEF StoreInit, BInv, NewestKept

LEMMA KeepNewest ==
    ASSUME NEW kind, Keep(kind)
    PROVE  NewestKept'
BY DEF Keep, Pruned, NewestKept

LEMMA StepNewest == BInv /\ [StoreNext]_storeVars => BInv'
<1> SUFFICES ASSUME BInv, [StoreNext]_storeVars
             PROVE  NewestKept'
    BY StoreStepTypes DEF BInv
<1>1. CASE UNCHANGED snapshots
    BY <1>1 DEF BInv, NewestKept, snapshots
<1>2. CASE UNCHANGED storeVars
    BY <1>1, <1>2 DEF storeVars
<1>3. CASE Daily
    <2>1. CASE newest # None /\ newest.state = Now
        BY <1>3, <2>1 DEF Daily, Skipped, Pruned, NewestKept
    <2>2. CASE ~(newest # None /\ newest.state = Now)
        BY <1>3, <2>2, KeepNewest DEF Daily
    <2> QED
        BY <2>1, <2>2
<1>4. CASE Backup
    BY <1>4, KeepNewest DEF Backup
<1>5. ASSUME NEW b \in backups, StartRollback(b)
      PROVE  NewestKept'
    BY <1>5, KeepNewest DEF StartRollback
<1>6. CASE StoreNext
    BY <1>1, <1>3, <1>4, <1>5, <1>6
    DEF StoreNext, Edit, StartRemove, CommitRemove, Restore, CommitRollback,
        Purges, StartPurge, DeleteFile, Doom, Unlist, Tick, Stop
<1> QED
    BY <1>2, <1>6

-----------------------------------------------------------------------------
(* The versions of an entry are with it: in the table while it is in the     *)
(* workspace, in the payload of its one item while it is in the bin.         *)
Known == {t \in Things : written[t] > 0}

KnownThings ==
    /\ live \subseteq Known
    /\ \A i \in bin : i.thing \in Known
    /\ \A b \in backups : b.state.things \subseteq Known
    /\ rolling # None => rolling.state.things \subseteq Known
    /\ \A c \in Removers : removing[c] # None => removing[c].thing \in Known

BlankUnknown == \A t \in Things \ Known : versionsOf[t] = {}

FullHistory(e) == 0..(written[e] - 1)

VersionsKept ==
    \A e \in EntryIds \ cut :
        /\ e \in live => versionsOf[e] = FullHistory(e)
        /\ \A i \in bin : i.thing = e => i.versions = FullHistory(e) /\ e \notin live
        /\ \A i, j \in bin : i.thing = e /\ j.thing = e => i = j
        /\ e \in Known => e \in live \/ \E i \in bin : i.thing = e

VInv == KnownThings /\ BlankUnknown /\ VersionsKept

LEMMA InitVersions ==
    ASSUME StoreInit
    PROVE  VInv
<1>1. live \subseteq Things /\ Known = live
    BY DEF StoreInit, Known
<1>2. KnownThings
    BY <1>1 DEF StoreInit, KnownThings
<1>3. BlankUnknown
    BY <1>1 DEF StoreInit, BlankUnknown
<1>4. VersionsKept
    <2> SUFFICES ASSUME NEW e \in EntryIds \ cut
                 PROVE  /\ e \in live => versionsOf[e] = FullHistory(e)
                        /\ e \in Known => e \in live
        BY DEF VersionsKept, StoreInit
    <2>1. ASSUME e \in live
          PROVE  versionsOf[e] = {0} /\ written[e] = 1
        BY <1>1, <2>1 DEF StoreInit
    <2>2. 0..(1 - 1) = {0}
        BY SMT
    <2> QED
        BY <1>1, <2>1, <2>2 DEF FullHistory
<1> QED
    BY <1>2, <1>3, <1>4 DEF VInv

(* Nothing becomes unknown again.                                            *)
LEMMA KnownGrows ==
    ASSUME StoreTypeOK, [StoreNext]_storeVars
    PROVE  Known \subseteq Known'
<1>1. CASE written' = written
    BY <1>1 DEF Known
<1>2. ASSUME NEW t \in Things, Edit(t)
      PROVE  Known \subseteq Known'
    BY <1>2, EditsAssumption DEF Known, Edit, StoreTypeOK
<1>3. CASE UNCHANGED storeVars
    BY <1>1, <1>3 DEF storeVars, workspace
<1>4. CASE StoreNext
    BY <1>1, <1>2, <1>4 DEF StoreNext, StartRemove, CommitRemove, Restore, Daily, Backup, StartRollback, CommitRollback,
       Purges, StartPurge, DeleteFile, Doom, Unlist, Tick, Stop, workspace
<1> QED
    BY <1>3, <1>4

(* What is in the workspace, the bin, the snapshots and the calls next was   *)
(* there before, or is written now.                                          *)
LEMMA KnownFrom ==
    ASSUME KnownThings, Known \subseteq Known',
           live' \subseteq Known', \A i \in bin' : i \in bin \/ i.thing \in Known',
           \A b \in backups' : b \in backups \/ b.state.things \subseteq Known',
           rolling' # None => rolling' = rolling \/ rolling'.state.things \subseteq Known',
           \A c \in Removers : removing'[c] # None =>
               removing'[c] = removing[c] \/ removing'[c].thing \in Known'
    PROVE  KnownThings'
BY DEF KnownThings

LEMMA SnapshotsKnown ==
    ASSUME KnownThings, NEW kind, Keep(kind)
    PROVE  \A b \in backups' : b \in backups \/ b.state.things \subseteq Known
BY DEF Keep, Pruned, Now, KnownThings

LEMMA StepKnown ==
    ASSUME BInv, KnownThings, StoreNext
    PROVE  KnownThings'
<1> USE DEF BInv
<1>0. Known \subseteq Known'
    BY KnownGrows
<1>1. ASSUME NEW t \in Things, Edit(t)
      PROVE  KnownThings'
    <2>1. t \in Known'
        BY <1>1, EditsAssumption DEF Edit, Known, StoreTypeOK
    <2> QED
        BY <1>0, <1>1, <2>1, KnownFrom DEF Edit, KnownThings, snapshots
<1>2. ASSUME NEW c \in Removers, NEW t \in Things, StartRemove(c, t)
      PROVE  KnownThings'
    <2>1. \A d \in Removers : removing'[d] # None => removing'[d] = removing[d] \/ removing'[d].thing = t
        BY <1>2 DEF StartRemove, StoreTypeOK
    <2> QED
        BY <1>0, <1>2, <2>1, KnownFrom DEF StartRemove, KnownThings, snapshots, workspace
<1>3. ASSUME NEW c \in Removers, CommitRemove(c)
      PROVE  KnownThings'
    <2>1. removing[c].thing \in Known /\ removing[c] \in Removals
        BY <1>3 DEF CommitRemove, KnownThings, StoreTypeOK
    <2>2. \A i \in bin' : i \in bin \/ i.thing \in Known
        BY <1>3, <2>1, BinnedIsItem DEF CommitRemove
    <2>3. \A d \in Removers : removing'[d] # None => removing'[d] = removing[d]
        BY <1>3 DEF CommitRemove, StoreTypeOK
    <2> QED
        BY <1>0, <1>3, <2>2, <2>3, KnownFrom DEF CommitRemove, KnownThings, snapshots
<1>4. ASSUME NEW i \in bin, Restore(i)
      PROVE  KnownThings'
    BY <1>0, <1>4, KnownFrom DEF Restore, KnownThings, snapshots
<1>5. CASE Daily
    <2>1. \A b \in backups' : b \in backups \/ b.state.things \subseteq Known
        BY <1>5, SnapshotsKnown DEF Daily, Skipped, Pruned, NewestKept
    <2> QED
        BY <1>0, <1>5, <2>1, KnownFrom DEF Daily, KnownThings, workspace
<1>6. CASE Backup
    <2>1. \A b \in backups' : b \in backups \/ b.state.things \subseteq Known
        BY <1>6, SnapshotsKnown DEF Backup
    <2> QED
        BY <1>0, <1>6, <2>1, KnownFrom DEF Backup, KnownThings, workspace
<1>7. ASSUME NEW b \in backups, StartRollback(b)
      PROVE  KnownThings'
    <2>1. \A d \in backups' : d \in backups \/ d.state.things \subseteq Known
        BY <1>7, SnapshotsKnown DEF StartRollback
    <2>2. rolling'.state.things \subseteq Known
        BY <1>7 DEF StartRollback, KnownThings
    <2> QED
        BY <1>0, <1>7, <2>1, <2>2, KnownFrom DEF StartRollback, KnownThings, workspace
<1>8. CASE CommitRollback
    <2>1. \A i \in bin' : i \in bin \/ i.thing \in live
        BY <1>8 DEF CommitRollback
    <2> QED
        BY <1>0, <1>8, <2>1, KnownFrom DEF CommitRollback, KnownThings, snapshots
<1>9. CASE Purges
    BY <1>0, <1>9, KnownFrom
    DEF Purges, StartPurge, DeleteFile, Doom, Unlist, Left, KnownThings, snapshots, workspace
<1>10. CASE Tick \/ Stop
    BY <1>0, <1>10, KnownFrom DEF Tick, Stop, KnownThings, snapshots, workspace
<1> QED
    BY <1>1, <1>2, <1>3, <1>4, <1>5, <1>6, <1>7, <1>8, <1>9, <1>10 DEF StoreNext

(* Versions are only written for what is known.                              *)
LEMMA StepBlank ==
    ASSUME BInv, KnownThings, BlankUnknown, StoreNext
    PROVE  BlankUnknown'
<1> USE DEF BInv
<1>0. Known \subseteq Known'
    BY KnownGrows
<1>1. CASE UNCHANGED versionsOf
    BY <1>0, <1>1 DEF BlankUnknown
<1>2. ASSUME NEW t \in Things, Edit(t)
      PROVE  BlankUnknown'
    <2>1. t \in Known'
        BY <1>2, EditsAssumption DEF Edit, Known, StoreTypeOK
    <2>2. \A u \in Things \ {t} : versionsOf'[u] = versionsOf[u]
        BY <1>2 DEF Edit, StoreTypeOK
    <2> QED
        BY <1>0, <2>1, <2>2 DEF BlankUnknown
<1>3. ASSUME NEW c \in Removers, CommitRemove(c)
      PROVE  BlankUnknown'
    <2>1. \A u \in Things : versionsOf'[u] \in {versionsOf[u], {}}
        BY <1>3 DEF CommitRemove, StoreTypeOK
    <2> QED
        BY <1>0, <2>1 DEF BlankUnknown
<1>4. ASSUME NEW i \in bin, Restore(i)
      PROVE  BlankUnknown'
    <2>1. i.thing \in Known
        BY DEF KnownThings
    <2>2. \A u \in Things \ {i.thing} : versionsOf'[u] = versionsOf[u]
        BY <1>4 DEF Restore, StoreTypeOK
    <2> QED
        BY <1>0, <2>1, <2>2 DEF BlankUnknown
<1>5. CASE CommitRollback
    <2>1. rolling.state.things \subseteq Known
        BY <1>5 DEF CommitRollback, KnownThings
    <2>2. \A u \in Things \ rolling.state.things : versionsOf'[u] = {}
        BY <1>5 DEF CommitRollback
    <2> QED
        BY <1>0, <2>1, <2>2 DEF BlankUnknown
<1> QED
    BY <1>1, <1>2, <1>3, <1>4, <1>5
    DEF StoreNext, StartRemove, Daily, Backup, StartRollback, Purges, StartPurge, DeleteFile, Doom, Unlist,
        Tick, Stop, workspace

(* VersionsKept of one entry, where neither it nor its items change.         *)
EntryKept(e) ==
    /\ e \in live => versionsOf[e] = FullHistory(e)
    /\ \A i \in bin : i.thing = e => i.versions = FullHistory(e) /\ e \notin live
    /\ \A i, j \in bin : i.thing = e /\ j.thing = e => i = j
    /\ e \in Known => e \in live \/ \E i \in bin : i.thing = e

LEMMA EntryAlone ==
    ASSUME NEW e \in EntryIds, EntryKept(e),
           e \in live' <=> e \in live, versionsOf'[e] = versionsOf[e], written'[e] = written[e],
           \A i \in bin' : i.thing = e => i \in bin,
           \A i \in bin : i.thing = e => i \in bin'
    PROVE  EntryKept(e)'
<1>1. FullHistory(e)' = FullHistory(e) /\ (e \in Known' <=> e \in Known)
    BY DEF FullHistory, Known
<1> QED
    BY <1>1 DEF EntryKept

LEMMA EditKept ==
    ASSUME BInv, VInv, NEW t \in Things, Edit(t), NEW e \in EntryIds \ cut
    PROVE  EntryKept(e)'
<1> USE DEF BInv
<1>1. EntryKept(e)
    BY DEF VInv, VersionsKept, EntryKept
<1>2. CASE e # t
    <2>1. versionsOf'[e] = versionsOf[e] /\ written'[e] = written[e]
        BY <1>2 DEF Edit, StoreTypeOK, Things
    <2> QED
        BY <1>1, <1>2, <2>1, EntryAlone DEF Edit
<1>3. CASE e = t
    <2>1. written[e] \in Nat /\ written'[e] = written[e] + 1 /\ versionsOf'[e] = versionsOf[e] \cup {written[e]}
        BY <1>3, EditsAssumption DEF Edit, StoreTypeOK
    <2>2. versionsOf[e] = FullHistory(e)
        <3>1. CASE e \in live
            BY <1>1, <3>1 DEF EntryKept
        <3>2. CASE e \notin live
            <4>1. written[e] = 0
                BY <1>3, <3>2 DEF Edit
            <4>2. versionsOf[e] = {}
                BY <1>3, <4>1 DEF VInv, BlankUnknown, Known
            <4> QED
                BY <4>1, <4>2 DEF FullHistory
        <3> QED
            BY <3>1, <3>2
    <2>3. \A i \in bin : i.thing # e
        <3>1. CASE e \in live
            BY <1>1, <3>1 DEF EntryKept
        <3>2. CASE e \notin live
            BY <1>3, <3>2 DEF Edit, VInv, KnownThings, Known
        <3> QED
            BY <3>1, <3>2
    <2>4. versionsOf'[e] = FullHistory(e)'
        BY <2>1, <2>2 DEF FullHistory
    <2>5. e \in live' /\ bin' = bin
        BY <1>3 DEF Edit
    <2> QED
        BY <2>3, <2>4, <2>5 DEF EntryKept
<1> QED
    BY <1>2, <1>3

LEMMA CommitRemoveKept ==
    ASSUME BInv, VInv, NEW c \in Removers, CommitRemove(c), NEW e \in EntryIds \ cut'
    PROVE  EntryKept(e)'
<1> USE DEF BInv
<1> DEFINE r == removing[c]
           t == r.thing
<1>0. e \notin cut
    BY DEF CommitRemove
<1>1. EntryKept(e)
    BY <1>0 DEF VInv, VersionsKept, EntryKept
<1>2. r \in Removals /\ t \in Things /\ t \in Known
    <2>1. r \in Removals
        BY DEF StoreTypeOK, CommitRemove
    <2> QED
        BY <2>1 DEF Removals, CommitRemove, VInv, KnownThings
<1>3. /\ bin' = bin \cup {Binned(r)} /\ live' = live \ {t} /\ written' = written
      /\ Binned(r).thing = t /\ Binned(r).versions = r.versions
    BY <1>2, BinnedIsItem DEF CommitRemove
<1>4. CASE e # t
    <2>1. versionsOf'[e] = versionsOf[e]
        BY <1>4 DEF CommitRemove, StoreTypeOK, Things
    <2>2. /\ e \in live' <=> e \in live
          /\ \A i \in bin' : i.thing = e => i \in bin
          /\ \A i \in bin : i.thing = e => i \in bin'
        BY <1>3, <1>4
    <2> QED
        BY <1>1, <1>3, <2>1, <2>2, EntryAlone
<1>5. CASE e = t
    <2>1. InBin(t) = {} /\ r.versions = versionsOf[t]
        BY <1>5 DEF CommitRemove
    <2>2. \A i \in bin : i.thing # e
        BY <1>5, <2>1 DEF InBin
    <2>3. e \in live /\ r.versions = FullHistory(e)
        BY <1>1, <1>2, <1>5, <2>1, <2>2 DEF EntryKept
    <2>4. FullHistory(e)' = FullHistory(e)
        BY <1>3 DEF FullHistory
    <2>5. \A i \in bin' : i.thing = e => i = Binned(r)
        BY <1>3, <2>2
    <2>6. Binned(r) \in bin' /\ e \notin live'
        BY <1>3, <1>5
    <2> HIDE DEF r, t
    <2> QED
        BY <1>3, <1>5, <2>3, <2>4, <2>5, <2>6 DEF EntryKept
<1> QED
    BY <1>4, <1>5

LEMMA RestoreKept ==
    ASSUME BInv, VInv, NEW i \in bin, Restore(i), NEW e \in EntryIds \ cut
    PROVE  EntryKept(e)'
<1> USE DEF BInv
<1>1. EntryKept(e)
    BY DEF VInv, VersionsKept, EntryKept
<1>2. bin' = bin \ {i} /\ live' = live \cup {i.thing} /\ written' = written
    BY DEF Restore
<1>3. CASE e # i.thing
    <2>1. versionsOf'[e] = versionsOf[e]
        BY <1>3 DEF Restore, StoreTypeOK, Things
    <2> QED
        BY <1>1, <1>2, <1>3, <2>1, EntryAlone
<1>4. CASE e = i.thing
    <2>1. i.versions = FullHistory(e) /\ \A j \in bin : j.thing = e => j = i
        BY <1>1, <1>4 DEF EntryKept
    <2>2. versionsOf'[e] = i.versions
        BY <1>4 DEF Restore, StoreTypeOK, Things
    <2>3. FullHistory(e)' = FullHistory(e)
        BY <1>2 DEF FullHistory
    <2>4. e \in live' /\ \A j \in bin' : j.thing # e
        BY <1>2, <1>4, <2>1
    <2> QED
        BY <2>1, <2>2, <2>3, <2>4 DEF EntryKept
<1> QED
    BY <1>3, <1>4

LEMMA CommitRollbackKept ==
    ASSUME BInv, VInv, CommitRollback, NEW e \in EntryIds \ cut'
    PROVE  EntryKept(e)'
<1> USE DEF BInv
<1> DEFINE then == rolling.state
           newer == (live \ then.things) \cap MediaIds
           Item(m) == [no |-> rolling.no, thing |-> m, data |-> data[m], versions |-> {}, at |-> now]
<1>0. e \notin cut /\ (e \in live => e \in then.things)
    BY DEF CommitRollback
<1>1. EntryKept(e)
    BY <1>0 DEF VInv, VersionsKept, EntryKept
<1>2. live' = then.things /\ written' = written
    BY DEF CommitRollback
<1>3. \A i \in bin' : i.thing = e => i \in bin /\ e \notin then.things
    <2>1. bin' = {i \in bin : i.thing \notin then.things} \cup {Item(m) : m \in newer}
        BY DEF CommitRollback
    <2>2. \A m \in newer : Item(m).thing # e
        BY KindsAssumption
    <2> HIDE DEF then, newer, Item
    <2> QED
        BY <2>1, <2>2
<1>4. \A i \in bin : i.thing = e /\ e \notin then.things => i \in bin'
    BY DEF CommitRollback
<1>5. FullHistory(e)' = FullHistory(e) /\ (e \in Known' <=> e \in Known)
    BY <1>2 DEF FullHistory, Known
<1>6. CASE e \in then.things
    <2>1. e \in Known
        BY <1>6 DEF CommitRollback, VInv, KnownThings
    <2>2. versionsOf'[e] = History(e)
        BY <1>6 DEF CommitRollback, Things
    <2>3. History(e) = FullHistory(e)
        <3>1. CASE e \in live
            BY <1>1, <3>1 DEF EntryKept, History
        <3>2. CASE e \notin live
            <4>1. PICK i \in bin : i.thing = e
                BY <1>1, <2>1, <3>2 DEF EntryKept
            <4>2. \A j \in bin : j.thing = e => j = i
                BY <1>1, <4>1 DEF EntryKept
            <4>3. {j \in bin : j.thing = e} = {i}
                BY <4>1, <4>2
            <4>4. History(e) = i.versions
                BY <3>2, <4>3 DEF History
            <4> QED
                BY <1>1, <4>1, <4>4 DEF EntryKept
        <3> QED
            BY <3>1, <3>2
    <2>4. \A i \in bin' : i.thing # e
        BY <1>3, <1>6
    <2> HIDE DEF then, newer
    <2> QED
        BY <1>2, <1>5, <1>6, <2>2, <2>3, <2>4 DEF EntryKept
<1>7. CASE e \notin then.things
    <2>1. e \notin live /\ e \notin live'
        BY <1>0, <1>2, <1>7
    <2>2. \A i : i \in bin /\ i.thing = e <=> i \in bin' /\ i.thing = e
        BY <1>3, <1>4, <1>7
    <2> HIDE DEF then, newer
    <2> QED
        BY <1>1, <1>5, <2>1, <2>2 DEF EntryKept
<1> QED
    BY <1>6, <1>7

LEMMA UnlistKept ==
    ASSUME VInv, NEW i \in due, Unlist(i), NEW e \in EntryIds \ cut'
    PROVE  EntryKept(e)'
<1>1. e \notin cut /\ e # i.thing
    BY DEF Unlist
<1>2. EntryKept(e)
    BY <1>1 DEF VInv, VersionsKept, EntryKept
<1>3. bin' = bin \ {i} /\ live' = live /\ versionsOf' = versionsOf /\ written' = written
    BY DEF Unlist, Left, workspace
<1> QED
    BY <1>1, <1>2, <1>3, EntryAlone

LEMMA StepVersions == BInv /\ VInv /\ [StoreNext]_storeVars => VInv'
<1> SUFFICES ASSUME BInv, VInv, [StoreNext]_storeVars
             PROVE  VInv'
    OBVIOUS
<1>1. CASE UNCHANGED storeVars
    BY <1>1 DEF storeVars, workspace, snapshots, history, VInv, KnownThings, BlankUnknown, VersionsKept, Known, FullHistory
<1>2. CASE StoreNext
    <2>1. KnownThings' /\ BlankUnknown'
        BY <1>2, StepKnown, StepBlank DEF VInv
    <2> SUFFICES ASSUME NEW e \in EntryIds \ cut'
                 PROVE  EntryKept(e)'
        BY <2>1 DEF VInv, VersionsKept, EntryKept
    <2>2. CASE UNCHANGED <<workspace, bin, cut>>
        <3>1. EntryKept(e)
            BY <2>2 DEF VInv, VersionsKept, EntryKept
        <3> QED
            BY <2>2, <3>1, EntryAlone DEF workspace
    <2>3. ASSUME NEW t \in Things, Edit(t)
          PROVE  EntryKept(e)'
        BY <2>3, EditKept DEF Edit
    <2>4. ASSUME NEW i \in bin, Restore(i)
          PROVE  EntryKept(e)'
        BY <2>4, RestoreKept DEF Restore
    <2> QED
        BY <1>2, <2>2, <2>3, <2>4, CommitRemoveKept, CommitRollbackKept, UnlistKept
        DEF StoreNext, StartRemove, Daily, Backup, StartRollback, Purges, StartPurge, DeleteFile, Doom,
            Tick, Stop, history
<1> QED
    BY <1>1, <1>2

(* However often an entry is removed, restored and rolled back, by any       *)
(* number of overlapping removals, and wherever they are cut off, in the     *)
(* workspace it has its whole version history, unless that was cut by        *)
(* design.                                                                   *)
THEOREM HistoryStaysWhole == StoreSpec => []HistoryWhole
<1>1. StoreInit => BInv /\ VInv
    BY InitNewest, InitVersions
<1>2. BInv /\ VInv /\ [StoreNext]_storeVars => (BInv /\ VInv)'
    BY StepNewest, StepVersions
<1>3. VInv => HistoryWhole
    BY DEF VInv, VersionsKept, HistoryWhole, FullHistory
<1> QED
    BY <1>1, <1>2, <1>3, PTL DEF StoreSpec

-----------------------------------------------------------------------------
(* A file stays while it may still be asked for: a medium of a kept snapshot *)
(* or of the rollback under way is in the workspace, or in the bin since a   *)
(* day its snapshots are kept longer than; what a removal has read is in the *)
(* workspace, or went into the bin today; what the purge works on is         *)
(* overdue, and the file it is about to delete is nobody's.                  *)
Excused == late \cup twice

Slack == IF checked THEN 0 ELSE 1

Since(m, day) == \E i \in bin : i.thing = m /\ i.at >= day

Held(m, day, slack) ==
    m \in live \/ \E i \in bin : i.thing = m /\ i.at >= day /\ i.at + KeepDays + slack >= now

Wanted(m) == m \in live \/ \E i \in bin : i.thing = m /\ ~Overdue(i)

SnapshotsHeld ==
    \A b \in backups :
        b.at <= now /\ \A m \in b.state.things \cap MediaIds : Held(m, b.at, Slack)

RollbackHeld ==
    rolling # None => \A m \in rolling.state.things \cap MediaIds : Held(m, 0, 1)

RemovalsHeld ==
    \A c \in Removers : removing[c] # None /\ removing[c].thing \in MediaIds =>
        removing[c].thing \in live \/ Since(removing[c].thing, now)

TwiceTold == \A i, j \in bin : i.thing = j.thing /\ i.at # j.at => i.thing \in twice

DueTold == \A i \in due : Overdue(i) /\ (i \in bin \/ i.thing \in late)

DoomedUnwanted ==
    doomed # None =>
        /\ doomed \in due /\ doomed.thing \in MediaIds
        /\ doomed.thing \in Excused \/ ~Wanted(doomed.thing)

WantedStored == \A m \in MediaIds \ Excused : Wanted(m) => m \in files

FInv ==
    /\ SnapshotsHeld /\ RollbackHeld /\ RemovalsHeld
    /\ TwiceTold /\ DueTold /\ DoomedUnwanted /\ WantedStored

LEMMA Days ==
    /\ KeepDays \in Nat /\ BinDays \in Nat /\ KeepDays + 1 < BinDays
    /\ MaxDays \in Nat
BY DaysAssumption, BinOutlivesSnapshots

LEMMA Typed ==
    ASSUME BInv
    PROVE  /\ now \in Nat
           /\ \A i \in bin \cup due : i \in Items /\ i.thing \in Things /\ i.at \in Nat
           /\ \A b \in backups : b.at \in Nat /\ b.state.things \subseteq Things
           /\ doomed # None => doomed \in Items
<1>1. now \in Nat
    BY Days DEF BInv, StoreTypeOK
<1>2. \A i \in bin \cup due : i \in Items /\ i.thing \in Things /\ i.at \in Nat
    BY ItemFields DEF BInv, StoreTypeOK
<1>3. \A b \in backups : b.at \in Nat /\ b.state.things \subseteq Things
    <2>1. ASSUME NEW b \in Snapshots
          PROVE  b.at \in Nat /\ b.state.things \subseteq Things
        BY <2>1, Days DEF Snapshots, Contents
    <2> QED
        BY <2>1 DEF BInv, StoreTypeOK
<1>4. doomed # None => doomed \in Items
    BY DEF BInv, StoreTypeOK
<1> QED
    BY <1>1, <1>2, <1>3, <1>4

LEMMA InitFiles ==
    ASSUME StoreInit
    PROVE  FInv
<1>1. SnapshotsHeld /\ RollbackHeld /\ RemovalsHeld
    BY DEF StoreInit, SnapshotsHeld, RollbackHeld, RemovalsHeld
<1>2. TwiceTold /\ DueTold /\ DoomedUnwanted
    BY DEF StoreInit, TwiceTold, DueTold, DoomedUnwanted
<1>3. WantedStored
    BY DEF StoreInit, WantedStored, Wanted
<1> QED
    BY <1>1, <1>2, <1>3 DEF FInv

(* A young item is not overdue.                                              *)
LEMMA HeldIsWanted ==
    ASSUME BInv, NEW m, NEW day \in Nat, NEW slack \in {0, 1}, Held(m, day, slack)
    PROVE  Wanted(m)
<1>1. \A i \in bin : i.at + KeepDays + slack >= now => ~Overdue(i)
    BY Days, Typed DEF Overdue
<1> QED
    BY <1>1 DEF Held, Wanted

(* How the bin and the workspace change within a day: a medium leaves the    *)
(* workspace only for the bin, and an item that is not overdue leaves the    *)
(* bin only for the workspace.                                               *)
MediumMoves(m) ==
    /\ m \in live => m \in live' \/ \E i \in bin' : i.thing = m /\ i.at = now
    /\ \A i \in bin : i.thing = m /\ ~Overdue(i) => i \in bin' \/ m \in live'

LEMMA MediaMove ==
    ASSUME BInv, DueTold, StoreNext, NEW m \in MediaIds
    PROVE  MediumMoves(m)
<1> USE DEF BInv
<1>1. CASE UNCHANGED <<live, bin>>
    BY <1>1 DEF MediumMoves
<1>2. ASSUME NEW t \in Things, Edit(t)
      PROVE  MediumMoves(m)
    BY <1>2 DEF Edit, MediumMoves
<1>3. ASSUME NEW c \in Removers, CommitRemove(c)
      PROVE  MediumMoves(m)
    <2>1. removing[c] \in Removals
        BY <1>3 DEF CommitRemove, StoreTypeOK
    <2>2. /\ bin' = bin \cup {Binned(removing[c])} /\ live' = live \ {removing[c].thing}
          /\ Binned(removing[c]).thing = removing[c].thing /\ Binned(removing[c]).at = now
        BY <1>3, <2>1, BinnedIsItem DEF CommitRemove
    <2> QED
        BY <2>2 DEF MediumMoves
<1>4. ASSUME NEW i \in bin, Restore(i)
      PROVE  MediumMoves(m)
    BY <1>4 DEF Restore, MediumMoves
<1>5. CASE CommitRollback
    <2> DEFINE then == rolling.state
               newer == (live \ then.things) \cap MediaIds
               Item(n) == [no |-> rolling.no, thing |-> n, data |-> data[n], versions |-> {}, at |-> now]
    <2>1. /\ live' = then.things
          /\ bin' = {i \in bin : i.thing \notin then.things} \cup {Item(n) : n \in newer}
        BY <1>5 DEF CommitRollback
    <2>2. \A n \in newer : Item(n) \in bin' /\ Item(n).thing = n /\ Item(n).at = now
        BY <2>1
    <2>3. m \in live /\ m \notin then.things => m \in newer
        OBVIOUS
    <2> HIDE DEF then, newer, Item
    <2>4. \A i \in bin : i \in bin' \/ i.thing \in then.things
        BY <2>1
    <2> QED
        BY <2>1, <2>2, <2>3, <2>4 DEF MediumMoves
<1>6. ASSUME NEW i \in due, Unlist(i)
      PROVE  MediumMoves(m)
    BY <1>6 DEF Unlist, Left, MediumMoves, DueTold, workspace
<1> QED
    BY <1>1, <1>2, <1>3, <1>4, <1>5, <1>6
    DEF StoreNext, StartRemove, Daily, Backup, StartRollback, Purges, StartPurge, DeleteFile, Doom, Tick, Stop,
        workspace

LEMMA HeldStays ==
    ASSUME BInv, DueTold, StoreNext, now' = now, NEW m \in MediaIds, NEW day \in Nat, day <= now,
           NEW slack \in {0, 1}, Held(m, day, slack)
    PROVE  m \in live' \/ \E i \in bin' : i.thing = m /\ i.at >= day /\ i.at + KeepDays + slack >= now'
<1>1. MediumMoves(m)
    BY MediaMove
<1>2. CASE m \in live
    <2>1. \A i \in bin' : i.at = now => i.at >= day /\ i.at + KeepDays + slack >= now'
        BY Days, Typed
    <2> QED
        BY <1>1, <1>2, <2>1 DEF MediumMoves
<1>3. CASE m \notin live
    <2>1. PICK i \in bin : i.thing = m /\ i.at >= day /\ i.at + KeepDays + slack >= now
        BY <1>3 DEF Held
    <2>2. ~Overdue(i)
        BY <2>1, Days, Typed DEF Overdue
    <2> QED
        BY <1>1, <2>1, <2>2 DEF MediumMoves
<1> QED
    BY <1>2, <1>3

LEMMA TodayStays ==
    ASSUME BInv, DueTold, StoreNext, now' = now, NEW m \in MediaIds, m \in live \/ Since(m, now)
    PROVE  m \in live' \/ \E i \in bin' : i.thing = m /\ i.at >= now'
<1>1. MediumMoves(m)
    BY MediaMove
<1>2. CASE m \in live
    <2>1. \A i \in bin' : i.at = now => i.at >= now'
        BY Typed
    <2> QED
        BY <1>1, <1>2, <2>1 DEF MediumMoves
<1>3. CASE m \notin live
    <2>1. PICK i \in bin : i.thing = m /\ i.at >= now
        BY <1>3 DEF Since
    <2>2. ~Overdue(i)
        BY <2>1, Days, Typed DEF Overdue
    <2> QED
        BY <1>1, <2>1, <2>2 DEF MediumMoves
<1> QED
    BY <1>2, <1>3

LEMMA SnapshotsStayHeld ==
    ASSUME BInv, FInv, StoreNext
    PROVE  SnapshotsHeld'
<1> USE DEF BInv
<1>1. CASE Tick
    <2> SUFFICES ASSUME NEW b \in backups
                 PROVE  /\ b.at <= now'
                        /\ \A m \in b.state.things \cap MediaIds : Held(m, b.at, Slack)'
        BY <1>1 DEF Tick, snapshots, SnapshotsHeld
    <2>1. b.at <= now /\ \A m \in b.state.things \cap MediaIds : Held(m, b.at, Slack)
        BY DEF FInv, SnapshotsHeld
    <2>2. live' = live /\ bin' = bin /\ now' = now + 1 /\ Slack = 0 /\ Slack' = 1
        BY <1>1 DEF Tick, workspace, Slack
    <2>3. \A i \in bin : i.at + KeepDays + 0 >= now => i.at + KeepDays + 1 >= now + 1
        BY Days, Typed
    <2>4. \A m : Held(m, b.at, Slack) => Held(m, b.at, Slack)'
        BY <2>2, <2>3 DEF Held
    <2> QED
        BY <2>1, <2>2, <2>4, Typed
<1>2. CASE ~Tick
    <2>1. now' = now
        BY <1>2 DEF StoreNext, Edit, StartRemove, CommitRemove, Restore, Daily, Backup, StartRollback, CommitRollback,
           Purges, StartPurge, DeleteFile, Doom, Unlist, Stop
    <2> SUFFICES ASSUME NEW b \in backups'
                 PROVE  /\ b.at <= now
                        /\ \A m \in b.state.things \cap MediaIds : Held(m, b.at, Slack)'
        BY <2>1 DEF SnapshotsHeld
    <2>2. ASSUME b \in backups, Slack' = Slack
          PROVE  /\ b.at <= now
                 /\ \A m \in b.state.things \cap MediaIds : Held(m, b.at, Slack)'
        <3>1. b.at <= now /\ b.at \in Nat /\ \A m \in b.state.things \cap MediaIds : Held(m, b.at, Slack)
            BY <2>2, Typed DEF FInv, SnapshotsHeld
        <3>2. Slack \in {0, 1}
            BY DEF Slack
        <3> SUFFICES ASSUME NEW m \in b.state.things \cap MediaIds
                     PROVE  Held(m, b.at, Slack)'
            BY <3>1
        <3>3. m \in MediaIds /\ Held(m, b.at, Slack) /\ DueTold
            BY <3>1 DEF FInv
        <3>4. m \in live' \/ \E i \in bin' : i.thing = m /\ i.at >= b.at /\ i.at + KeepDays + Slack >= now'
            BY <2>1, <3>1, <3>2, <3>3, HeldStays
        <3> QED
            BY <2>2, <3>4 DEF Held
    <2>3. ASSUME b.at = now, b.state = Now, live' = live
          PROVE  /\ b.at <= now
                 /\ \A m \in b.state.things \cap MediaIds : Held(m, b.at, Slack)'
        BY <2>3, Typed DEF Now, Held
    <2>4. ASSUME NEW kind, Keep(kind)
          PROVE  \/ b \in backups /\ b.at + KeepDays >= now
                 \/ b.at = now /\ b.state = Now
        BY <2>4 DEF Keep, Pruned
    <2>5. CASE Backup \/ \E d \in backups : StartRollback(d)
        <3>1. (\E kind : Keep(kind)) /\ live' = live /\ Slack' = Slack
            BY <2>5 DEF Backup, StartRollback, workspace, Slack
        <3> QED
            BY <2>2, <2>3, <2>4, <3>1
    <2>6. CASE Daily
        <3>1. live' = live /\ bin' = bin /\ Slack' = 0
            BY <2>6 DEF Daily, workspace, Slack
        <3>2. CASE b.state = Now
            <4>1. b \in backups \/ b.at = now
                BY <2>4, <2>6 DEF Daily, Skipped, Pruned, NewestKept
            <4>2. b.at <= now
                BY <4>1, Typed DEF FInv, SnapshotsHeld
            <4> QED
                BY <3>1, <3>2, <4>2 DEF Now, Held
        <3>3. CASE b.state # Now
            <4>1. b \in backups /\ b.at + KeepDays >= now
                BY <2>4, <2>6, <3>3 DEF Daily, Skipped, Pruned
            <4>2. b.at <= now /\ b.at \in Nat /\ \A m \in b.state.things \cap MediaIds : Held(m, b.at, Slack)
                BY <4>1, Typed DEF FInv, SnapshotsHeld
            <4>3. \A i \in bin : i.at >= b.at => i.at + KeepDays + 0 >= now
                BY <4>1, <4>2, Days, Typed
            <4>4. \A m : Held(m, b.at, Slack) => Held(m, b.at, Slack)'
                BY <2>1, <3>1, <4>3 DEF Held
            <4> QED
                BY <4>2, <4>4
        <3> QED
            BY <3>2, <3>3
    <2>7. CASE UNCHANGED <<snapshots, checked>>
        BY <2>2, <2>7 DEF snapshots, Slack
    <2> QED
        BY <1>2, <2>5, <2>6, <2>7
        DEF StoreNext, Edit, StartRemove, CommitRemove, Restore, CommitRollback,
            Purges, StartPurge, DeleteFile, Doom, Unlist, Stop
<1> QED
    BY <1>1, <1>2

LEMMA RollbackStaysHeld ==
    ASSUME BInv, FInv, StoreNext
    PROVE  RollbackHeld'
<1> USE DEF BInv
<1>1. ASSUME NEW b \in backups, StartRollback(b)
      PROVE  RollbackHeld'
    <2>1. rolling'.state = b.state /\ live' = live /\ bin' = bin /\ now' = now
        BY <1>1 DEF StartRollback, workspace
    <2>2. b.at \in Nat /\ \A m \in b.state.things \cap MediaIds : Held(m, b.at, Slack)
        BY Typed DEF FInv, SnapshotsHeld
    <2>3. \A i \in bin : i.at + KeepDays + Slack >= now => i.at >= 0 /\ i.at + KeepDays + 1 >= now
        BY Days, Typed DEF Slack
    <2>4. \A m : Held(m, b.at, Slack) => Held(m, 0, 1)'
        BY <2>1, <2>3 DEF Held
    <2> QED
        BY <2>1, <2>2, <2>4 DEF RollbackHeld
<1>2. ASSUME now' = now, rolling' = rolling
      PROVE  RollbackHeld'
    <2> SUFFICES ASSUME rolling # None, NEW m \in rolling.state.things \cap MediaIds
                 PROVE  Held(m, 0, 1)'
        BY <1>2 DEF RollbackHeld
    <2>1. Held(m, 0, 1)
        BY DEF FInv, RollbackHeld
    <2>2. m \in live' \/ \E i \in bin' : i.thing = m /\ i.at >= 0 /\ i.at + KeepDays + 1 >= now'
        BY <1>2, <2>1, HeldStays, Typed DEF FInv
    <2> QED
        BY <2>2 DEF Held
<1>3. CASE rolling' = None
    BY <1>3 DEF RollbackHeld
<1> QED
    BY <1>1, <1>2, <1>3
    DEF StoreNext, Edit, StartRemove, CommitRemove, Restore, Daily, Backup, CommitRollback,
        Purges, StartPurge, DeleteFile, Doom, Unlist, Tick, Stop

LEMMA RemovalsStayHeld ==
    ASSUME BInv, FInv, StoreNext
    PROVE  RemovalsHeld'
<1> USE DEF BInv
<1> SUFFICES ASSUME NEW d \in Removers, removing'[d] # None, removing'[d].thing \in MediaIds
             PROVE  removing'[d].thing \in live' \/ Since(removing[d].thing, now)'
    BY DEF RemovalsHeld
<1>1. ASSUME NEW c \in Removers, NEW t \in Things, StartRemove(c, t), d = c
      PROVE  removing'[d].thing \in live'
    BY <1>1 DEF StartRemove, StoreTypeOK, workspace
<1>2. ASSUME now' = now, removing'[d] = removing[d]
      PROVE  removing'[d].thing \in live' \/ Since(removing[d].thing, now)'
    <2> DEFINE m == removing[d].thing
    <2>1. m \in MediaIds /\ (m \in live \/ Since(m, now))
        BY <1>2 DEF FInv, RemovalsHeld
    <2> HIDE DEF m
    <2>2. m \in live' \/ \E i \in bin' : i.thing = m /\ i.at >= now'
        BY <1>2, <2>1, TodayStays DEF FInv
    <2> QED
        BY <1>2, <2>2 DEF Since, m
<1>3. ASSUME NEW c \in Removers, NEW t \in Things, StartRemove(c, t), d # c
      PROVE  now' = now /\ removing'[d] = removing[d]
    BY <1>3 DEF StartRemove, StoreTypeOK
<1>4. ASSUME NEW c \in Removers, CommitRemove(c)
      PROVE  now' = now /\ removing'[d] = removing[d]
    BY <1>4 DEF CommitRemove, StoreTypeOK
<1>5. ~Tick /\ ~Stop
    BY DEF Tick, Stop
<1> QED
    BY <1>1, <1>2, <1>3, <1>4, <1>5
    DEF StoreNext, Edit, Restore, Daily, Backup, StartRollback, CommitRollback,
        Purges, StartPurge, DeleteFile, Doom, Unlist

LEMMA TwiceIsTold ==
    ASSUME BInv, FInv, StoreNext
    PROVE  TwiceTold'
<1> USE DEF BInv
<1>0. TwiceTold
    BY DEF FInv
<1>1. ASSUME bin' \subseteq bin, twice' = twice
      PROVE  TwiceTold'
    BY <1>0, <1>1 DEF TwiceTold
<1>2. ASSUME NEW new, NEW things, bin' \subseteq bin \cup new, twice' = Twice(things),
             \A i \in new : i.at = now /\ i.thing \in things
      PROVE  TwiceTold'
    <2> SUFFICES ASSUME NEW i \in bin', NEW j \in bin', i.thing = j.thing, i.at # j.at
                 PROVE  i.thing \in twice'
        BY DEF TwiceTold
    <2>1. twice \subseteq twice'
        BY <1>2 DEF Twice
    <2>2. ASSUME NEW k \in bin, k.at # now, k.thing \in things
          PROVE  k.thing \in twice'
        BY <1>2, <2>2 DEF Twice, InBin
    <2>3. CASE i \in bin /\ j \in bin
        BY <1>0, <2>1, <2>3 DEF TwiceTold
    <2>4. CASE i \in new /\ j \in bin
        BY <1>2, <2>2, <2>4
    <2>5. CASE i \in bin /\ j \in new
        BY <1>2, <2>2, <2>5
    <2>6. CASE i \in new /\ j \in new
        BY <1>2, <2>6
    <2> QED
        BY <1>2, <2>3, <2>4, <2>5, <2>6
<1>3. ASSUME NEW c \in Removers, CommitRemove(c)
      PROVE  TwiceTold'
    <2>1. removing[c] \in Removals
        BY <1>3 DEF CommitRemove, StoreTypeOK
    <2>2. \A i \in {Binned(removing[c])} : i.at = now /\ i.thing \in {removing[c].thing}
        BY <2>1, BinnedIsItem
    <2>3. bin' \subseteq bin \cup {Binned(removing[c])} /\ twice' = Twice({removing[c].thing})
        BY <1>3 DEF CommitRemove
    <2> QED
        BY <1>2, <2>2, <2>3
<1>4. CASE CommitRollback
    <2> DEFINE newer == (live \ rolling.state.things) \cap MediaIds
               new == {[no |-> rolling.no, thing |-> m, data |-> data[m], versions |-> {}, at |-> now] : m \in newer}
    <2>1. \A i \in new : i.at = now /\ i.thing \in newer
        OBVIOUS
    <2>2. bin' \subseteq bin \cup new /\ twice' = Twice(newer)
        BY <1>4 DEF CommitRollback
    <2> HIDE DEF newer, new
    <2> QED
        BY <1>2, <2>1, <2>2
<1> QED
    BY <1>1, <1>3, <1>4
    DEF StoreNext, Edit, StartRemove, Restore, Daily, Backup, StartRollback,
        Purges, StartPurge, DeleteFile, Doom, Unlist, Left, Tick, Stop, history

(* An overdue item leaves the bin with the purge, or the thing comes back    *)
(* late.                                                                     *)
LEMMA OverdueLeaves ==
    ASSUME BInv, StoreNext, NEW i \in bin, Overdue(i), ~Unlist(i)
    PROVE  i \in bin' \/ i.thing \in late'
<1>1. ASSUME NEW j \in due, Unlist(j)
      PROVE  i \in bin'
    BY <1>1 DEF Unlist, Left
<1>2. ASSUME NEW j \in bin, Restore(j)
      PROVE  i \in bin' \/ i.thing \in late'
    BY <1>2 DEF Restore
<1>3. CASE CommitRollback
    BY <1>3 DEF CommitRollback
<1>4. ASSUME NEW c \in Removers, CommitRemove(c)
      PROVE  i \in bin'
    BY <1>4 DEF CommitRemove
<1> QED
    BY <1>1, <1>2, <1>3, <1>4
    DEF StoreNext, Edit, StartRemove, Daily, Backup, StartRollback,
        Purges, StartPurge, DeleteFile, Doom, Tick, Stop

LEMMA LateGrows ==
    ASSUME StoreNext
    PROVE  late \subseteq late' /\ twice \subseteq twice'
BY DEF StoreNext, Edit, StartRemove, CommitRemove, Restore, Daily, Backup, StartRollback, CommitRollback,
   Purges, StartPurge, DeleteFile, Doom, Unlist, Tick, Stop, Twice, history

LEMMA OverdueStays ==
    ASSUME BInv, StoreNext, NEW i \in Items, Overdue(i)
    PROVE  Overdue(i)'
<1>1. now' \in {now, now + 1}
    BY DEF StoreNext, Edit, StartRemove, CommitRemove, Restore, Daily, Backup, StartRollback, CommitRollback,
       Purges, StartPurge, DeleteFile, Doom, Unlist, Tick, Stop
<1>2. i.at \in Nat
    BY ItemFields
<1> QED
    BY <1>1, <1>2, Typed, Days DEF Overdue

LEMMA DueIsTold ==
    ASSUME BInv, FInv, StoreNext
    PROVE  DueTold'
<1>0. \A i \in due : Overdue(i) /\ (i \in bin \/ i.thing \in late)
    BY DEF FInv, DueTold
<1>1. CASE StartPurge
    BY <1>1 DEF StartPurge, DueTold, Overdue
<1>2. ASSUME NEW i \in due', i \in due, ~Unlist(i)
      PROVE  Overdue(i)' /\ (i \in bin' \/ i.thing \in late')
    <2>1. Overdue(i)'
        BY <1>0, <1>2, OverdueStays, Typed
    <2>2. i \in bin' \/ i.thing \in late'
        BY <1>0, <1>2, OverdueLeaves, LateGrows
    <2> QED
        BY <2>1, <2>2
<1>3. ~StartPurge => due' \subseteq due
    BY DEF StoreNext, Edit, StartRemove, CommitRemove, Restore, Daily, Backup, StartRollback, CommitRollback,
       Purges, DeleteFile, Doom, Unlist, Tick, Stop, purge
<1>4. ASSUME NEW i, Unlist(i)
      PROVE  i \notin due'
    BY <1>4 DEF Unlist
<1> QED
    BY <1>1, <1>2, <1>3, <1>4 DEF DueTold

(* What is asked for was asked for before, or is new, or came back late or   *)
(* was removed twice.                                                        *)
LEMMA WantedFrom ==
    ASSUME BInv, VInv, FInv, StoreNext, NEW m \in MediaIds, Wanted(m)', m \notin Excused'
    PROVE  Wanted(m) \/ (m \notin Known /\ m \in files')
<1> USE DEF BInv
<1>0. m \notin Excused
    BY LateGrows DEF Excused
<1>1. CASE UNCHANGED <<live, bin>>
    <2>1. \A i \in bin : Overdue(i) => Overdue(i)'
        BY OverdueStays, Typed
    <2> QED
        BY <1>1, <2>1 DEF Wanted
<1>2. ASSUME NEW t \in Things, Edit(t)
      PROVE  Wanted(m) \/ (m \notin Known /\ m \in files')
    <2>1. CASE m = t /\ m \notin live
        <3>1. written[m] = 0 /\ m \in files'
            BY <1>2, <2>1 DEF Edit
        <3> QED
            BY <3>1 DEF Known
    <2>2. CASE ~(m = t /\ m \notin live)
        BY <1>2, <2>2 DEF Edit, Wanted, Overdue
    <2> QED
        BY <2>1, <2>2
<1>3. ASSUME NEW c \in Removers, CommitRemove(c)
      PROVE  Wanted(m)
    <2>1. removing[c] \in Removals
        BY <1>3 DEF CommitRemove, StoreTypeOK
    <2>2. /\ bin' = bin \cup {Binned(removing[c])} /\ live' \subseteq live /\ now' = now
          /\ Binned(removing[c]).thing = removing[c].thing
        BY <1>3, <2>1, BinnedIsItem DEF CommitRemove
    <2>3. CASE m = removing[c].thing
        <3>1. m \in live \/ Since(m, now)
            BY <1>3, <2>3 DEF CommitRemove, FInv, RemovalsHeld
        <3>2. \A i \in bin : i.at >= now => ~Overdue(i)
            BY Days, Typed DEF Overdue
        <3> QED
            BY <3>1, <3>2 DEF Since, Wanted
    <2>4. CASE m # removing[c].thing
        BY <2>2, <2>4 DEF Wanted, Overdue
    <2> QED
        BY <2>3, <2>4
<1>4. ASSUME NEW i \in bin, Restore(i)
      PROVE  Wanted(m)
    <2>1. bin' \subseteq bin /\ now' = now /\ live' = live \cup {i.thing}
        BY <1>4 DEF Restore
    <2>2. CASE m = i.thing
        <3>1. ~Overdue(i)
            BY <1>4, <2>2 DEF Restore, Excused
        <3> QED
            BY <2>2, <3>1 DEF Wanted
    <2>3. CASE m # i.thing
        BY <2>1, <2>3 DEF Wanted, Overdue
    <2> QED
        BY <2>2, <2>3
<1>5. CASE CommitRollback
    <2> DEFINE then == rolling.state
               newer == (live \ then.things) \cap MediaIds
               new == {[no |-> rolling.no, thing |-> n, data |-> data[n], versions |-> {}, at |-> now] : n \in newer}
    <2>1. /\ live' = then.things /\ now' = now /\ bin' \subseteq bin \cup new
          /\ \A i \in new : i.thing \in live
        BY <1>5 DEF CommitRollback
    <2>2. CASE m \in then.things
        <3>1. Held(m, 0, 1)
            BY <1>5, <2>2 DEF CommitRollback, FInv, RollbackHeld
        <3> QED
            BY <3>1, HeldIsWanted
    <2>3. CASE m \notin then.things
        <3> HIDE DEF then, newer, new
        <3> QED
            BY <2>1, <2>3 DEF Wanted, Overdue
    <2> QED
        BY <2>2, <2>3
<1>6. ASSUME NEW i \in due, Unlist(i)
      PROVE  Wanted(m)
    BY <1>6 DEF Unlist, Left, workspace, Wanted, Overdue
<1> QED
    BY <1>1, <1>2, <1>3, <1>4, <1>5, <1>6
    DEF StoreNext, StartRemove, Daily, Backup, StartRollback, Purges, StartPurge, DeleteFile, Doom, Tick, Stop,
        workspace

LEMMA DoomedStaysUnwanted ==
    ASSUME BInv, VInv, FInv, StoreNext
    PROVE  DoomedUnwanted'
<1> USE DEF BInv
<1>1. ASSUME NEW i \in due, Doom(i)
      PROVE  DoomedUnwanted'
    <2>1. doomed' = i /\ due' = due /\ i.thing \in MediaIds /\ i.thing \notin live
        BY <1>1 DEF Doom, Shared
    <2>2. UNCHANGED <<live, bin, now, late, twice>>
        BY <1>1 DEF Doom, workspace, history
    <2>3. ASSUME i.thing \notin Excused
          PROVE  ~Wanted(i.thing)
        <3>1. i \in bin /\ Overdue(i)
            BY <2>3 DEF FInv, DueTold, Excused
        <3>2. ASSUME NEW j \in bin, j.thing = i.thing
              PROVE  j.at = i.at
            BY <2>3, <3>1, <3>2 DEF FInv, TwiceTold, Excused
        <3>3. \A j \in bin : j.thing = i.thing => Overdue(j)
            BY <3>1, <3>2 DEF Overdue
        <3> QED
            BY <2>1, <3>3 DEF Wanted
    <2> QED
        BY <2>1, <2>2, <2>3 DEF DoomedUnwanted, Wanted, Excused, Overdue
<1>2. ASSUME doomed' = doomed, due' = due \/ doomed = None
      PROVE  DoomedUnwanted'
    <2> SUFFICES ASSUME doomed # None
                 PROVE  /\ doomed \in due' /\ doomed.thing \in MediaIds
                        /\ doomed.thing \in Excused' \/ ~Wanted(doomed.thing)'
        BY <1>2 DEF DoomedUnwanted
    <2>1. /\ doomed \in due /\ doomed.thing \in MediaIds
          /\ doomed.thing \in Excused \/ ~Wanted(doomed.thing)
        BY DEF FInv, DoomedUnwanted
    <2>2. ASSUME doomed.thing \notin Excused', Wanted(doomed.thing)'
          PROVE  FALSE
        <3>1. doomed.thing \notin Excused
            BY <2>2, LateGrows DEF Excused
        <3>2. doomed \in bin
            BY <2>1, <3>1 DEF FInv, DueTold, Excused
        <3>3. doomed.thing \in Known
            BY <3>2 DEF VInv, KnownThings
        <3>4. PICK m : m = doomed.thing
            OBVIOUS
        <3>5. m \in MediaIds /\ Wanted(m)' /\ m \notin Excused' /\ m \in Known /\ ~Wanted(m)
            BY <1>2, <2>1, <2>2, <3>1, <3>3, <3>4 DEF Wanted
        <3> QED
            BY <3>5, WantedFrom
    <2> QED
        BY <1>2, <2>1, <2>2
<1>3. CASE doomed' = None
    BY <1>3 DEF DoomedUnwanted
<1>4. ASSUME StartPurge
      PROVE  doomed' = doomed /\ doomed = None
    BY <1>4 DEF StartPurge, FInv, DoomedUnwanted
<1> QED
    BY <1>1, <1>2, <1>3, <1>4
    DEF StoreNext, Edit, StartRemove, CommitRemove, Restore, Daily, Backup, StartRollback, CommitRollback,
        Purges, DeleteFile, Unlist, Tick, Stop, purge

LEMMA WantedStaysStored ==
    ASSUME BInv, VInv, FInv, StoreNext
    PROVE  WantedStored'
<1> SUFFICES ASSUME NEW m \in MediaIds, m \notin Excused', Wanted(m)'
             PROVE  m \in files'
    BY DEF WantedStored
<1>1. m \notin Excused
    BY LateGrows DEF Excused
<1>2. CASE ~Wanted(m)
    BY <1>2, WantedFrom
<1>3. CASE Wanted(m)
    <2>1. m \in files
        BY <1>1, <1>3 DEF FInv, WantedStored
    <2>2. CASE DeleteFile
        <3>1. doomed.thing # m
            BY <1>1, <1>3, <2>2 DEF DeleteFile, FInv, DoomedUnwanted
        <3> QED
            BY <2>1, <2>2, <3>1 DEF DeleteFile
    <2>3. ~DeleteFile => files \subseteq files'
        BY DEF StoreNext, Edit, StartRemove, CommitRemove, Restore, Daily, Backup, StartRollback, CommitRollback,
           Purges, StartPurge, Doom, Unlist, Tick, Stop
    <2> QED
        BY <2>1, <2>2, <2>3
<1> QED
    BY <1>2, <1>3

LEMMA StepFiles == BInv /\ VInv /\ FInv /\ [StoreNext]_storeVars => FInv'
<1> SUFFICES ASSUME BInv, VInv, FInv, [StoreNext]_storeVars
             PROVE  FInv'
    OBVIOUS
<1>1. CASE StoreNext
    BY <1>1, SnapshotsStayHeld, RollbackStaysHeld, RemovalsStayHeld, TwiceIsTold, DueIsTold,
       DoomedStaysUnwanted, WantedStaysStored
    DEF FInv
<1>2. CASE UNCHANGED storeVars
    <2>1. UNCHANGED <<now, live, files, bin, backups, removing, rolling, due, doomed, checked, late, twice>>
        BY <1>2 DEF storeVars, workspace, snapshots, purge, history
    <2>2. SnapshotsHeld' = SnapshotsHeld /\ RollbackHeld' = RollbackHeld /\ RemovalsHeld' = RemovalsHeld
        BY <2>1 DEF SnapshotsHeld, RollbackHeld, RemovalsHeld, Held, Slack, Since
    <2>3. TwiceTold' = TwiceTold /\ DueTold' = DueTold
        BY <2>1 DEF TwiceTold, DueTold, Overdue
    <2>4. DoomedUnwanted' = DoomedUnwanted /\ WantedStored' = WantedStored
        BY <2>1 DEF DoomedUnwanted, WantedStored, Wanted, Excused, Overdue
    <2> QED
        BY <2>2, <2>3, <2>4 DEF FInv
<1> QED
    BY <1>1, <1>2

(* The files of kept snapshots are among those that may still be asked for.  *)
LEMMA FilesFollow ==
    ASSUME BInv, FInv
    PROVE  KeptThirtyDays /\ KeptSnapshotsStored
<1>1. KeptThirtyDays
    BY DEF FInv, WantedStored, Wanted, Excused, KeptThirtyDays
<1>2. KeptSnapshotsStored
    <2> SUFFICES ASSUME NEW b \in backups, NEW m \in b.state.things \cap MediaIds, m \notin late \cup twice
                 PROVE  m \in files
        BY DEF KeptSnapshotsStored
    <2>1. Held(m, b.at, Slack) /\ b.at \in Nat /\ Slack \in {0, 1}
        BY Typed DEF FInv, SnapshotsHeld, Slack
    <2>2. Wanted(m)
        BY <2>1, HeldIsWanted
    <2> QED
        BY <2>2 DEF FInv, WantedStored, Excused
<1> QED
    BY <1>1, <1>2

LEMMA FilesInvariant == StoreSpec => [](BInv /\ FInv)
<1>1. StoreInit => BInv /\ VInv /\ FInv
    BY InitNewest, InitVersions, InitFiles
<1>2. BInv /\ VInv /\ FInv /\ [StoreNext]_storeVars => (BInv /\ VInv /\ FInv)'
    BY StepNewest, StepVersions, StepFiles
<1> QED
    BY <1>1, <1>2, PTL DEF StoreSpec

(* A file in the library, or in the bin for less than its 30 days, is in     *)
(* storage, for any number of overlapping removals, purges and rollbacks,    *)
(* however often the process stops and whatever the storage refuses.         *)
THEOREM FilesStayThirtyDays == StoreSpec => []KeptThirtyDays
BY FilesInvariant, FilesFollow, PTL

(* Every file a kept snapshot names is in storage, whatever was deleted and  *)
(* purged since, because a snapshot is kept for fewer days than the bin: it  *)
(* can be rolled back to.                                                    *)
THEOREM SnapshotsStayWhole == StoreSpec => []KeptSnapshotsStored
BY FilesInvariant, FilesFollow, PTL

-----------------------------------------------------------------------------
(* A rollback under way has its undo snapshot of today, and one that is done *)
(* keeps a snapshot no older than itself.                                    *)
UndoThere ==
    undo # None /\ now <= undo.at + KeepDays =>
        \E b \in backups : b.state = undo.state /\ b.at >= undo.at

UndoReady ==
    rolling # None /\ ~touched => \E b \in backups : b.state = Now /\ b.at >= now

UInv == UndoThere /\ UndoReady

(* A snapshot as young as that is not pruned.                                *)
LEMMA YoungStays ==
    ASSUME BInv, StoreNext, NEW b \in backups, b.at + KeepDays >= now
    PROVE  b \in backups'
BY DEF StoreNext, Edit, StartRemove, CommitRemove, Restore, Daily, Backup, StartRollback, CommitRollback,
   Purges, StartPurge, DeleteFile, Doom, Unlist, Tick, Stop, Keep, Skipped, Pruned, snapshots

LEMMA DayGrows ==
    ASSUME BInv, StoreNext
    PROVE  now' \in Nat /\ now \in Nat /\ now <= now'
<1>1. now' \in {now, now + 1}
    BY DEF StoreNext, Edit, StartRemove, CommitRemove, Restore, Daily, Backup, StartRollback, CommitRollback,
       Purges, StartPurge, DeleteFile, Doom, Unlist, Tick, Stop
<1> QED
    BY <1>1, Typed

LEMMA UndoStays ==
    ASSUME BInv, UInv, StoreNext
    PROVE  UndoThere'
<1> USE DEF BInv
<1>1. CASE CommitRollback
    <2> SUFFICES ASSUME undo' # None
                 PROVE  \E b \in backups' : b.state = undo'.state /\ b.at >= undo'.at
        BY DEF UndoThere
    <2>1. ~touched /\ rolling # None /\ undo' = [at |-> now, state |-> Now] /\ backups' = backups
        BY <1>1 DEF CommitRollback, snapshots
    <2> QED
        BY <2>1 DEF UInv, UndoReady
<1>2. CASE undo' = undo
    <2> SUFFICES ASSUME undo # None, now' <= undo.at + KeepDays
                 PROVE  \E b \in backups' : b.state = undo.state /\ b.at >= undo.at
        BY <1>2 DEF UndoThere
    <2>1. undo.at \in Nat
        <3>1. undo.at \in 0..MaxDays
            BY DEF StoreTypeOK
        <3> QED
            BY <3>1, Days
    <2>2. PICK b \in backups : b.state = undo.state /\ b.at >= undo.at
        BY <2>1, DayGrows, Days DEF UInv, UndoThere
    <2>3. b.at + KeepDays >= now
        BY <2>1, <2>2, DayGrows, Days, Typed
    <2>4. b \in backups'
        BY <2>3, YoungStays
    <2> QED
        BY <2>2, <2>4
<1> QED
    BY <1>1, <1>2
    DEF StoreNext, Edit, StartRemove, CommitRemove, Restore, Daily, Backup, StartRollback,
        Purges, StartPurge, DeleteFile, Doom, Unlist, Tick, Stop, history

LEMMA UndoStaysReady ==
    ASSUME BInv, UInv, StoreNext
    PROVE  UndoReady'
<1> USE DEF BInv
<1>1. ASSUME NEW d \in backups, StartRollback(d)
      PROVE  UndoReady'
    <2>1. newest' \in backups' /\ newest'.at = now /\ newest'.state = Now
        BY <1>1 DEF StartRollback, Keep, Pruned
    <2>2. Now' = Now /\ now' = now
        BY <1>1 DEF StartRollback, workspace, Now
    <2> QED
        BY <2>1, <2>2, Typed DEF UndoReady
<1>2. ASSUME rolling' = rolling, touched' = touched, UNCHANGED <<live, data, now>>
      PROVE  UndoReady'
    <2> SUFFICES ASSUME rolling # None, ~touched
                 PROVE  \E b \in backups' : b.state = Now /\ b.at >= now
        BY <1>2 DEF UndoReady, Now
    <2>1. PICK b \in backups : b.state = Now /\ b.at >= now
        BY DEF UInv, UndoReady
    <2>2. b \in backups'
        BY <2>1, YoungStays, Days, Typed
    <2> QED
        BY <2>1, <2>2
<1>3. CASE touched' \/ rolling' = None
    BY <1>3 DEF UndoReady
<1> QED
    BY <1>1, <1>2, <1>3
    DEF StoreNext, Edit, StartRemove, CommitRemove, Restore, Daily, Backup, CommitRollback,
        Purges, StartPurge, DeleteFile, Doom, Unlist, Tick, Stop, workspace, history

LEMMA StepUndo == BInv /\ UInv /\ [StoreNext]_storeVars => UInv'
<1> SUFFICES ASSUME BInv, UInv, [StoreNext]_storeVars
             PROVE  UInv'
    OBVIOUS
<1>1. CASE StoreNext
    BY <1>1, UndoStays, UndoStaysReady DEF UInv
<1>2. CASE UNCHANGED storeVars
    BY <1>2 DEF storeVars, workspace, snapshots, history, UInv, UndoThere, UndoReady, Now
<1> QED
    BY <1>1, <1>2

(* A rollback can be undone: as long as snapshots are kept, one holds        *)
(* exactly what it replaced, however many snapshots and rollbacks follow,    *)
(* unless something was written between its undo snapshot and its            *)
(* transaction.                                                              *)
THEOREM RollbacksCanBeUndone == StoreSpec => []UndoKept
<1>1. StoreInit => BInv /\ UInv
    BY InitNewest DEF StoreInit, UInv, UndoThere, UndoReady
<1>2. BInv /\ UInv /\ [StoreNext]_storeVars => (BInv /\ UInv)'
    BY StepNewest, StepUndo
<1>3. BInv /\ UInv => UndoKept
    BY DEF UInv, UndoThere, UndoKept
<1> QED
    BY <1>1, <1>2, <1>3, PTL DEF StoreSpec
=============================================================================
