---------------------------- MODULE SiteAuditProofs ----------------------------
(***************************************************************************)
(* Proofs about SiteAudit and the gate it goes through, for any pages,     *)
(* requests in flight, rates, times, orders and restarts.                  *)
(***************************************************************************)
EXTENDS SiteAudit, TLAPS

(* The gate: no slot is free before the hold ends, and the ceiling stays     *)
(* under every rate that was refused, unless it is the slowest.              *)
SlotAfterHold == pausedFor <= nextIn

UnderRefused ==
    refused # Null => CeilingOf # Null /\ (CeilingOf < refused \/ CeilingOf = MinRps)

(* What is being stored was learned by this process.                         *)
LearnedHere == ceiling = Null => storing = {}

GateInv == GateTypeOK /\ SlotAfterHold /\ UnderRefused /\ LearnedHere

-----------------------------------------------------------------------------
LEMMA RatesAreNumbers ==
    /\ Rates \subseteq Nat \ {0} /\ MinRps \in Rates /\ StartRps \in Rates /\ MaxRps \in Rates
    /\ \A r \in Rates : MinRps <= r /\ r <= MaxRps
    /\ Null \notin Rates
BY RatesAssumption, NullAssumption DEF Rates

LEMMA SmallerLarger ==
    ASSUME NEW a \in Int, NEW b \in Int
    PROVE  /\ Smaller(a, b) \in {a, b} /\ Smaller(a, b) <= a /\ Smaller(a, b) <= b
           /\ Larger(a, b) \in {a, b} /\ Larger(a, b) >= a /\ Larger(a, b) >= b
BY DEF Smaller, Larger

(* A rate is one of the site's rates, and at most the ceiling. *)
LEMMA RateIsRate ==
    ASSUME NEW r \in {Null} \cup Rates, NEW cap \in {Null} \cup Rates
    PROVE  /\ RateAt(r, cap) \in Rates
           /\ cap # Null => RateAt(r, cap) <= cap
BY RatesAreNumbers DEF RateAt, AtMost, Smaller, Larger, Rates

LEMMA LoweredIsLower ==
    ASSUME NEW r \in Rates
    PROVE  /\ Lowered(r) \in Rates /\ Half(r) \in Rates
           /\ Lowered(r) < r \/ Lowered(r) = MinRps
<1> DEFINE t == (r * 7) \div 10
           h == r \div 2
<1>1. r \in Nat \ {0} /\ MinRps \in Nat \ {0} /\ MinRps <= r /\ r <= MaxRps /\ MaxRps \in Nat
    BY RatesAreNumbers
<1>2. t \in Nat /\ t < r
    BY <1>1
<1>3. h \in Nat /\ h < r
    BY <1>1
<1> HIDE DEF t, h
<1>4. Lowered(r) = Larger(MinRps, t) /\ Half(r) = Larger(MinRps, h)
    BY DEF Lowered, Half, t, h
<1> QED
    BY <1>1, <1>2, <1>3, <1>4 DEF Larger, Rates

LEMMA AtMostIsRate ==
    ASSUME NEW r \in Rates, NEW cap \in {Null} \cup Rates
    PROVE  /\ AtMost(r, cap) \in Rates /\ AtMost(r, cap) <= r
           /\ cap # Null => AtMost(r, cap) <= cap
           /\ AtMost(r, cap) = r \/ (cap # Null /\ AtMost(r, cap) = cap)
<1>1. r \in Int
    BY RatesAreNumbers
<1>2. CASE cap = Null
    BY <1>1, <1>2 DEF AtMost
<1>3. CASE cap # Null
  <2>1. AtMost(r, cap) = Smaller(r, cap)
      BY <1>3 DEF AtMost
  <2>2. cap \in Rates
      BY <1>3
  <2>3. cap \in Int
      BY <2>2, RatesAreNumbers
  <2>4. /\ Smaller(r, cap) \in {r, cap}
        /\ Smaller(r, cap) <= r /\ Smaller(r, cap) <= cap
      BY <1>1, <2>3, SmallerLarger
  <2> QED
      BY <1>3, <2>1, <2>2, <2>4
<1> QED
    BY <1>2, <1>3

LEMMA CeilingIsRate ==
    ASSUME GateTypeOK
    PROVE  CeilingOf \in {Null} \cup Rates /\ Rate \in Rates
<1>1. CeilingOf \in {Null} \cup Rates
    BY DEF GateTypeOK, CeilingOf
<1> QED
    BY <1>1, RateIsRate DEF GateTypeOK, Rate

LEMMA IntervalPositive ==
    ASSUME GateTypeOK
    PROVE  Interval \in Nat \ {0}
<1> DEFINE q == Second \div Rate
<1>1. Rate \in Nat \ {0} /\ Second \in Nat
    BY CeilingIsRate, RatesAreNumbers, RatesAssumption
<1>2. q \in Int
    BY <1>1
<1> HIDE DEF q
<1>3. Interval = Larger(1, q)
    BY DEF Interval, q
<1> QED
    BY <1>2, <1>3 DEF Larger

(* The rate asked for after an answer is one of the site's rates. *)
LEMMA SpreadIsRate ==
    ASSUME NEW r \in {Null} \cup Rates, NEW limit \in Limits
    PROVE  Spread(r, limit) \in {Null} \cup Rates
<1>1. limit # Null /\ limit.rate # Null => limit.rate = MinRps
    BY DEF Limits
<1>2. Larger(MinRps, MinRps) = MinRps
    BY DEF Larger
<1> QED
    BY <1>1, <1>2, RatesAreNumbers DEF Spread

-----------------------------------------------------------------------------
LEMMA GateInitially == GateInit => GateInv
BY TimesAssumption, RatesAssumption
   DEF GateInit, GateInv, GateTypeOK, SlotAfterHold, UnderRefused, LearnedHere

LEMMA ReserveKeeps ==
    ASSUME GateInv, Reserve
    PROVE  GateInv'
<1>1. nextIn' \in Nat /\ nextIn' >= nextIn
    BY IntervalPositive DEF GateInv, GateTypeOK, Reserve
<1>2. GateTypeOK'
    BY <1>1 DEF GateInv, GateTypeOK, Reserve
<1>3. SlotAfterHold'
    BY <1>1 DEF GateInv, GateTypeOK, SlotAfterHold, Reserve
<1>4. UnderRefused' /\ LearnedHere'
    BY DEF GateInv, UnderRefused, CeilingOf, Reserve, LearnedHere
<1> QED
    BY <1>2, <1>3, <1>4 DEF GateInv

LEMMA HoldKept ==
    ASSUME GateInv, NEW pause \in 0..MaxPause, Held(pause)
    PROVE  /\ nextIn' \in Nat /\ pausedFor' \in 0..MaxPause
           /\ pausedFor' <= nextIn' /\ pausedFor <= pausedFor'
BY TimesAssumption DEF GateInv, GateTypeOK, Held, Larger

(* What the site asks for is within the longest pause. *)
LEMMA PauseBounded ==
    ASSUME NEW status, NEW after \in Afters, NEW limit \in Limits,
           NEW asked, asked = IF status # "refused" THEN 0 ELSE IF after = Null THEN Window ELSE after,
           NEW wait, wait = IF limit # Null /\ limit.rate = Null THEN limit.reset ELSE 0
    PROVE  Smaller(MaxPause, Larger(asked, wait)) \in 0..MaxPause
<1>1. asked \in Nat
    BY AuditAssumption, TimesAssumption
<1>2. wait \in Nat
    BY AuditAssumption DEF Limits
<1> QED
    BY <1>1, <1>2, TimesAssumption DEF Smaller, Larger

LEMMA RefusalKeeps ==
    ASSUME GateInv, NEW limit \in Limits, Refusal(limit), UNCHANGED learned
    PROVE  /\ refusedAgo' \in 0..Window /\ healthy' \in 0..(StepEvery - 1)
           /\ rps' \in {Null} \cup Rates
           /\ ceiling' \in {Null} \cup Rates /\ refused' \in {Null} \cup Rates
           /\ storing' \subseteq Rates
           /\ UnderRefused' /\ LearnedHere'
<1>0. /\ rps \in {Null} \cup Rates /\ ceiling \in {Null} \cup Rates
      /\ learned \in {Null} \cup Rates /\ refused \in {Null} \cup Rates
    BY DEF GateInv, GateTypeOK
<1>1. CASE SameEvent
  <2>1. /\ UNCHANGED <<refusedAgo, healthy, ceiling, storing, refused>>
        /\ rps' = Spread(rps, limit)
      BY <1>1 DEF Refusal
  <2>2. rps' \in {Null} \cup Rates
      BY <1>0, <2>1, SpreadIsRate
  <2>3. UnderRefused' /\ LearnedHere'
      BY <2>1 DEF GateInv, UnderRefused, CeilingOf, LearnedHere
  <2> QED
      BY <2>1, <2>2, <2>3 DEF GateInv, GateTypeOK
<1>2. CASE ~SameEvent
  <2> DEFINE low == Lowered(Rate)
             cap == CeilingOf
             r == Rate
  <2>1. /\ refusedAgo' = 0 /\ healthy' = 0
        /\ ceiling' = AtMost(low, cap)
        /\ storing' = storing \cup {ceiling'}
        /\ rps' = Spread(Half(r), limit)
        /\ refused' = AtMost(r, refused)
      BY <1>2 DEF Refusal
  <2>2. r \in Rates /\ cap \in {Null} \cup Rates
      BY CeilingIsRate DEF GateInv
  <2>3. low \in Rates /\ Half(r) \in Rates /\ (low < r \/ low = MinRps)
      BY <2>2, LoweredIsLower
  <2>4. refused # Null => cap # Null /\ (cap < refused \/ cap = MinRps)
      BY DEF GateInv, UnderRefused
  <2> HIDE DEF low, cap, r
  <2>5. rps' \in {Null} \cup Rates
      BY <2>1, <2>3, SpreadIsRate
  <2>6. /\ ceiling' \in Rates /\ ceiling' <= low
        /\ cap # Null => ceiling' <= cap
      BY <2>1, <2>2, <2>3, AtMostIsRate
  <2>7. /\ refused' \in Rates
        /\ refused' = r \/ (refused # Null /\ refused' = refused)
      BY <1>0, <2>1, <2>2, AtMostIsRate
  <2>8. ceiling' < refused' \/ ceiling' = MinRps
    <3>1. CASE refused' = r
      <4>1. low \in Nat /\ r \in Nat /\ ceiling' \in Nat /\ MinRps <= ceiling' /\ MinRps \in Nat
          BY <2>2, <2>3, <2>6, RatesAreNumbers
      <4> QED
          BY <2>3, <2>6, <3>1, <4>1
    <3>2. CASE refused # Null /\ refused' = refused
      <4>1. cap \in Rates /\ ceiling' <= cap /\ (cap < refused \/ cap = MinRps)
          BY <2>2, <2>4, <2>6, <3>2
      <4>2. /\ cap \in Nat /\ ceiling' \in Nat /\ MinRps <= ceiling' /\ MinRps \in Nat
            /\ refused \in Nat
          BY <1>0, <2>6, <3>2, <4>1, RatesAreNumbers
      <4> QED
          BY <3>2, <4>1, <4>2
    <3> QED
        BY <2>7, <3>1, <3>2
  <2>9. UnderRefused'
      BY <2>6, <2>8, RatesAreNumbers DEF UnderRefused, CeilingOf
  <2>10. LearnedHere' /\ storing' \subseteq Rates
      BY <2>1, <2>6, RatesAreNumbers DEF GateInv, GateTypeOK, LearnedHere
  <2> QED
      BY <2>1, <2>5, <2>6, <2>7, <2>9, <2>10, TimesAssumption, RatesAssumption
<1> QED
    BY <1>1, <1>2

LEMMA FasterIsRate ==
    ASSUME GateTypeOK
    PROVE  Faster(rps) \in {Null} \cup Rates
<1>1. Rate \in Rates
    BY CeilingIsRate
<1>2. Smaller(MaxRps, Rate + 1) \in Rates
  <2> DEFINE r == Rate
  <2>1. r \in Nat /\ MinRps <= r /\ MinRps \in Nat /\ MaxRps \in Nat /\ MinRps <= MaxRps
      BY <1>1, RatesAreNumbers
  <2> HIDE DEF r
  <2>2. Smaller(MaxRps, r + 1) \in MinRps..MaxRps
      BY <2>1 DEF Smaller
  <2> QED
      BY <2>2 DEF Rates, r
<1> QED
    BY <1>2 DEF Faster, GateTypeOK

LEMMA AnsweredKeeps ==
    ASSUME GateInv, NEW status \in {"ok", "refused", "none"}, NEW after \in Afters,
           NEW limit \in Limits, Answered(status, after, limit)
    PROVE  GateInv' /\ pausedFor <= pausedFor'
<1> DEFINE asked == IF status # "refused" THEN 0 ELSE IF after = Null THEN Window ELSE after
           wait == IF limit # Null /\ limit.rate = Null THEN limit.reset ELSE 0
           pause == Smaller(MaxPause, Larger(asked, wait))
<1>1. Held(pause) /\ UNCHANGED learned
    BY DEF Answered
<1>2. pause \in 0..MaxPause
    BY PauseBounded
<1> HIDE DEF pause
<1>3. /\ nextIn' \in Nat /\ pausedFor' \in 0..MaxPause
      /\ pausedFor' <= nextIn' /\ pausedFor <= pausedFor'
    BY <1>1, <1>2, HoldKept
<1>4. /\ refusedAgo' \in 0..Window /\ healthy' \in 0..(StepEvery - 1)
      /\ rps' \in {Null} \cup Rates
      /\ ceiling' \in {Null} \cup Rates /\ refused' \in {Null} \cup Rates
      /\ storing' \subseteq Rates
      /\ UnderRefused' /\ LearnedHere'
  <2>1. CASE status = "refused"
    <3>1. Refusal(limit)
        BY <2>1 DEF Answered
    <3> QED
        BY <1>1, <3>1, RefusalKeeps
  <2>2. CASE status # "refused"
    <3>1. /\ UNCHANGED <<refusedAgo, ceiling, storing, refused>>
          /\ healthy' = IF status = "ok" THEN (healthy + 1) % StepEvery ELSE healthy
          /\ rps' = Spread(IF status = "ok" THEN Faster(rps) ELSE rps, limit)
        BY <2>2 DEF Answered
    <3>2. rps' \in {Null} \cup Rates
      <4>1. (IF status = "ok" THEN Faster(rps) ELSE rps) \in {Null} \cup Rates
          BY FasterIsRate DEF GateInv, GateTypeOK
      <4> QED
          BY <3>1, <4>1, SpreadIsRate
    <3>3. healthy' \in 0..(StepEvery - 1)
      <4>1. healthy \in 0..(StepEvery - 1) /\ StepEvery \in Nat \ {0}
          BY RatesAssumption DEF GateInv, GateTypeOK
      <4>2. (healthy + 1) % StepEvery \in 0..(StepEvery - 1)
          BY <4>1
      <4> QED
          BY <3>1, <4>1, <4>2
    <3>4. UnderRefused' /\ LearnedHere'
        BY <1>1, <3>1 DEF GateInv, UnderRefused, CeilingOf, LearnedHere
    <3> QED
        BY <3>1, <3>2, <3>3, <3>4 DEF GateInv, GateTypeOK
  <2> QED
      BY <2>1, <2>2
<1>5. GateTypeOK'
    BY <1>1, <1>3, <1>4 DEF GateInv, GateTypeOK
<1> QED
    BY <1>3, <1>4, <1>5 DEF GateInv, SlotAfterHold

LEMMA RememberKeeps ==
    ASSUME GateInv, NEW r \in Rates, Remember(r)
    PROVE  GateInv'
<1>1. GateTypeOK' /\ SlotAfterHold'
    BY DEF GateInv, GateTypeOK, SlotAfterHold, Remember
<1>2. UnderRefused' /\ LearnedHere'
    BY DEF GateInv, UnderRefused, LearnedHere, CeilingOf, Remember
<1> QED
    BY <1>1, <1>2 DEF GateInv

LEMMA ResetKeeps ==
    ASSUME GateInv, Reset
    PROVE  GateInv'
<1>1. GateTypeOK' /\ SlotAfterHold'
    BY TimesAssumption, RatesAssumption
       DEF GateInv, GateTypeOK, SlotAfterHold, Reset, Kept
<1>2. UnderRefused' /\ LearnedHere'
    BY DEF GateInv, UnderRefused, CeilingOf, Reset, Kept, LearnedHere
<1> QED
    BY <1>1, <1>2 DEF GateInv

LEMMA PassKeeps ==
    ASSUME GateInv, Pass
    PROVE  GateInv'
<1>1. GateTypeOK' /\ SlotAfterHold'
    BY TimesAssumption DEF GateInv, GateTypeOK, SlotAfterHold, Pass, Larger, Smaller
<1>2. UnderRefused' /\ LearnedHere'
    BY DEF GateInv, UnderRefused, CeilingOf, Pass, LearnedHere
<1> QED
    BY <1>1, <1>2 DEF GateInv

LEMMA GateUnchanged ==
    ASSUME GateInv, UNCHANGED gate
    PROVE  GateInv'
BY DEF GateInv, GateTypeOK, SlotAfterHold, UnderRefused, LearnedHere, CeilingOf, gate

(* A rate no greater than a ceiling under what was refused. *)
LEMMA GateNeverProbes ==
    ASSUME GateInv
    PROVE  NeverProbesPast
<1> DEFINE r == Rate
           cap == CeilingOf
<1>1. r \in Rates /\ cap \in {Null} \cup Rates /\ (cap # Null => r <= cap)
    BY CeilingIsRate, RateIsRate DEF GateInv, GateTypeOK, Rate
<1>2. refused # Null => cap # Null /\ (cap < refused \/ cap = MinRps)
    BY DEF GateInv, UnderRefused
<1>3. refused \in {Null} \cup Rates
    BY DEF GateInv, GateTypeOK
<1> HIDE DEF r, cap
<1>4. ASSUME refused # Null PROVE r < refused \/ r = MinRps
  <2>1. /\ r \in Nat /\ cap \in Nat /\ refused \in Nat /\ MinRps \in Nat
        /\ MinRps <= r /\ r <= cap /\ (cap < refused \/ cap = MinRps)
      BY <1>1, <1>2, <1>3, <1>4, RatesAreNumbers
  <2> QED
      BY <2>1
<1> QED
    BY <1>4 DEF NeverProbesPast, r

-----------------------------------------------------------------------------
(* The workers.  A worker that audits without a verdict in hand is at a page *)
(* that has none, or that is shared, and so is a page two of them audit.     *)
Audits(v) == Step(v) \in {"waiting", "sent", "served"}

JobsOK == job \in [Workers -> {Null} \cup Asking \cup Auditing]

Known ==
    \A v \in Workers :
        Audits(v) /\ ~job[v].had /\ facts[job[v].page] \in Verdicts => job[v].page \in shared

Together ==
    \A v, w \in Workers :
        v # w /\ Audits(v) /\ Audits(w) /\ job[v].page = job[w].page => job[v].page \in shared

WorkInv == JobsOK /\ HoldHonoured /\ Known /\ Together

(* A worker that audits after a step has been at it, and what it needs to    *)
(* know of its page it still knows.                                          *)
Carries(v) ==
    Audits(v)' =>
        /\ Audits(v) /\ job'[v].page = job[v].page /\ job'[v].had = job[v].had
        /\ job[v].page \in shared => job[v].page \in shared'
        /\ facts'[job[v].page] \in Verdicts => facts[job[v].page] \in Verdicts \/ job[v].page \in shared'

-----------------------------------------------------------------------------
LEMMA JobShapes ==
    ASSUME JobsOK, NEW v \in Workers
    PROVE  /\ job[v] # Null => job[v].page \in Pages /\ Step(v) = job[v].step
           /\ Step(v) \in {"free", "asking", "waiting", "sent", "served"}
           /\ Step(v) = "free" <=> job[v] = Null
           /\ Audits(v) <=> job[v] \in Auditing
           /\ Step(v) = "asking" <=> job[v] \in Asking
<1>1. /\ \A j \in Asking : j.step = "asking" /\ j.page \in Pages
      /\ \A j \in Auditing : j.step \in {"waiting", "sent", "served"} /\ j.page \in Pages
    BY DEF Asking, Auditing
<1>2. job[v] \in {Null} \cup Asking \cup Auditing
    BY DEF JobsOK
<1>3. CASE job[v] = Null
    BY <1>3, NoJobAssumption DEF Step, Audits
<1>4. CASE job[v] \in Asking
  <2>1. job[v] # Null /\ job[v].step = "asking" /\ job[v].page \in Pages /\ job[v] \notin Auditing
      BY <1>1, <1>4, NoJobAssumption
  <2> QED
      BY <1>4, <2>1 DEF Step, Audits
<1>5. CASE job[v] \in Auditing
  <2>1. /\ job[v] # Null /\ job[v].step \in {"waiting", "sent", "served"}
        /\ job[v].page \in Pages /\ job[v] \notin Asking
      BY <1>1, <1>5, NoJobAssumption
  <2> QED
      BY <1>5, <2>1 DEF Step, Audits
<1> QED
    BY <1>2, <1>3, <1>4, <1>5

LEMMA PagesOfBusy ==
    ASSUME NEW W, NEW q
    PROVE  q \in PagesOf(W) <=> \E v \in W : job[v] # Null /\ job[v].page = q
BY DEF PagesOf, Busy

(* What the steps of an audit make of its record. *)
LEMMA AuditUpdates ==
    ASSUME NEW j \in Auditing
    PROVE  /\ \A st \in {"waiting", "sent", "served"} :
                 LET k == [j EXCEPT !.step = st]
                 IN  k \in Auditing /\ k.page = j.page /\ k.had = j.had /\ k.step = st
           /\ \A a \in {"page", "transient", "rejected", "failed"} :
                 LET k == [j EXCEPT !.step = "served", !.answer = a]
                 IN  k \in Auditing /\ k.page = j.page /\ k.had = j.had /\ k.step = "served"
           /\ LET k == [j EXCEPT !.early = TRUE]
              IN  k \in Auditing /\ k.page = j.page /\ k.had = j.had /\ k.step = j.step
                  /\ k.early = TRUE
           /\ LET k == [j EXCEPT !.old = TRUE]
              IN  /\ k \in Auditing /\ k.page = j.page /\ k.had = j.had /\ k.step = j.step
                  /\ k.left = j.left /\ k.early = j.early
           /\ LET k == [j EXCEPT !.step = "sent", !.early = FALSE]
              IN  k \in Auditing /\ k.page = j.page /\ k.had = j.had /\ k.step = "sent"
<1>1. \A st \in {"waiting", "sent", "served"} :
          LET k == [j EXCEPT !.step = st]
          IN  k \in Auditing /\ k.page = j.page /\ k.had = j.had /\ k.step = st
    BY Zenon DEF Auditing
<1>2. \A a \in {"page", "transient", "rejected", "failed"} :
          LET k == [j EXCEPT !.step = "served", !.answer = a]
          IN  k \in Auditing /\ k.page = j.page /\ k.had = j.had /\ k.step = "served"
    BY Zenon DEF Auditing
<1>3. LET k == [j EXCEPT !.early = TRUE]
      IN  k \in Auditing /\ k.page = j.page /\ k.had = j.had /\ k.step = j.step
          /\ k.early = TRUE
    BY Zenon DEF Auditing
<1>4. LET k == [j EXCEPT !.old = TRUE]
      IN  /\ k \in Auditing /\ k.page = j.page /\ k.had = j.had /\ k.step = j.step
          /\ k.left = j.left /\ k.early = j.early
    BY Zenon DEF Auditing
<1>5. LET k == [j EXCEPT !.step = "sent", !.early = FALSE]
      IN  k \in Auditing /\ k.page = j.page /\ k.had = j.had /\ k.step = "sent"
    BY Zenon DEF Auditing
<1> QED
    BY <1>1, <1>2, <1>3, <1>4, <1>5, Zenon

(* What is known of a page stays known while all go on with theirs. *)
LEMMA CarryOn ==
    ASSUME Known, Together, \A v \in Workers : Carries(v)
    PROVE  Known' /\ Together'
<1>1. ASSUME NEW v \in Workers, Audits(v)', ~job'[v].had, facts'[job'[v].page] \in Verdicts
      PROVE  job'[v].page \in shared'
  <2>1. /\ Audits(v) /\ job'[v].page = job[v].page /\ job'[v].had = job[v].had
        /\ job[v].page \in shared => job[v].page \in shared'
        /\ facts'[job[v].page] \in Verdicts => facts[job[v].page] \in Verdicts \/ job[v].page \in shared'
      BY <1>1 DEF Carries
  <2> QED
      BY <1>1, <2>1 DEF Known
<1>2. ASSUME NEW v \in Workers, NEW w \in Workers, v # w, Audits(v)', Audits(w)',
             job'[v].page = job'[w].page
      PROVE  job'[v].page \in shared'
  <2>1. /\ Audits(v) /\ job'[v].page = job[v].page
        /\ job[v].page \in shared => job[v].page \in shared'
        /\ Audits(w) /\ job'[w].page = job[w].page
      BY <1>2 DEF Carries
  <2> QED
      BY <1>2, <2>1 DEF Together
<1> QED
    BY <1>1, <1>2, Zenon DEF Known, Together

(* A step that starts no audit. *)
LEMMA WorkGoesOn ==
    ASSUME WorkInv, JobsOK', HoldHonoured', \A v \in Workers : Carries(v)
    PROVE  WorkInv'
BY CarryOn DEF WorkInv

(* Workers left as they are. *)
LEMMA WorkUnchanged ==
    ASSUME WorkInv, UNCHANGED <<facts, job, shared, pausedFor>>
    PROVE  WorkInv'
BY DEF WorkInv, JobsOK, HoldHonoured, Known, Together, Audits, Step

LEMMA SendKeeps ==
    ASSUME WorkInv, NEW w \in Workers, Send(w)
    PROVE  WorkInv'
<1>1. /\ Step(w) = "waiting" /\ job[w] \in Auditing
      /\ job' = [job EXCEPT ![w] = [job[w] EXCEPT !.step = "sent", !.early = FALSE]]
      /\ UNCHANGED <<facts, shared, pausedFor>>
    BY JobShapes DEF Send, WorkInv, Audits, gate, rows
<1> DEFINE k == [job[w] EXCEPT !.step = "sent", !.early = FALSE]
<1>2. k \in Auditing /\ k.page = job[w].page /\ k.had = job[w].had /\ k.step = "sent"
    BY <1>1, AuditUpdates
<1> HIDE DEF k
<1>3. /\ job'[w] = k /\ Step(w)' = "sent"
      /\ \A v \in Workers \ {w} : job'[v] = job[v] /\ Step(v)' = Step(v)
    BY <1>1, <1>2, NoJobAssumption DEF WorkInv, JobsOK, Step, k
<1>4. JobsOK'
    BY <1>1, <1>2 DEF WorkInv, JobsOK, k
<1>5. HoldHonoured'
    BY <1>1, <1>3 DEF WorkInv, HoldHonoured
<1>6. \A v \in Workers : Carries(v)
    BY <1>1, <1>2, <1>3 DEF Carries, Audits
<1> QED
    BY <1>4, <1>5, <1>6, WorkGoesOn

LEMMA ServeKeeps ==
    ASSUME GateInv, WorkInv, NEW w \in Workers, Serve(w)
    PROVE  WorkInv' /\ GateInv'
<1>1. PICK a \in Answers, after \in Afters, limit \in Limits :
         /\ Answered(a[2], after, limit)
         /\ job' = [v \in Workers |->
                     IF v = w THEN [job[w] EXCEPT !.step = "served", !.answer = a[1]]
                     ELSE IF Step(v) = "waiting" /\ job[v].left < pausedFor'
                     THEN [job[v] EXCEPT !.early = TRUE]
                     ELSE job[v]]
    BY DEF Serve
<1>2. a[1] \in {"page", "transient", "rejected", "failed"} /\ a[2] \in {"ok", "refused", "none"}
    BY DEF Answers
<1>3. GateInv' /\ pausedFor <= pausedFor' /\ pausedFor \in Nat /\ pausedFor' \in Nat
    BY <1>1, <1>2, AnsweredKeeps, TimesAssumption DEF GateInv, GateTypeOK
<1>4. Step(w) = "sent" /\ job[w] \in Auditing /\ UNCHANGED <<facts, shared>>
    BY JobShapes DEF Serve, WorkInv, Audits, rows
<1> DEFINE k == [job[w] EXCEPT !.step = "served", !.answer = a[1]]
<1>5. k \in Auditing /\ k.page = job[w].page /\ k.had = job[w].had /\ k.step = "served"
  <2> DEFINE b == a[1]
  <2>1. b \in {"page", "transient", "rejected", "failed"}
      BY <1>2
  <2> HIDE DEF b
  <2>2. [job[w] EXCEPT !.step = "served", !.answer = b] \in Auditing
      BY <1>4, <2>1, Zenon DEF Auditing
  <2>3. /\ [job[w] EXCEPT !.step = "served", !.answer = b].page = job[w].page
        /\ [job[w] EXCEPT !.step = "served", !.answer = b].had = job[w].had
        /\ [job[w] EXCEPT !.step = "served", !.answer = b].step = "served"
      BY <1>4, Zenon DEF Auditing
  <2> QED
      BY <2>2, <2>3 DEF b, k
<1>6. job'[w] = k
    BY <1>1
<1> HIDE DEF k
<1>7. Step(w)' = "served" /\ job'[w] \in Auditing
    BY <1>5, <1>6, NoJobAssumption DEF Step
<1>8. ASSUME NEW v \in Workers \ {w}
      PROVE  /\ job'[v] \in {Null} \cup Asking \cup Auditing
             /\ Step(v)' = Step(v)
             /\ Audits(v) => job'[v].page = job[v].page /\ job'[v].had = job[v].had
             /\ Step(v)' = "waiting" /\ ~job'[v].early => pausedFor' <= job'[v].left
  <2>1. CASE Step(v) = "waiting" /\ job[v].left < pausedFor'
    <3>1. job[v] \in Auditing
        BY <2>1, JobShapes DEF WorkInv, Audits
    <3> DEFINE e == [job[v] EXCEPT !.early = TRUE]
    <3>2. e \in Auditing /\ e.page = job[v].page /\ e.had = job[v].had /\ e.step = job[v].step /\ e.early = TRUE
        BY <3>1, AuditUpdates
    <3>3. job'[v] = e
        BY <1>1, <2>1
    <3> HIDE DEF e
    <3> QED
        BY <3>1, <3>2, <3>3, NoJobAssumption DEF Step
  <2>2. CASE ~(Step(v) = "waiting" /\ job[v].left < pausedFor')
    <3>1. job'[v] = job[v] /\ Step(v)' = Step(v)
        BY <1>1, <2>2 DEF Step
    <3>2. ASSUME Step(v) = "waiting" PROVE pausedFor' <= job[v].left
      <4>1. job[v] \in Auditing
          BY <3>2, JobShapes DEF WorkInv, Audits
      <4>2. job[v].left \in Nat
          BY <4>1 DEF Auditing
      <4> QED
          BY <1>3, <2>2, <3>2, <4>2
    <3> QED
        BY <3>1, <3>2 DEF WorkInv, JobsOK
  <2> QED
      BY <2>1, <2>2
<1>9. JobsOK'
    BY <1>1, <1>7, <1>8 DEF JobsOK
<1>10. HoldHonoured'
    BY <1>7, <1>8 DEF HoldHonoured
<1>11. \A v \in Workers : Carries(v)
    BY <1>4, <1>5, <1>6, <1>8 DEF Carries, Audits
<1> QED
    BY <1>3, <1>9, <1>10, <1>11, WorkGoesOn

(* A new audit takes a slot after the hold. *)
LEMMA TakeKeeps ==
    ASSUME GateInv, WorkInv, NEW w \in Workers, NEW p \in Pages, ~Audits(w), Take(w, p),
           UNCHANGED facts
    PROVE  WorkInv'
<1> DEFINE k == [page |-> p, step |-> "waiting", left |-> nextIn,
                 early |-> FALSE, had |-> facts[p] \in Verdicts, answer |-> Null, old |-> FALSE]
           others == PagesOf(Workers \ {w})
<1>1. /\ k \in Auditing /\ k.page = p /\ k.step = "waiting" /\ k.left = nextIn
      /\ ~k.had => facts[p] \notin Verdicts
  <2>1. nextIn \in Nat
      BY DEF GateInv, GateTypeOK
  <2>2. (facts[p] \in Verdicts) \in BOOLEAN /\ FALSE \in BOOLEAN
      OBVIOUS
  <2>3. k \in Auditing
      BY <2>1, <2>2, Zenon DEF Auditing
  <2> QED
      BY <2>3
<1>2. /\ job' = [job EXCEPT ![w] = k]
      /\ shared' = IF p \in others THEN shared \cup {p} ELSE shared \ {p}
      /\ pausedFor' = pausedFor
    BY DEF Take, Reserve
<1>3. \A v \in Workers \ {w} : Audits(v) => job[v].page \in others
    BY PagesOfBusy, JobShapes DEF Audits, WorkInv
<1> HIDE DEF k, others
<1>4. /\ job'[w] = k /\ Step(w)' = "waiting" /\ Audits(w)'
      /\ \A v \in Workers \ {w} : job'[v] = job[v] /\ Step(v)' = Step(v)
    BY <1>1, <1>2, NoJobAssumption DEF WorkInv, JobsOK, Step, Audits
<1>5. JobsOK'
    BY <1>1, <1>2 DEF WorkInv, JobsOK
<1>6. HoldHonoured'
    BY <1>1, <1>2, <1>4 DEF GateInv, SlotAfterHold, WorkInv, HoldHonoured
<1>7. ASSUME NEW v \in Workers \ {w}, Audits(v)'
      PROVE  /\ Audits(v) /\ job'[v] = job[v]
             /\ job[v].page \in shared => job[v].page \in shared'
             /\ job[v].page = p => p \in shared'
    BY <1>2, <1>3, <1>4, <1>7 DEF Audits
<1>8. Known'
    BY <1>1, <1>4, <1>7 DEF WorkInv, Known
<1>9. Together'
    BY <1>1, <1>4, <1>7 DEF WorkInv, Together
<1> QED
    BY <1>5, <1>6, <1>8, <1>9 DEF WorkInv

(* An audit that ends: what it stored is known of the page by whoever is     *)
(* still at it, for then the page is shared.                                 *)
LEMMA FreedKeeps ==
    ASSUME WorkInv, NEW w \in Workers, Freed(w), UNCHANGED pausedFor,
           \/ UNCHANGED facts
           \/ Audits(w) /\ StoreAnswer(w)
    PROVE  WorkInv'
<1>1. /\ job' = [job EXCEPT ![w] = Null]
      /\ shared' = shared \ ({job[w].page} \ PagesOf(Workers \ {w}))
    BY DEF Freed
<1>2. /\ job'[w] = Null /\ Step(w)' = "free"
      /\ \A v \in Workers \ {w} : job'[v] = job[v] /\ Step(v)' = Step(v)
    BY <1>1 DEF WorkInv, JobsOK, Step
<1>3. JobsOK'
    BY <1>1 DEF WorkInv, JobsOK
<1>4. HoldHonoured'
    BY <1>2 DEF WorkInv, HoldHonoured
<1>5. ASSUME NEW v \in Workers PROVE Carries(v)
  <2> SUFFICES ASSUME Audits(v)' PROVE Carries(v)
      BY DEF Carries
  <2>1. v # w /\ job'[v] = job[v] /\ Audits(v)
      BY <1>2 DEF Audits
  <2>2. job[v].page \in PagesOf(Workers \ {w})
      BY <2>1, PagesOfBusy, JobShapes DEF Audits, WorkInv
  <2>3. job[v].page \in shared => job[v].page \in shared'
      BY <1>1, <2>2
  <2>4. facts'[job[v].page] \in Verdicts => facts[job[v].page] \in Verdicts \/ job[v].page \in shared
    <3>1. CASE UNCHANGED facts
        BY <3>1
    <3>2. CASE Audits(w) /\ StoreAnswer(w)
      <4>1. CASE job[w].page = job[v].page
          BY <2>1, <3>2, <4>1 DEF WorkInv, Together
      <4>2. CASE job[w].page # job[v].page
        <5>1. \/ facts' = facts
              \/ facts' = [facts EXCEPT ![job[w].page] = "fetched"]
              \/ facts' = [facts EXCEPT ![job[w].page] = "unchecked"]
            BY <3>2, Zenon DEF StoreAnswer, rows
        <5> DEFINE q == job[w].page
        <5> HIDE DEF q
        <5>2. /\ \A x, r : r # q => [facts EXCEPT ![q] = x][r] = facts[r]
              /\ job[v].page # q
            BY <4>2 DEF q
        <5>3. facts'[job[v].page] = facts[job[v].page]
          <6>1. CASE facts' = facts
              BY ONLY <6>1
          <6>2. CASE facts' = [facts EXCEPT ![q] = "fetched"]
              BY ONLY <6>2, <5>2
          <6>3. CASE facts' = [facts EXCEPT ![q] = "unchecked"]
              BY ONLY <6>3, <5>2
          <6> QED
              BY ONLY <5>1, <6>1, <6>2, <6>3 DEF q
        <5> QED
            BY <5>3
      <4> QED
          BY <4>1, <4>2
    <3> QED
        BY <3>1, <3>2
  <2> QED
      BY <2>1, <2>3, <2>4 DEF Carries
<1> QED
    BY <1>3, <1>4, <1>5, WorkGoesOn

(* A row the run writes on its own. *)
LEMMA WrittenKeeps ==
    ASSUME WorkInv, NEW p, NEW x, facts' = [facts EXCEPT ![p] = x], shared' = Joined(p),
           UNCHANGED <<job, pausedFor>>
    PROVE  WorkInv'
<1>1. JobsOK' /\ HoldHonoured' /\ \A v \in Workers : Step(v)' = Step(v)
    BY DEF WorkInv, JobsOK, HoldHonoured, Step
<1>2. ASSUME NEW v \in Workers, Audits(v) PROVE job[v].page \in PagesOf(Workers)
    BY <1>2, PagesOfBusy, JobShapes DEF Audits, WorkInv
<1>3. ASSUME NEW v \in Workers, Audits(v)' PROVE Carries(v)
  <2>1. Audits(v) /\ job'[v] = job[v]
      BY <1>1, <1>3 DEF Audits
  <2>2. job[v].page \in shared => job[v].page \in shared'
      BY DEF Joined
  <2>3. job[v].page = p => p \in shared'
      BY <1>2, <2>1 DEF Joined
  <2>4. job[v].page # p => facts'[job[v].page] = facts[job[v].page]
      OBVIOUS
  <2> QED
      BY <2>1, <2>2, <2>3, <2>4 DEF Carries
<1>4. \A v \in Workers : Carries(v)
    BY <1>3 DEF Carries
<1> QED
    BY <1>1, <1>4, WorkGoesOn

(* Workers of which each either goes on with a record that says no less, or  *)
(* is done.                                                                  *)
LEMMA TickKeeps ==
    ASSUME GateInv, WorkInv, Tick
    PROVE  WorkInv'
<1>1. /\ Pass /\ UNCHANGED facts
      /\ job' = [w \in Workers |-> IF w \in Leaving THEN Null
                                   ELSE IF Step(w) = "waiting" THEN [job[w] EXCEPT !.left = job[w].left - 1]
                                   ELSE job[w]]
      /\ shared' = shared \cap PagesOf(Workers \ Leaving)
    BY DEF Tick, rows
<1>2. ASSUME NEW v \in Workers, v \in Leaving
      PROVE  job'[v] = Null /\ Step(v)' = "free"
    BY <1>1, <1>2 DEF Step
<1>3. ASSUME NEW v \in Workers \ Leaving, Step(v) = "waiting"
      PROVE  /\ job'[v] \in Auditing /\ Step(v)' = "waiting" /\ job'[v].page = job[v].page
             /\ job'[v].had = job[v].had /\ job'[v].early = job[v].early
             /\ job'[v].left = job[v].left - 1 /\ job[v].left \in Nat \ {0}
  <2>1. job[v] \in Auditing /\ v \in Busy(Workers)
      BY <1>3, JobShapes DEF WorkInv, Audits, Busy
  <2>2. job[v].left \in Nat \ {0}
    <3>1. job[v].left \in Nat
        BY <2>1 DEF Auditing
    <3>2. job[v].left > 0
        BY <1>3, <2>1 DEF Tick
    <3> QED
        BY <3>1, <3>2
  <2> DEFINE n == job[v].left - 1
             k == [job[v] EXCEPT !.left = n]
  <2>3. n \in Nat
      BY <2>2
  <2>4. job'[v] = k
      BY <1>1, <1>3
  <2> HIDE DEF n
  <2>5. /\ k \in Auditing /\ k.page = job[v].page /\ k.had = job[v].had /\ k.step = job[v].step
        /\ k.left = n /\ k.early = job[v].early
      BY <2>1, <2>3, Zenon DEF Auditing
  <2>6. job[v].step = "waiting"
      BY <1>3, <2>1, NoJobAssumption DEF Step
  <2> HIDE DEF k
  <2> QED
      BY <2>2, <2>4, <2>5, <2>6, NoJobAssumption DEF Step, n
<1>4. ASSUME NEW v \in Workers \ Leaving, Step(v) # "waiting"
      PROVE  job'[v] = job[v] /\ Step(v)' = Step(v)
    BY <1>1, <1>4 DEF Step
<1>5. JobsOK'
  <2>1. \A v \in Workers : job'[v] \in {Null} \cup Asking \cup Auditing
      BY <1>2, <1>3, <1>4 DEF WorkInv, JobsOK
  <2> QED
      BY <1>1, <2>1 DEF JobsOK
<1>6. HoldHonoured'
  <2> SUFFICES ASSUME NEW v \in Workers, Step(v)' = "waiting", ~job'[v].early
               PROVE  pausedFor' <= job'[v].left
      BY DEF HoldHonoured
  <2>1. v \notin Leaving /\ Step(v) = "waiting"
      BY <1>2, <1>4
  <2>2. /\ job'[v].left = job[v].left - 1 /\ job[v].left \in Nat \ {0}
        /\ pausedFor <= job[v].left
      BY <1>3, <2>1 DEF WorkInv, HoldHonoured
  <2>3. pausedFor' = Larger(0, pausedFor - 1) /\ pausedFor \in Nat
      BY <1>1, TimesAssumption DEF Pass, GateInv, GateTypeOK
  <2> QED
      BY <2>2, <2>3 DEF Larger
<1>7. ASSUME NEW v \in Workers, Audits(v)' PROVE Carries(v)
  <2>1. v \notin Leaving
      BY <1>2, <1>7 DEF Audits
  <2>2. Audits(v) /\ job'[v].page = job[v].page /\ job'[v].had = job[v].had
      BY <1>3, <1>4, <1>7, <2>1 DEF Audits
  <2>3. job[v].page \in PagesOf(Workers \ Leaving)
      BY <2>1, <2>2, PagesOfBusy, JobShapes DEF Audits, WorkInv
  <2> QED
      BY <1>1, <2>2, <2>3 DEF Carries
<1>8. \A v \in Workers : Carries(v)
    BY <1>7 DEF Carries
<1> QED
    BY <1>5, <1>6, <1>8, WorkGoesOn

LEMMA ChangeKeeps ==
    ASSUME WorkInv, NEW p \in Pages, Change(p)
    PROVE  WorkInv'
<1>1. /\ UNCHANGED <<facts, shared, pausedFor>>
      /\ job' = [w \in Workers |-> IF Step(w) = "served" /\ job[w].page = p
                                   THEN [job[w] EXCEPT !.old = TRUE] ELSE job[w]]
    BY DEF Change, gate
<1>2. ASSUME NEW v \in Workers
      PROVE  /\ job'[v] \in {Null} \cup Asking \cup Auditing /\ Step(v)' = Step(v)
             /\ Audits(v) => /\ job'[v].page = job[v].page /\ job'[v].had = job[v].had
                             /\ job'[v].left = job[v].left /\ job'[v].early = job[v].early
  <2>1. CASE Step(v) = "served" /\ job[v].page = p
    <3> DEFINE k == [job[v] EXCEPT !.old = TRUE]
    <3>1. job[v] \in Auditing
        BY <2>1, JobShapes DEF WorkInv, Audits
    <3>2. /\ k \in Auditing /\ k.page = job[v].page /\ k.had = job[v].had
          /\ k.step = job[v].step /\ k.left = job[v].left /\ k.early = job[v].early
        BY <3>1, AuditUpdates
    <3>3. job'[v] = k
        BY <1>1, <2>1
    <3> HIDE DEF k
    <3> QED
        BY <3>1, <3>2, <3>3, NoJobAssumption DEF Step
  <2>2. CASE ~(Step(v) = "served" /\ job[v].page = p)
    <3>1. job'[v] = job[v]
        BY <1>1, <2>2
    <3> QED
        BY <3>1 DEF Step, WorkInv, JobsOK
  <2> QED
      BY <2>1, <2>2
<1>3. JobsOK'
    BY <1>1, <1>2 DEF JobsOK
<1>4. HoldHonoured'
    BY <1>1, <1>2 DEF WorkInv, HoldHonoured, Audits
<1>5. \A v \in Workers : Carries(v)
    BY <1>1, <1>2 DEF Carries, Audits
<1> QED
    BY <1>3, <1>4, <1>5, WorkGoesOn

LEMMA AskKeeps ==
    ASSUME WorkInv, NEW w \in Runners, NEW p \in Pages, Ask(w, p)
    PROVE  WorkInv'
<1> DEFINE k == [page |-> p, step |-> "asking"]
<1>1. k \in Asking /\ k.step = "asking"
    BY DEF Asking
<1>2. /\ job' = [job EXCEPT ![w] = k] /\ UNCHANGED <<facts, shared, pausedFor>>
      /\ w \in Workers
    BY DEF Ask, gate, rows, Workers
<1> HIDE DEF k
<1>3. /\ job'[w] = k /\ Step(w)' = "asking"
      /\ \A v \in Workers \ {w} : job'[v] = job[v] /\ Step(v)' = Step(v)
    BY <1>1, <1>2, NoJobAssumption DEF WorkInv, JobsOK, Step
<1>4. JobsOK'
    BY <1>1, <1>2 DEF WorkInv, JobsOK
<1>5. HoldHonoured'
    BY <1>2, <1>3 DEF WorkInv, HoldHonoured
<1>6. \A v \in Workers : Carries(v)
    BY <1>2, <1>3 DEF Carries, Audits
<1> QED
    BY <1>4, <1>5, <1>6, WorkGoesOn

LEMMA RestartKeeps ==
    ASSUME Restart
    PROVE  WorkInv'
<1>1. job' = [w \in Workers |-> Null] /\ \A v \in Workers : Step(v)' = "free"
    BY DEF Restart, Step
<1> QED
    BY <1>1, Zenon DEF WorkInv, JobsOK, HoldHonoured, Known, Together, Audits

(* The gate and the workers, over every step. *)
LEMMA WorkInitially == Init => GateInv /\ WorkInv
<1> SUFFICES ASSUME Init PROVE GateInv /\ WorkInv
    OBVIOUS
<1>1. GateInv
    BY GateInitially DEF Init
<1>2. job = [w \in Workers |-> Null] /\ \A v \in Workers : Step(v) = "free"
    BY DEF Init, Step
<1> QED
    BY <1>1, <1>2, Zenon DEF WorkInv, JobsOK, HoldHonoured, Known, Together, Audits

LEMMA WorkStep ==
    ASSUME GateInv, WorkInv, [Next]_vars
    PROVE  GateInv' /\ WorkInv'
<1>1. ASSUME UNCHANGED gate, UNCHANGED <<facts, job, shared>>
      PROVE  GateInv' /\ WorkInv'
    BY <1>1, GateUnchanged, WorkUnchanged DEF gate
<1>2. CASE Start
    BY <1>1, <1>2 DEF Start
<1>3. CASE NextRound
    BY <1>1, <1>3 DEF NextRound, rows
<1>4. CASE NextPart
    BY <1>1, <1>4 DEF NextPart, rows
<1>5. CASE Finish
    BY <1>1, <1>5 DEF Finish
<1>6. ASSUME NEW p \in Pages, Reuse(p) PROVE GateInv' /\ WorkInv'
    BY <1>6, GateUnchanged, WrittenKeeps DEF Reuse, gate
<1>7. ASSUME NEW p \in Pages, Infer(p) PROVE GateInv' /\ WorkInv'
    BY <1>7, GateUnchanged, WrittenKeeps DEF Infer, gate
<1>8. ASSUME NEW w \in Runners, Go(w) PROVE GateInv' /\ WorkInv'
  <2>1. w \in Workers /\ job[w].page \in Pages /\ ~Audits(w)
      BY <1>8, JobShapes DEF Workers, Go, Audits, WorkInv
  <2>2. Take(w, job[w].page) /\ UNCHANGED facts
      BY <1>8 DEF Go, rows
  <2> QED
      BY <2>1, <2>2, TakeKeeps, ReserveKeeps DEF Take
<1>9. ASSUME NEW w \in Runners, Stop(w) PROVE GateInv' /\ WorkInv'
    BY <1>9, GateUnchanged, FreedKeeps DEF Stop, Halt, Workers, gate, rows
<1>10. ASSUME NEW w \in Runners, Record(w) PROVE GateInv' /\ WorkInv'
  <2>1. w \in Workers /\ Audits(w) /\ StoreAnswer(w) /\ UNCHANGED gate
      BY <1>10 DEF Workers, Record, Audits
  <2>2. Freed(w)
      BY <1>10 DEF Record, Halt
  <2> QED
      BY <2>1, <2>2, GateUnchanged, FreedKeeps DEF gate
<1>11. ASSUME NEW w \in Runners, NEW p \in Pages, Ask(w, p) PROVE GateInv' /\ WorkInv'
    BY <1>11, GateUnchanged, AskKeeps DEF Ask
<1>12. ASSUME NEW w \in Workers, Send(w) PROVE GateInv' /\ WorkInv'
    BY <1>12, GateUnchanged, SendKeeps DEF Send
<1>13. ASSUME NEW w \in Workers, Serve(w) PROVE GateInv' /\ WorkInv'
    BY <1>13, ServeKeeps
<1>14. ASSUME NEW p \in Pages, DripTake(p) PROVE GateInv' /\ WorkInv'
  <2>1. Drip \in Workers /\ ~Audits(Drip) /\ Take(Drip, p) /\ UNCHANGED facts
      BY <1>14 DEF DripTake, Workers, Audits, Step, rows
  <2> QED
      BY <2>1, TakeKeeps, ReserveKeeps DEF Take
<1>15. ASSUME NEW p \in Pages, Change(p) PROVE GateInv' /\ WorkInv'
    BY <1>15, GateUnchanged, ChangeKeeps DEF Change
<1>16. CASE DripRecord
  <2>1. Drip \in Workers /\ Audits(Drip) /\ StoreAnswer(Drip) /\ Freed(Drip) /\ UNCHANGED gate
      BY <1>16 DEF Workers, DripRecord, Audits
  <2> QED
      BY <2>1, GateUnchanged, FreedKeeps DEF gate
<1>17. ASSUME NEW o, Order(o) PROVE GateInv' /\ WorkInv'
    BY <1>1, <1>17 DEF Order, rows
<1>18. CASE Restart
    BY <1>18, ResetKeeps, RestartKeeps DEF Restart
<1>19. CASE Expire
    BY <1>1, <1>19 DEF Expire, rows
<1>20. CASE Store
  <2>1. PICK r \in Rates : Remember(r)
      BY <1>20 DEF Store
  <2> QED
      BY <1>20, <2>1, RememberKeeps, WorkUnchanged DEF Store, Remember, rows
<1>21. CASE Tick
    BY <1>21, PassKeeps, TickKeeps DEF Tick
<1>22. CASE UNCHANGED vars
    BY <1>1, <1>22 DEF vars, rows
<1> QED
    BY <1>2, <1>3, <1>4, <1>5, <1>6, <1>7, <1>8, <1>9, <1>10, <1>11, <1>12, <1>13, <1>14,
       <1>15, <1>16, <1>17, <1>18, <1>19, <1>20, <1>21, <1>22
       DEF Next, Turn, RunStep

-----------------------------------------------------------------------------
(* A step of the audit that takes a verdict away is one that stores what was *)
(* not an answer, by a worker that had no verdict in hand.                   *)
LEMMA UncheckedHow ==
    ASSUME WorkInv, Next, NEW p \in Pages, facts[p] \in Verdicts, facts'[p] = "unchecked"
    PROVE  p \in shared
<1>1. ASSUME NEW w \in Workers, StoreAnswer(w), Audits(w)
      PROVE  p \in shared
  <2>1. facts'[p] # facts[p]
      BY DEF Verdicts
  <2>2. CASE job[w].answer = "page"
    <3> DEFINE q == job[w].page
    <3>1. facts' = [facts EXCEPT ![q] = "fetched"]
        BY <1>1, <2>2 DEF StoreAnswer
    <3> HIDE DEF q
    <3>2. \A r : [facts EXCEPT ![q] = "fetched"][r] \in {facts[r], "fetched"}
        OBVIOUS
    <3> QED
        BY <2>1, <3>1, <3>2
  <2>3. CASE job[w].answer # "page"
    <3>1. job[w].answer = "transient" /\ ~job[w].had /\ facts' = [facts EXCEPT ![job[w].page] = "unchecked"]
        BY <1>1, <2>1, <2>3 DEF StoreAnswer, Keeps, rows
    <3>2. p = job[w].page
        BY <2>1, <3>1
    <3> QED
        BY <1>1, <3>1, <3>2 DEF WorkInv, Known
  <2> QED
      BY <2>2, <2>3
<1>2. facts' # facts
    BY DEF Verdicts
<1>3. ASSUME NEW q \in Pages, NEW x \in Verdicts, facts' = [facts EXCEPT ![q] = x]
      PROVE  FALSE
  <2>1. \A r : [facts EXCEPT ![q] = x][r] \in {facts[r], x}
      OBVIOUS
  <2> QED
      BY <1>3, <2>1 DEF Verdicts
<1>4. \A q \in Pages : ~Reuse(q) /\ ~Infer(q)
    BY <1>3 DEF Reuse, Infer, Verdicts
<1>5. \/ \E w \in Runners : Record(w)
      \/ DripRecord
    BY <1>2, <1>4 DEF Next, Turn, RunStep, Start, NextRound, NextPart, Finish, Go, Stop, Ask, Send, Serve,
          DripTake, Change, Order, Restart, Expire, Store, Tick, rows
<1> QED
    BY <1>1, <1>5 DEF Record, DripRecord, Audits, Workers

-----------------------------------------------------------------------------
(* The rows. *)
RowsOK ==
    /\ facts \in [Pages -> {"none", "unchecked"} \cup Verdicts]
    /\ due \in SUBSET Pages /\ stale \in SUBSET Pages /\ crossed \in SUBSET Pages
    /\ fresh \in SUBSET Pages

RowsInv == RowsOK /\ StaleRefetched

LEMMA StoreAnswerKeeps ==
    ASSUME RowsInv, NEW w \in Workers, JobsOK, Audits(w), StoreAnswer(w)
    PROVE  RowsInv'
<1> DEFINE p == job[w].page
           old == job[w].old
<1>1. p \in Pages
    BY JobShapes DEF Audits
<1> HIDE DEF p, old
<1>2. CASE UNCHANGED rows
    BY <1>2 DEF RowsInv, RowsOK, StaleRefetched, rows
<1>3. CASE /\ facts' = [facts EXCEPT ![p] = "fetched"]
           /\ due' = due \ {p}
           /\ stale' = IF old THEN stale \cup {p} ELSE stale \ {p}
           /\ crossed' = IF old THEN crossed \cup {p} ELSE crossed \ {p}
           /\ fresh' \in {{}, fresh \cup {p}}
  <2>1. RowsOK'
      BY <1>1, <1>3 DEF RowsInv, RowsOK, Verdicts
  <2>2. p \notin stale' \ crossed' /\ facts'[p] = "fetched"
      BY <1>1, <1>3 DEF RowsInv, RowsOK
  <2>3. ASSUME NEW q \in Pages, q # p
        PROVE  /\ facts'[q] = facts[q] /\ (q \in due' <=> q \in due)
               /\ (q \in stale' \ crossed' <=> q \in stale \ crossed)
      BY <1>1, <1>3, <2>3 DEF RowsInv, RowsOK
  <2> QED
      BY <2>1, <2>2, <2>3 DEF RowsInv, StaleRefetched
<1>4. CASE /\ facts' = [facts EXCEPT ![p] = "unchecked"]
           /\ due' = due \cup {p}
           /\ UNCHANGED <<stale, crossed, fresh>>
    BY <1>1, <1>4 DEF RowsInv, RowsOK, StaleRefetched
<1> QED
    BY <1>2, <1>3, <1>4, Zenon DEF StoreAnswer, p, old

LEMMA RowsInitially == Init => RowsInv
BY DEF Init, RowsInv, RowsOK, StaleRefetched, Verdicts

(* A page that changes is due, whoever writes its row. *)
LEMMA RowsStep ==
    ASSUME RowsInv, JobsOK, [Next]_vars
    PROVE  RowsInv'
<1>1. ASSUME UNCHANGED <<facts, due, stale, crossed>>, fresh' \in SUBSET Pages
      PROVE  RowsInv'
    BY <1>1 DEF RowsInv, RowsOK, StaleRefetched
<1>2. ASSUME UNCHANGED rows PROVE RowsInv'
    BY <1>1, <1>2 DEF rows, RowsInv, RowsOK
<1>3. CASE Start
    BY <1>1, <1>3 DEF Start
<1>4. CASE Finish \/ Restart
    BY <1>1, <1>4 DEF Finish, Restart, EndRun
<1>5. ASSUME NEW p \in Pages, Reuse(p) PROVE RowsInv'
  <2>1. /\ facts' = [facts EXCEPT ![p] = "fetched"] /\ UNCHANGED <<due, fresh>>
        /\ stale' = IF p \in outdated THEN stale \cup {p} ELSE stale
        /\ crossed' = IF p \in outdated \ due THEN crossed \cup {p} ELSE crossed
      BY <1>5 DEF Reuse
  <2>2. RowsOK'
      BY <2>1 DEF RowsInv, RowsOK, Verdicts
  <2>3. p \in stale' \ crossed' => p \in due
      BY <2>1 DEF RowsInv, RowsOK, StaleRefetched
  <2>4. ASSUME NEW q \in Pages, q # p
        PROVE  facts'[q] = facts[q] /\ (q \in stale' \ crossed' <=> q \in stale \ crossed)
      BY <2>1, <2>4 DEF RowsInv, RowsOK
  <2> QED
      BY <2>1, <2>2, <2>3, <2>4 DEF RowsInv, RowsOK, StaleRefetched
<1>6. ASSUME NEW p \in Pages, Infer(p) PROVE RowsInv'
  <2>1. /\ facts' = [facts EXCEPT ![p] = "inferred"] /\ UNCHANGED <<stale, fresh>>
        /\ due' = due \cup {p} /\ crossed' = crossed \ {p}
      BY <1>6 DEF Infer, Unfetched
  <2> QED
      BY <2>1 DEF RowsInv, RowsOK, StaleRefetched, Verdicts
<1>7. ASSUME NEW p \in Pages, Change(p) PROVE RowsInv'
    BY <1>7 DEF Change, RowsInv, RowsOK, StaleRefetched
<1>8. ASSUME NEW w \in Runners, Record(w) PROVE RowsInv'
    BY <1>8, StoreAnswerKeeps DEF Record, Audits, Workers
<1>9. CASE DripRecord
    BY <1>9, StoreAnswerKeeps DEF DripRecord, Audits, Workers
<1>10. CASE UNCHANGED vars
    BY <1>2, <1>10 DEF vars
<1>11. CASE \/ NextRound \/ NextPart \/ Expire \/ Store \/ Tick
            \/ \E w \in Runners : Go(w) \/ Stop(w) \/ \E p \in Pages : Ask(w, p)
            \/ \E w \in Workers : Send(w) \/ Serve(w)
            \/ \E p \in Pages : DripTake(p)
            \/ \E o \in {"none", "pause", "cancel"} : Order(o)
    BY <1>2, <1>11 DEF NextRound, NextPart, Expire, Store, Tick, Go, Stop, Ask, Send, Serve, DripTake, Order
<1> QED
    BY <1>3, <1>4, <1>5, <1>6, <1>7, <1>8, <1>9, <1>10, <1>11 DEF Next, Turn, RunStep

-----------------------------------------------------------------------------
(* The run.  While it was not stopped, the pages it has to fetch are parted  *)
(* among the queue, the runners (each at one of its own), the refused, the   *)
(* given up and the done; those left to the sample are other pages.          *)
Flight == PagesOf(Runners)

RunOK ==
    /\ stage \in {"idle", "fetch", "fill"} /\ round \in 0..RetryRounds
    /\ reuse \in SUBSET Pages /\ outdated \in SUBSET Pages /\ planned \in SUBSET Pages
    /\ rest \in SUBSET Pages /\ queue \in SUBSET Pages /\ retry \in SUBSET Pages
    /\ left \in SUBSET Pages /\ visited \in SUBSET Pages
    /\ cancelled \in BOOLEAN /\ rejected \in BOOLEAN /\ overruled \in BOOLEAN

Unstopped == stage # "idle" /\ ~cancelled /\ ~rejected /\ ~overruled

OwnPages ==
    \A v, w \in Runners :
        v # w /\ job[v] # Null /\ job[w] # Null => job[v].page # job[w].page

Parted ==
    /\ planned = queue \cup Flight \cup retry \cup left \cup visited
    /\ queue \cap Flight = {} /\ queue \cap retry = {} /\ queue \cap left = {}
    /\ queue \cap visited = {} /\ Flight \cap retry = {} /\ Flight \cap left = {}
    /\ Flight \cap visited = {} /\ retry \cap left = {} /\ retry \cap visited = {}
    /\ left \cap visited = {}

RunInv ==
    /\ stage # "fetch" => Busy(Runners) = {}
    /\ Unstopped => Parted /\ OwnPages /\ rest \cap planned = {}

LEMMA PartedAccounts ==
    ASSUME RunInv
    PROVE  Accounted
<1> SUFFICES ASSUME Unstopped PROVE Accounted
    BY DEF Accounted, Unstopped
<1> DEFINE places == <<queue, PagesOf(Runners), retry, left, visited>>
<1>1. Parted
    BY DEF RunInv
<1>2. /\ places[1] = queue /\ places[2] = Flight /\ places[3] = retry
      /\ places[4] = left /\ places[5] = visited
    BY DEF Flight
<1> HIDE DEF places
<1>3. planned = UNION {places[i] : i \in 1..5}
  <2>1. UNION {places[i] : i \in 1..5}
            = places[1] \cup places[2] \cup places[3] \cup places[4] \cup places[5]
    <3>1. \A i \in 1..5 : i = 1 \/ i = 2 \/ i = 3 \/ i = 4 \/ i = 5
        OBVIOUS
    <3>2. 1 \in 1..5 /\ 2 \in 1..5 /\ 3 \in 1..5 /\ 4 \in 1..5 /\ 5 \in 1..5
        OBVIOUS
    <3> QED
        BY <3>1, <3>2, Zenon
  <2> QED
      BY <1>1, <1>2, <2>1 DEF Parted
<1>4. \A i, j \in 1..5 : i < j => places[i] \cap places[j] = {}
    BY <1>1, <1>2 DEF Parted
<1>5. \A i, j \in 1..5 : i # j => places[i] \cap places[j] = {}
  <2> SUFFICES ASSUME NEW i \in 1..5, NEW j \in 1..5, i # j
               PROVE  places[i] \cap places[j] = {}
      OBVIOUS
  <2>1. CASE i < j
      BY <1>4, <2>1
  <2>2. CASE j < i
      BY <1>4, <2>2
  <2> QED
      BY <2>1, <2>2
<1> QED
    BY <1>3, <1>5 DEF Accounted, places

(* A worker that is where it was. *)
Stays(v) ==
    /\ job'[v] = Null <=> job[v] = Null
    /\ job[v] # Null => job'[v].page = job[v].page

LEMMA FlightKept ==
    ASSUME \A v \in Runners : Stays(v)
    PROVE  /\ Flight' = Flight /\ Busy(Runners)' = Busy(Runners)
           /\ OwnPages => OwnPages'
<1>1. Busy(Runners)' = Busy(Runners)
    BY DEF Busy, Stays
<1>2. Flight' = Flight
    BY <1>1 DEF Flight, PagesOf, Busy, Stays
<1>3. OwnPages => OwnPages'
    BY DEF OwnPages, Stays
<1> QED
    BY <1>1, <1>2, <1>3

LEMMA SendStays ==
    ASSUME JobsOK, NEW w \in Workers, Send(w), NEW v \in Workers
    PROVE  Stays(v)
<1>1. Step(w) = "waiting" /\ job[w] \in Auditing
      /\ job' = [job EXCEPT ![w] = [job[w] EXCEPT !.step = "sent", !.early = FALSE]]
    BY JobShapes DEF Send, Audits
<1> DEFINE k == [job[w] EXCEPT !.step = "sent", !.early = FALSE]
<1>2. k \in Auditing /\ k.page = job[w].page
    BY <1>1, AuditUpdates
<1> HIDE DEF k
<1>3. job'[w] = k /\ (v # w => job'[v] = job[v])
    BY <1>1 DEF JobsOK, k
<1> QED
    BY <1>1, <1>2, <1>3, NoJobAssumption DEF Stays

LEMMA ServeStays ==
    ASSUME JobsOK, NEW w \in Workers, Serve(w), NEW v \in Workers
    PROVE  Stays(v)
<1>1. PICK a \in Answers :
         job' = [x \in Workers |->
                     IF x = w THEN [job[w] EXCEPT !.step = "served", !.answer = a[1]]
                     ELSE IF Step(x) = "waiting" /\ job[x].left < pausedFor'
                     THEN [job[x] EXCEPT !.early = TRUE]
                     ELSE job[x]]
    BY DEF Serve
<1>2. a[1] \in {"page", "transient", "rejected", "failed"}
    BY DEF Answers
<1>3. CASE v = w
  <2> DEFINE k == [job[w] EXCEPT !.step = "served", !.answer = a[1]]
  <2>1. job[w] \in Auditing
      BY JobShapes DEF Serve, Audits
  <2>2. k \in Auditing /\ k.page = job[w].page
    <3> DEFINE b == a[1]
    <3>1. b \in {"page", "transient", "rejected", "failed"}
        BY <1>2
    <3> HIDE DEF b
    <3>2. [job[w] EXCEPT !.step = "served", !.answer = b] \in Auditing
        BY <2>1, <3>1, Zenon DEF Auditing
    <3>3. [job[w] EXCEPT !.step = "served", !.answer = b].page = job[w].page
        BY <2>1, Zenon DEF Auditing
    <3> QED
        BY <3>2, <3>3 DEF b
  <2>3. job'[v] = k
      BY <1>1, <1>3
  <2> HIDE DEF k
  <2> QED
      BY <1>3, <2>1, <2>2, <2>3, NoJobAssumption DEF Stays
<1>4. CASE v # w /\ Step(v) = "waiting" /\ job[v].left < pausedFor'
  <2> DEFINE k == [job[v] EXCEPT !.early = TRUE]
  <2>1. job[v] \in Auditing
      BY <1>4, JobShapes DEF Audits
  <2>2. k \in Auditing /\ k.page = job[v].page
      BY <2>1, AuditUpdates
  <2>3. job'[v] = k
      BY <1>1, <1>4
  <2> HIDE DEF k
  <2> QED
      BY <2>1, <2>2, <2>3, NoJobAssumption DEF Stays
<1>5. CASE v # w /\ ~(Step(v) = "waiting" /\ job[v].left < pausedFor')
    BY <1>1, <1>5 DEF Stays
<1> QED
    BY <1>3, <1>4, <1>5

LEMMA ChangeStays ==
    ASSUME JobsOK, NEW p \in Pages, Change(p), NEW v \in Workers
    PROVE  Stays(v)
<1>1. job' = [w \in Workers |-> IF Step(w) = "served" /\ job[w].page = p
                               THEN [job[w] EXCEPT !.old = TRUE] ELSE job[w]]
    BY DEF Change
<1>2. CASE Step(v) = "served" /\ job[v].page = p
  <2> DEFINE k == [job[v] EXCEPT !.old = TRUE]
  <2>1. job[v] \in Auditing
      BY <1>2, JobShapes DEF Audits
  <2>2. k \in Auditing /\ k.page = job[v].page
      BY <2>1, AuditUpdates
  <2>3. job'[v] = k
      BY <1>1, <1>2
  <2> HIDE DEF k
  <2> QED
      BY <2>1, <2>2, <2>3, NoJobAssumption DEF Stays
<1>3. CASE ~(Step(v) = "served" /\ job[v].page = p)
    BY <1>1, <1>3 DEF Stays
<1> QED
    BY <1>2, <1>3

LEMMA TickStays ==
    ASSUME JobsOK, Tick, NEW v \in Workers, v \notin Leaving
    PROVE  Stays(v)
<1>1. job' = [w \in Workers |-> IF w \in Leaving THEN Null
                                 ELSE IF Step(w) = "waiting" THEN [job[w] EXCEPT !.left = job[w].left - 1]
                                 ELSE job[w]]
    BY DEF Tick
<1>2. CASE Step(v) = "waiting"
  <2> DEFINE n == job[v].left - 1
             k == [job[v] EXCEPT !.left = n]
  <2>1. job[v] \in Auditing
      BY <1>2, JobShapes DEF Audits
  <2>2. n \in Nat
    <3>1. job[v].left \in Nat
        BY <2>1 DEF Auditing
    <3>2. job[v].left > 0
        BY <1>2, <2>1, NoJobAssumption DEF Tick, Busy
    <3> QED
        BY <3>1, <3>2
  <2>3. job'[v] = k
      BY <1>1, <1>2
  <2> HIDE DEF n
  <2>4. k \in Auditing /\ k.page = job[v].page
      BY <2>1, <2>2, Zenon DEF Auditing
  <2> HIDE DEF k
  <2> QED
      BY <2>1, <2>3, <2>4, NoJobAssumption DEF Stays
<1>3. CASE Step(v) # "waiting"
    BY <1>1, <1>3 DEF Stays
<1> QED
    BY <1>2, <1>3

(* A step that leaves the run and its workers where they are. *)
LEMMA RunGoesOn ==
    ASSUME RunInv, \A v \in Runners : Stays(v), UNCHANGED <<planned, run>>, rest' \subseteq rest
    PROVE  RunInv'
<1>1. /\ Flight' = Flight /\ Busy(Runners)' = Busy(Runners)
      /\ OwnPages => OwnPages'
    BY FlightKept
<1>2. Parted => Parted'
    BY <1>1 DEF Parted, run
<1>3. Unstopped' => Unstopped
    BY DEF Unstopped, run
<1> QED
    BY <1>1, <1>2, <1>3 DEF RunInv, run

LEMMA RunOKStep ==
    ASSUME RunOK, JobsOK, [Next]_vars
    PROVE  RunOK'
<1>1. ASSUME UNCHANGED <<plan, run>> PROVE RunOK'
    BY <1>1 DEF RunOK, plan, run
<1>0. 0 \in 0..RetryRounds
    BY AuditAssumption
<1>2. CASE Start
  <2>1. PICK fetch \in SUBSET Pages, sample \in SUBSET Pages :
            /\ reuse' = Pages \ fetch /\ planned' = sample /\ queue' = sample
            /\ rest' = fetch \ sample
      BY <1>2 DEF Start
  <2>2. /\ stage' = "fetch" /\ round' = 0
        /\ outdated' = {} /\ retry' = {} /\ left' = {} /\ visited' = {}
        /\ cancelled' = FALSE /\ rejected' = FALSE /\ overruled' = FALSE
      BY <1>2 DEF Start
  <2>3. reuse' \in SUBSET Pages /\ planned' \in SUBSET Pages /\ queue' \in SUBSET Pages
        /\ rest' \in SUBSET Pages /\ {} \in SUBSET Pages
      BY <2>1
  <2>4. FALSE \in BOOLEAN
      OBVIOUS
  <2> QED
      BY <1>0, <2>2, <2>3, <2>4, Zenon DEF RunOK
<1>3. CASE NextRound
    BY <1>3, AuditAssumption DEF NextRound, Again, Following, RunOK, plan
<1>4. CASE NextPart
    BY <1>4, AuditAssumption DEF NextPart, RunOK
<1>5. CASE Finish \/ Restart
  <2>1. /\ stage' = "idle" /\ round' = 0
        /\ reuse' = {} /\ outdated' = {} /\ planned' = {} /\ rest' = {} /\ queue' = {}
        /\ retry' = {} /\ left' = {} /\ visited' = {}
        /\ cancelled' = FALSE /\ rejected' = FALSE /\ overruled' = FALSE
      BY <1>5 DEF Finish, Restart, EndRun
  <2>2. {} \in SUBSET Pages /\ FALSE \in BOOLEAN
      OBVIOUS
  <2> QED
      BY <1>0, <2>1, <2>2, Zenon DEF RunOK
<1>6. CASE \E p \in Pages : Reuse(p) \/ Infer(p)
    BY <1>6 DEF Reuse, Infer, RunOK, run
<1>7. ASSUME NEW w \in Runners, Go(w) PROVE RunOK'
    BY <1>7 DEF Go, Overruled, RunOK, plan
<1>8. ASSUME NEW w \in Runners, Stop(w) PROVE RunOK'
    BY <1>8 DEF Stop, Halt, RunOK, plan
<1>9. ASSUME NEW w \in Runners, Record(w) PROVE RunOK'
  <2>1. job[w].page \in Pages
      BY <1>9, JobShapes DEF Record, Workers
  <2> QED
      BY <1>9, <2>1 DEF Record, Halt, Done, RunOK, plan
<1>10. ASSUME NEW w \in Runners, NEW p \in Pages, Ask(w, p) PROVE RunOK'
    BY <1>10 DEF Ask, RunOK, plan
<1>11. ASSUME NEW p \in Pages, Change(p) PROVE RunOK'
    BY <1>11 DEF Change, RunOK, run
<1>12. CASE Tick
    BY <1>12 DEF Tick, RunOK, plan
<1>13. CASE \/ DripRecord \/ Expire \/ Store \/ UNCHANGED vars
            \/ \E w \in Workers : Send(w) \/ Serve(w)
            \/ \E p \in Pages : DripTake(p)
            \/ \E o \in {"none", "pause", "cancel"} : Order(o)
    BY <1>1, <1>13 DEF DripRecord, Expire, Store, Send, Serve, DripTake, Order, vars
<1> QED
    BY <1>2, <1>3, <1>4, <1>5, <1>6, <1>7, <1>8, <1>9, <1>10, <1>11, <1>12, <1>13
       DEF Next, Turn, RunStep

(* No page is lost, and none is in two places: by the steps of the run. *)
LEMMA RunInvInitially == Init => RunInv
BY DEF Init, RunInv, Unstopped, Busy, Workers

LEMMA StartParts ==
    ASSUME RunInv, Start
    PROVE  RunInv'
<1>1. stage' = "fetch" /\ queue' = planned' /\ retry' = {} /\ left' = {} /\ visited' = {}
      /\ rest' \cap planned' = {} /\ job' = job
    BY DEF Start
<1>2. Busy(Runners) = {}
    BY DEF RunInv, Start
<1>3. Flight' = {} /\ OwnPages'
    BY <1>1, <1>2 DEF Flight, PagesOf, Busy, OwnPages
<1> QED
    BY <1>1, <1>3 DEF RunInv, Parted

LEMMA RoundsPart ==
    ASSUME RunInv, NextRound \/ NextPart
    PROVE  RunInv'
<1>1. queue = {} /\ Busy(Runners) = {} /\ job' = job /\ stage = "fetch"
      /\ UNCHANGED <<cancelled, rejected, overruled, visited>>
    BY DEF NextRound, NextPart, RoundOver
<1>2. Flight = {} /\ Flight' = {} /\ OwnPages' /\ Busy(Runners)' = {}
    BY <1>1 DEF Flight, PagesOf, Busy, OwnPages
<1>3. CASE NextRound
  <2>1. queue' = retry /\ retry' = {} /\ UNCHANGED <<planned, rest, left, stage>>
      BY <1>3 DEF NextRound, plan
  <2> QED
      BY <1>1, <1>2, <2>1 DEF RunInv, Parted, Unstopped
<1>4. CASE NextPart
  <2>1. retry' = {} /\ left' = IF cancelled THEN left ELSE left \cup retry
      BY <1>4 DEF NextPart
  <2>2. \/ stage' = "fill" /\ rest' \subseteq rest /\ UNCHANGED <<planned, queue>>
        \/ /\ queue' = rest /\ planned' = planned \cup rest /\ rest' = {}
           /\ UNCHANGED stage
      BY <1>4 DEF NextPart
  <2>3. Unstopped' => ~cancelled /\ Parted /\ rest \cap planned = {}
      BY <1>1 DEF RunInv, Unstopped
  <2>4. ASSUME Unstopped' PROVE Parted' /\ rest' \cap planned' = {}
      BY <1>1, <1>2, <2>1, <2>2, <2>3, <2>4 DEF Parted
  <2> QED
      BY <1>2, <2>4 DEF RunInv
<1> QED
    BY <1>3, <1>4

LEMMA AskParts ==
    ASSUME RunInv, JobsOK, NEW w \in Runners, NEW p \in Pages, Ask(w, p)
    PROVE  RunInv'
<1> DEFINE k == [page |-> p, step |-> "asking"]
<1>1. k.page = p /\ k # Null
    BY NoJobAssumption DEF Asking
<1>2. job[w] = Null
  <2>1. \E v \in Runners : job[v] = Null
      BY DEF Ask
  <2>2. w = CHOOSE v \in Runners : job[v] = Null
      BY DEF Ask
  <2> QED
      BY <2>1, <2>2, Zenon
<1>3. /\ job' = [job EXCEPT ![w] = k] /\ w \in Workers /\ stage = "fetch" /\ p \in queue
      /\ queue' = queue \ {p}
      /\ UNCHANGED <<stage, retry, left, visited, cancelled, rejected, overruled, planned, rest>>
    BY DEF Ask, Workers, plan
<1> HIDE DEF k
<1>4. job'[w] = k /\ \A v \in Runners \ {w} : job'[v] = job[v]
    BY <1>3 DEF JobsOK, Workers
<1>5. Flight' = Flight \cup {p}
    BY <1>1, <1>2, <1>4 DEF Flight, PagesOf, Busy
<1>6. ASSUME Unstopped' PROVE Parted' /\ OwnPages' /\ rest' \cap planned' = {}
  <2>1. Parted /\ OwnPages /\ rest \cap planned = {}
      BY <1>3, <1>6 DEF RunInv, Unstopped
  <2>2. Parted'
      BY <1>3, <1>5, <2>1 DEF Parted
  <2>3. \A v \in Runners : job[v] # Null => job[v].page \in Flight
      BY DEF Flight, PagesOf, Busy
  <2>4. p \notin Flight
      BY <1>3, <2>1 DEF Parted
  <2>5. OwnPages'
      BY <1>1, <1>4, <2>1, <2>3, <2>4 DEF OwnPages
  <2> QED
      BY <1>3, <2>1, <2>2, <2>5
<1> QED
    BY <1>3, <1>6 DEF RunInv

LEMMA RecordParts ==
    ASSUME RunInv, JobsOK, NEW w \in Runners, Record(w)
    PROVE  RunInv'
<1> DEFINE p == job[w].page
<1>1. job[w] # Null /\ w \in Workers /\ stage = "fetch"
    BY DEF Record, Step, Workers, RunInv, Busy
<1>2. UNCHANGED <<stage, planned, rest>>
    BY DEF Record, Halt, plan
<1>3. CASE job[w].answer = "rejected"
    BY <1>1, <1>2, <1>3 DEF Record, Halt, RunInv, Unstopped
<1>4. CASE job[w].answer # "rejected"
  <2>1. /\ job' = [job EXCEPT ![w] = Null]
        /\ UNCHANGED <<queue, left, cancelled, rejected, overruled>>
        /\ \/ retry' = retry \cup {p} /\ visited' = visited
           \/ retry' = retry /\ visited' = visited \cup {p}
      BY <1>4 DEF Record, Freed, Done
  <2>2. job'[w] = Null /\ \A v \in Runners \ {w} : job'[v] = job[v]
      BY <1>1, <2>1 DEF JobsOK, Workers
  <2>3. ASSUME Unstopped' PROVE Parted' /\ OwnPages' /\ rest' \cap planned' = {}
    <3>1. Parted /\ OwnPages /\ rest \cap planned = {}
        BY <1>2, <2>1, <2>3 DEF RunInv, Unstopped
    <3>2. p \in Flight
        BY <1>1 DEF Flight, PagesOf, Busy
    <3>3. Flight' = Flight \ {p}
        BY <1>1, <2>2, <3>1 DEF Flight, PagesOf, Busy, OwnPages
    <3>4. OwnPages'
        BY <2>2, <3>1 DEF OwnPages
    <3> HIDE DEF p
    <3>5. Parted'
        BY <1>2, <2>1, <3>1, <3>2, <3>3 DEF Parted
    <3> QED
        BY <1>2, <3>1, <3>4, <3>5
  <2> QED
      BY <1>1, <1>2, <2>3 DEF RunInv
<1> QED
    BY <1>3, <1>4

LEMMA RunStepKeeps ==
    ASSUME GateInv, JobsOK, RunOK, RunInv, [Next]_vars
    PROVE  RunInv'
<1>1. ASSUME UNCHANGED <<job, plan, run>> PROVE RunInv'
    BY <1>1, RunGoesOn DEF Stays, plan
<1>2. CASE Start
    BY <1>2, StartParts
<1>3. CASE NextRound \/ NextPart
    BY <1>3, RoundsPart
<1>4. CASE Finish \/ Restart
  <2>1. stage' = "idle" /\ Busy(Runners)' = {}
      BY <1>4 DEF Finish, Restart, EndRun, RunInv, Busy, Workers
  <2> QED
      BY <2>1 DEF RunInv, Unstopped
<1>5. CASE \E p \in Pages : Reuse(p) \/ Infer(p)
    BY <1>5, RunGoesOn DEF Reuse, Infer, Stays
<1>6. ASSUME NEW w \in Runners, Go(w) PROVE RunInv'
  <2>1. /\ cancelled' = FALSE /\ overruled' = (overruled \/ cancelled)
        /\ UNCHANGED <<plan, stage, queue, retry, left, visited, rejected>>
      BY <1>6 DEF Go, Overruled
  <2>2. \A v \in Runners : Stays(v)
    <3> DEFINE k == [page |-> job[w].page, step |-> "waiting", left |-> nextIn, early |-> FALSE,
                     had |-> facts[job[w].page] \in Verdicts, answer |-> Null, old |-> FALSE]
    <3>1. job' = [job EXCEPT ![w] = k] /\ w \in Workers
        BY <1>6 DEF Go, Take, Workers
    <3>2. k.page = job[w].page
        OBVIOUS
    <3>3. k # Null /\ job[w] # Null
      <4>1. job[w] # Null
          BY <1>6 DEF Go, Step
      <4>2. job[w].page \in Pages
          BY <4>1, JobShapes DEF Workers
      <4>3. nextIn \in Nat
          BY DEF GateInv, GateTypeOK
      <4>4. (facts[job[w].page] \in Verdicts) \in BOOLEAN /\ FALSE \in BOOLEAN
          OBVIOUS
      <4>5. k \in Auditing
          BY <4>2, <4>3, <4>4, Zenon DEF Auditing
      <4> QED
          BY <4>1, <4>5, NoJobAssumption
    <3> HIDE DEF k
    <3>4. job'[w] = k /\ \A v \in Runners \ {w} : job'[v] = job[v]
        BY <3>1 DEF JobsOK, Workers
    <3> QED
        BY <3>2, <3>3, <3>4 DEF Stays
  <2>3. Flight' = Flight /\ Busy(Runners)' = Busy(Runners) /\ (OwnPages => OwnPages')
      BY <2>2, FlightKept
  <2>4. Unstopped' => Unstopped
      BY <2>1, Zenon DEF Unstopped
  <2>5. Parted => Parted'
      BY <2>1, <2>3 DEF Parted, plan
  <2> QED
      BY <2>1, <2>3, <2>4, <2>5 DEF RunInv, plan
<1>7. ASSUME NEW w \in Runners, Stop(w) PROVE RunInv'
  <2>1. stage = "fetch" /\ stage' = stage /\ cancelled' = TRUE
      BY <1>7 DEF Stop, Halt, RunInv, Busy, Step
  <2> QED
      BY <2>1 DEF RunInv, Unstopped
<1>8. ASSUME NEW w \in Runners, Record(w) PROVE RunInv'
    BY <1>8, RecordParts
<1>9. ASSUME NEW w \in Runners, NEW p \in Pages, Ask(w, p) PROVE RunInv'
    BY <1>9, AskParts
<1>10. ASSUME NEW w \in Workers, Send(w) PROVE RunInv'
    BY <1>10, SendStays, RunGoesOn DEF Send, plan, Workers
<1>11. ASSUME NEW w \in Workers, Serve(w) PROVE RunInv'
    BY <1>11, ServeStays, RunGoesOn DEF Serve, plan, Workers
<1>12. ASSUME NEW p \in Pages, Change(p) PROVE RunInv'
    BY <1>12, ChangeStays, RunGoesOn DEF Change, Workers
<1>13. CASE Tick
  <2>1. CASE Leaving = {}
    <3>1. UNCHANGED <<planned, rest, run>>
      <4>1. cancelled' = (cancelled \/ Leaving # {}) /\ queue' = queue
            /\ UNCHANGED <<planned, rest, stage, retry, left, visited, round, rejected, overruled>>
          BY <1>13, <2>1 DEF Tick, plan
      <4>2. cancelled' = cancelled
          BY <2>1, <4>1, Zenon DEF RunOK
      <4> QED
          BY <4>1, <4>2 DEF run
    <3> QED
        BY <1>13, <2>1, <3>1, TickStays, RunGoesOn DEF Workers
  <2>2. CASE Leaving # {}
    <3>1. stage = "fetch" /\ stage' = stage /\ cancelled'
        BY <1>13, <2>2 DEF Tick, Leaving, RunInv
    <3> QED
        BY <3>1 DEF RunInv, Unstopped
  <2> QED
      BY <2>1, <2>2
<1>14. CASE DripRecord \/ \E p \in Pages : DripTake(p)
  <2>1. \A v \in Runners : job'[v] = job[v]
      BY <1>14, AuditAssumption DEF DripRecord, DripTake, Freed, Take, JobsOK, Workers
  <2>2. UNCHANGED <<plan, run>>
      BY <1>14 DEF DripRecord, DripTake
  <2> QED
      BY <2>1, <2>2, RunGoesOn DEF Stays, plan
<1>15. CASE \/ Expire \/ Store \/ UNCHANGED vars
            \/ \E o \in {"none", "pause", "cancel"} : Order(o)
    BY <1>1, <1>15 DEF Expire, Store, Order, vars
<1> QED
    BY <1>2, <1>3, <1>4, <1>5, <1>6, <1>7, <1>8, <1>9, <1>10, <1>11, <1>12, <1>13, <1>14, <1>15
       DEF Next, Turn, RunStep

-----------------------------------------------------------------------------
(* The rest of the types. *)
RestOK ==
    /\ shared \in SUBSET Pages
    /\ shown \in BOOLEAN /\ ctl \in {"none", "pause", "cancel"}
    /\ count \in 0..MaxEvents

LEMMA CountKept ==
    ASSUME count \in 0..MaxEvents,
           Counted \/ UNCHANGED count \/ count' = Smaller(MaxEvents, count + 1)
    PROVE  count' \in 0..MaxEvents
BY AuditAssumption DEF Counted, Smaller

LEMMA RestStep ==
    ASSUME RestOK, JobsOK, [Next]_vars
    PROVE  RestOK'
<1>1. count' \in 0..MaxEvents
  <2>1. count \in 0..MaxEvents
      BY DEF RestOK
  <2>2. \A w \in Workers : Serve(w) => Counted \/ UNCHANGED count \/ count' = Smaller(MaxEvents, count + 1)
      BY DEF Serve, Counts
  <2>3. CASE Next
    <3>1. Counted \/ UNCHANGED count \/ count' = Smaller(MaxEvents, count + 1)
        BY <2>2, <2>3 DEF Next, Turn, RunStep, Start, NextRound, NextPart, Finish, Reuse, Infer, Go, Stop, Record,
              Ask, Send, DripTake, Change, DripRecord, Order, Restart, Expire, Store, Tick
    <3> QED
        BY <2>1, <3>1, CountKept
  <2>4. CASE UNCHANGED vars
      BY <2>1, <2>4 DEF vars
  <2> QED
      BY <2>3, <2>4
<1>2. shared' \in SUBSET Pages
  <2>1. ASSUME UNCHANGED shared PROVE shared' \in SUBSET Pages
      BY <2>1 DEF RestOK
  <2>2. ASSUME NEW w, Freed(w) PROVE shared' \in SUBSET Pages
      BY <2>2 DEF RestOK, Freed
  <2>3. ASSUME NEW w, NEW p \in Pages, Take(w, p) PROVE shared' \in SUBSET Pages
      BY <2>3 DEF RestOK, Take
  <2>4. ASSUME NEW p \in Pages, Reuse(p) \/ Infer(p) PROVE shared' \in SUBSET Pages
      BY <2>4 DEF RestOK, Reuse, Infer, Joined
  <2>5. ASSUME NEW w \in Runners, Go(w) PROVE shared' \in SUBSET Pages
    <3>1. job[w].page \in Pages
        BY <2>5, JobShapes DEF Go, Workers
    <3> QED
        BY <2>3, <2>5, <3>1 DEF Go
  <2>6. ASSUME NEW w \in Runners, Stop(w) \/ Record(w) PROVE shared' \in SUBSET Pages
      BY <2>2, <2>6 DEF Stop, Record, Halt
  <2>7. CASE DripRecord
      BY <2>2, <2>7 DEF DripRecord
  <2>8. ASSUME NEW p \in Pages, DripTake(p) PROVE shared' \in SUBSET Pages
      BY <2>3, <2>8 DEF DripTake
  <2>9. CASE Tick \/ Restart
      BY <2>9 DEF Tick, Restart, RestOK
  <2>10. CASE \/ Start \/ NextRound \/ NextPart \/ Finish \/ Expire \/ Store \/ UNCHANGED vars
              \/ \E w \in Runners, p \in Pages : Ask(w, p)
              \/ \E w \in Workers : Send(w) \/ Serve(w)
              \/ \E p \in Pages : Change(p)
              \/ \E o \in {"none", "pause", "cancel"} : Order(o)
      BY <2>1, <2>10 DEF Start, NextRound, NextPart, Finish, Expire, Store, Ask, Send, Serve, Change, Order, vars
  <2> QED
      BY <2>4, <2>5, <2>6, <2>7, <2>8, <2>9, <2>10 DEF Next, Turn, RunStep
<1>3. shown' \in BOOLEAN /\ ctl' \in {"none", "pause", "cancel"}
  <2>1. CASE UNCHANGED cache
      BY <2>1 DEF RestOK, cache
  <2>2. CASE Start \/ Finish \/ Expire
    <3>1. shown' \in {TRUE, FALSE} /\ ctl' = "none"
        BY <2>2 DEF Start, Finish, Expire
    <3> QED
        BY <3>1
  <2>3. CASE \E o \in {"none", "pause", "cancel"} : Order(o)
      BY <2>3 DEF RestOK, Order
  <2>4. CASE Tick
      BY <2>4 DEF RestOK, Tick
  <2>5. CASE NextRound \/ NextPart \/ \E p \in Pages : Reuse(p) \/ Infer(p)
      BY <2>1, <2>5 DEF NextRound, NextPart, Reuse, Infer, run
  <2>6. CASE \E w \in Runners : RunStep(w)
      BY <2>1, <2>6 DEF RunStep, Go, Stop, Record, Ask
  <2>7. CASE \/ DripRecord \/ Restart \/ Store \/ UNCHANGED vars
             \/ \E w \in Workers : Send(w) \/ Serve(w)
             \/ \E p \in Pages : DripTake(p) \/ Change(p)
      BY <2>1, <2>7 DEF DripRecord, Restart, Store, Send, Serve, DripTake, Change, vars
  <2> QED
      BY <2>2, <2>3, <2>4, <2>5, <2>6, <2>7 DEF Next, Turn
<1> QED
    BY <1>1, <1>2, <1>3 DEF RestOK

-----------------------------------------------------------------------------
(* The inductive invariant. *)
IInv == GateInv /\ WorkInv /\ RowsInv /\ RunOK /\ RunInv /\ RestOK

LEMMA InvInitially == Init => IInv
<1> SUFFICES ASSUME Init PROVE IInv
    OBVIOUS
<1>1. RunOK
  <2>1. 0 \in 0..RetryRounds /\ {} \in SUBSET Pages /\ FALSE \in BOOLEAN
      BY AuditAssumption
  <2> QED
      BY <2>1, Zenon DEF Init, RunOK
<1>2. RestOK
  <2>1. 0 \in 0..MaxEvents /\ {} \in SUBSET Pages /\ FALSE \in BOOLEAN
      BY AuditAssumption
  <2> QED
      BY <2>1, Zenon DEF Init, RestOK
<1> QED
    BY <1>1, <1>2, WorkInitially, RowsInitially, RunInvInitially DEF IInv

LEMMA InvStep ==
    ASSUME IInv, [Next]_vars
    PROVE  IInv'
<1>1. JobsOK
    BY DEF IInv, WorkInv
<1> QED
    BY <1>1, WorkStep, RowsStep, RunOKStep, RunStepKeeps, RestStep DEF IInv

LEMMA Invariant == Spec => []IInv
BY InvInitially, InvStep, PTL DEF Spec

LEMMA InvTypes ==
    ASSUME IInv
    PROVE  TypeOK
<1>1. GateTypeOK
    BY DEF IInv, GateInv
<1>2. facts \in [Pages -> {"none", "unchecked"} \cup Verdicts]
      /\ {due, stale, crossed, fresh, shared} \subseteq SUBSET Pages
    BY DEF IInv, RowsInv, RowsOK, RestOK
<1>3. job \in [Workers -> {Null} \cup Asking \cup Auditing]
    BY DEF IInv, WorkInv, JobsOK
<1>4. {reuse, outdated, planned, rest, queue, retry, left, visited} \subseteq SUBSET Pages
    BY DEF IInv, RunOK
<1>5. /\ stage \in {"idle", "fetch", "fill"} /\ round \in 0..RetryRounds
      /\ cancelled \in BOOLEAN /\ rejected \in BOOLEAN /\ overruled \in BOOLEAN
    BY DEF IInv, RunOK
<1>6. shown \in BOOLEAN /\ count \in 0..MaxEvents /\ ctl \in {"none", "pause", "cancel"}
    BY DEF IInv, RestOK
<1> QED
    BY <1>1, <1>2, <1>3, <1>4, <1>5, <1>6 DEF TypeOK

(* The rows, the plan, the workers, the rates and the times of the gate keep *)
(* their shape: no wait is of less than no ticks, and no rate is one that    *)
(* the settings do not allow.                                                *)
THEOREM TypeCorrect == Spec => []TypeOK
BY Invariant, InvTypes, PTL

(* No request that took its slot after a refusal leaves before the hold the  *)
(* refusal set is over, whatever answers come meanwhile (take(), backoff()). *)
THEOREM HoldAlwaysHonoured == Spec => []HoldHonoured
<1>1. IInv => HoldHonoured
    BY DEF IInv, WorkInv
<1> QED
    BY <1>1, Invariant, PTL

(* The gate settles under every rate the site has refused, and stays there   *)
(* over any number of answers, steps up and restarts (rateOf(), ok()).       *)
THEOREM NeverProbes == Spec => []NeverProbesPast
<1>1. IInv => NeverProbesPast
    BY GateNeverProbes DEF IInv
<1> QED
    BY <1>1, Invariant, PTL

(* A run that is not stopped loses no page and does none twice, through      *)
(* rounds, retries and samples that prove nothing (auditAll()).              *)
THEOREM AllAccounted == Spec => []Accounted
<1>1. IInv => Accounted
    BY PartedAccounts DEF IInv
<1> QED
    BY <1>1, Invariant, PTL

(* Whatever was filled in or has changed is fetched by the next run          *)
(* (needsFetch()).                                                           *)
THEOREM StaleIsRefetched == Spec => []StaleRefetched
<1>1. IInv => StaleRefetched
    BY DEF IInv, RowsInv
<1> QED
    BY <1>1, Invariant, PTL

(* A verdict is lost to a refusal only where two audits met (keepVerdict()   *)
(* as auditEntry() uses it).                                                 *)
THEOREM VerdictsSurvive == Spec => VerdictSurvives
<1>1. ASSUME IInv, [Next]_vars
      PROVE  [\A p \in Pages : facts[p] \in Verdicts /\ facts'[p] = "unchecked" => p \in shared]_vars
    BY <1>1, UncheckedHow DEF IInv
<1> QED
    BY <1>1, Invariant, PTL DEF Spec, VerdictSurvives
=============================================================================
