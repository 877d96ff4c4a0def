----------------------------- MODULE PoliteGate -----------------------------
(***************************************************************************)
(* The gate every request to a customer's site goes through (HostGate in   *)
(* polite.ts), for one host and one setting of its rate.  It hands out     *)
(* slots at a rate that halves when the site refuses, climbs while it      *)
(* answers, and never passes a learned ceiling.  Times are kept as the     *)
(* time left, in ticks; rates are whole numbers of requests per Second.    *)
(***************************************************************************)
EXTENDS Integers, FiniteSets

CONSTANTS
    Second,         \* ticks a rate is counted over
    MinRps, StartRps, MaxRps,   \* MIN_RPS, the workspace's start and maximum
    Event,          \* EVENT_MS
    Window,         \* WINDOW_MS
    MaxPause,       \* MAX_PAUSE_MS
    StepEvery,      \* STEP_EVERY
    Null

ASSUME RatesAssumption ==
    /\ {Second, MinRps, StartRps, MaxRps, StepEvery} \subseteq Nat \ {0}
    /\ MinRps <= StartRps /\ StartRps <= MaxRps
ASSUME TimesAssumption == {Event, Window, MaxPause} \subseteq Nat /\ Event <= Window
ASSUME NullAssumption == Null \notin Int

VARIABLES
    nextIn,     \* nextAt: ticks to the next free slot
    pausedFor,  \* pausedUntil: ticks left of the hold
    refusedAgo, \* refusedAt: ticks since the event's first refusal, Window if none
    rps,        \* the rate in use, Null before it was first set
    healthy,    \* answers since the last refusal, modulo STEP_EVERY
    ceiling,    \* the ceiling learned since the process started, or Null
    learned,    \* the one stored with the workspace, or Null
    storing,    \* the ceilings being stored, in calls that nothing waits for
    refused     \* history variable: the lowest rate refused and not forgotten, or Null

gate == <<nextIn, pausedFor, refusedAgo, rps, healthy, ceiling, learned, storing, refused>>

Rates == MinRps..MaxRps

Smaller(a, b) == IF a <= b THEN a ELSE b
Larger(a, b) == IF a <= b THEN b ELSE a

-----------------------------------------------------------------------------
CeilingOf == IF ceiling # Null THEN ceiling ELSE learned

AtMost(r, cap) == IF cap = Null THEN r ELSE Smaller(r, cap)

(* rateOf() of a rate r: never under the minimum, never over the maximum or  *)
(* the ceiling.                                                              *)
RateAt(r, cap) == Larger(MinRps, AtMost(Smaller(MaxRps, IF r = Null THEN StartRps ELSE r), cap))

Rate == RateAt(rps, CeilingOf)

(* 1000 / rate, with at least a tick between two slots.                      *)
Interval == Larger(1, Second \div Rate)

Half(r) == Larger(MinRps, r \div 2)

(* 70% of a rate.                                                            *)
LoweredMutant(r) == Larger(MinRps, r)

Lowered(r) == Larger(MinRps, (r * 7) \div 10)

GateInit ==
    /\ nextIn = 0
    /\ pausedFor = 0
    /\ refusedAgo = Window
    /\ rps = Null
    /\ healthy = 0
    /\ ceiling = Null
    /\ learned = Null
    /\ storing = {}
    /\ refused = Null

(* take(): the slot in `nextIn' ticks is reserved, the one after it is next. *)
Reserve ==
    /\ nextIn' = nextIn + Interval
    /\ UNCHANGED <<pausedFor, refusedAgo, rps, healthy, ceiling, learned, storing, refused>>

(* Every later slot is after the hold; a pause of 0 changes nothing.         *)
HeldMutant(pause) ==
    /\ pausedFor' = Larger(pausedFor, pause)
    /\ UNCHANGED nextIn

Held(pause) ==
    /\ pausedFor' = Larger(pausedFor, pause)
    /\ nextIn' = Larger(nextIn, pausedFor')

(* Refusals this close to an event's first one are the same event.           *)
SameEvent == refusedAgo < Event

(* limit(): the site says its window resets in `reset' ticks and what rate   *)
(* the requests left until then allow; with none left (Null) it is waited    *)
(* out, otherwise the rate goes no higher.                                   *)
Spread(r, limit) ==
    IF limit # Null /\ limit.rate # Null /\ limit.rate < RateAt(r, CeilingOf')
    THEN Larger(MinRps, limit.rate)
    ELSE r

(* A step up: a window after the last refusal, every STEP_EVERY answers.     *)
Faster(r) == IF healthy' = 0 /\ refusedAgo >= Window THEN Smaller(MaxRps, Rate + 1) ELSE r

(* The first refusal of an event lowers the rate and the ceiling, and has    *)
(* the ceiling stored (onLearn).                                             *)
Refusal(limit) ==
    IF SameEvent
    THEN /\ UNCHANGED <<refusedAgo, healthy, ceiling, storing, refused>>
         /\ rps' = Spread(rps, limit)
    ELSE /\ refusedAgo' = 0
         /\ healthy' = 0
         /\ ceiling' = AtMost(Lowered(Rate), CeilingOf)
         /\ storing' = storing \cup {ceiling'}
         /\ rps' = Spread(Half(Rate), limit)
         /\ refused' = AtMost(Rate, refused)

(* politeRequest(), once the site answered: backoff() when it refused, which *)
(* holds every later request for its Retry-After `after', or for a window    *)
(* when that is Null; ok() when it served; then limit().                     *)
Answered(status, after, limit) ==
    LET asked == IF status # "refused" THEN 0 ELSE IF after = Null THEN Window ELSE after
        wait == IF limit # Null /\ limit.rate = Null THEN limit.reset ELSE 0
    IN  /\ UNCHANGED learned
        /\ Held(Smaller(MaxPause, Larger(asked, wait)))
        /\ IF status = "refused"
           THEN Refusal(limit)
           ELSE /\ UNCHANGED <<refusedAgo, ceiling, storing, refused>>
                /\ healthy' = IF status = "ok" THEN (healthy + 1) % StepEvery ELSE healthy
                /\ rps' = Spread(IF status = "ok" THEN Faster(rps) ELSE rps, limit)

(* rememberCeiling(): a ceiling reaches the workspace's row, or its write is  *)
(* lost.  No call waits for another, so that the last one learned may be     *)
(* stored first.  The two decimals it is rounded to are finer than a rate.   *)
Remember(r) ==
    /\ r \in storing
    /\ storing' = storing \ {r}
    /\ learned' \in {learned, r}
    /\ UNCHANGED <<nextIn, pausedFor, refusedAgo, rps, healthy, ceiling, refused>>

(* What a restart finds stored.                                              *)
Kept == learned

(* The process starts anew: only the stored ceiling is left.  A refusal is   *)
(* forgotten unless the last ceiling learned is the one stored.              *)
Reset ==
    /\ nextIn' = 0
    /\ pausedFor' = 0
    /\ refusedAgo' = Window
    /\ rps' = Null
    /\ healthy' = 0
    /\ ceiling' = Null
    /\ learned' = Kept
    /\ storing' = {}
    /\ refused' = IF ceiling \in {Null, learned} THEN refused ELSE Null

Pass ==
    /\ nextIn' = Larger(0, nextIn - 1)
    /\ pausedFor' = Larger(0, pausedFor - 1)
    /\ refusedAgo' = Smaller(Window, refusedAgo + 1)
    /\ UNCHANGED <<rps, healthy, ceiling, learned, storing, refused>>

-----------------------------------------------------------------------------
GateTypeOK ==
    /\ nextIn \in Nat
    /\ pausedFor \in 0..MaxPause
    /\ refusedAgo \in 0..Window
    /\ rps \in {Null} \cup Rates
    /\ healthy \in 0..(StepEvery - 1)
    /\ {ceiling, learned, refused} \subseteq {Null} \cup Rates
    /\ storing \subseteq Rates

(* A rate the site once refused is never reached again (unless it is the     *)
(* slowest there is), over restarts too once its ceiling is stored: the gate *)
(* does not probe past it.                                                   *)
NeverProbesPast == refused # Null => Rate < refused \/ Rate = MinRps
=============================================================================
