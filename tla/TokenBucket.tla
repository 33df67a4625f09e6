---------------------------- MODULE TokenBucket ----------------------------
(***************************************************************************)
(* The rate limiter every outbound HTTP call of the system goes through:   *)
(* class TokenBucket of data_pipeline/extraction/http.py.  One bucket is   *)
(* shared by the threads that share an HttpClient (retrieval.py keeps a    *)
(* process-wide one).                                                      *)
(*                                                                         *)
(* The code counts fractional tokens per second.  Here a token is          *)
(* TokenUnits units, so that a bucket of RatePerMinute tokens per minute   *)
(* refills by exactly RatePerMinute units per second and no fraction is    *)
(* lost; one tick of the clock is one second.                              *)
(***************************************************************************)
EXTENDS Integers

CONSTANTS Threads,        \* callers of acquire()
          RatePerMinute,  \* rate_per_minute
          Capacity,       \* capacity, in tokens
          MaxCalls,       \* bound: acquire() calls in a behaviour
          MaxTime         \* bound: last second of the clock

ASSUME RateAssumption     == RatePerMinute \in Nat \ {0}
ASSUME CapacityAssumption == Capacity \in Nat \ {0}
ASSUME BoundsAssumption   == MaxCalls \in Nat /\ MaxTime \in Nat

VARIABLES tokens,    \* _tokens, in units
          updated,   \* _updated
          clock,     \* what _clock() returns
          pc,        \* where each thread is in acquire()
          wakeAt,    \* when _sleep(wait) returns, for a sleeping thread
          \* Observers, read by the properties only:
          calls,     \* acquire() calls so far
          mark,      \* start of an arbitrary observation window
          granted,   \* tokens handed out in that window
          overtaken  \* sleepers someone took a token from under

bucket   == <<tokens, updated>>
vars     == <<tokens, updated, clock, pc, wakeAt, calls, mark, granted, overtaken>>

TokenUnits == 60                        \* units in one token
Full       == Capacity * TokenUnits     \* a full bucket

Least(a, b) == IF a <= b THEN a ELSE b

\* Faulty variant: the elapsed time is credited without the cap.
RefilledUncapped == tokens + (clock - updated) * RatePerMinute

\* _refill(): what the bucket holds once the elapsed time is credited.
Refilled == Least(Full, tokens + (clock - updated) * RatePerMinute)

\* Faulty variant: a bucket holding exactly one token is taken for empty.
EnoughStrict == Refilled > TokenUnits

\* self._tokens >= tokens, for the one token every caller asks for.
Enough == Refilled >= TokenUnits

\* Faulty variant: the division rounds the wait down.
WaitForShort(deficit) == deficit \div RatePerMinute

\* wait = deficit / rate_per_second, in whole seconds and never short.  The
\* arithmetic is exact: a float quotient that rounds below it makes the code
\* find a token just short of whole and sleep once more, for the rounding
\* error.  That turn of the loop takes no token and is not a step here.
WaitFor(deficit) == (deficit + RatePerMinute - 1) \div RatePerMinute

Init ==
    /\ tokens = Full /\ updated = 0 /\ clock = 0
    /\ pc = [t \in Threads |-> "idle"]
    /\ wakeAt = [t \in Threads |-> 0]
    /\ calls = 0 /\ mark = 0 /\ granted = 0 /\ overtaken = {}

\* A thread enters acquire(1.0).
Call(t) ==
    /\ pc[t] = "idle" /\ calls < MaxCalls
    /\ pc' = [pc EXCEPT ![t] = "trying"]
    /\ calls' = calls + 1
    /\ UNCHANGED <<bucket, clock, wakeAt, mark, granted, overtaken>>

\* One pass of the loop under _lock that finds enough tokens and returns.
Take(t) ==
    /\ pc[t] = "trying"
    /\ Enough
    /\ tokens' = Refilled - TokenUnits
    /\ updated' = clock
    /\ pc' = [pc EXCEPT ![t] = "idle"]
    /\ granted' = granted + 1
    /\ overtaken' = {s \in Threads : s # t /\ pc[s] = "sleeping"} \cup overtaken
    /\ UNCHANGED <<clock, wakeAt, calls, mark>>

\* One pass that does not: the lock is released before the sleep.
Wait(t) ==
    /\ pc[t] = "trying"
    /\ ~Enough
    /\ tokens' = Refilled
    /\ updated' = clock
    /\ wakeAt' = [wakeAt EXCEPT ![t] = clock + WaitFor(TokenUnits - Refilled)]
    /\ pc' = [pc EXCEPT ![t] = "sleeping"]
    /\ UNCHANGED <<clock, calls, mark, granted, overtaken>>

\* The sleep returns, at its deadline or later.
Wake(t) ==
    /\ pc[t] = "sleeping" /\ clock >= wakeAt[t]
    /\ pc' = [pc EXCEPT ![t] = "trying"]
    /\ wakeAt' = [wakeAt EXCEPT ![t] = 0]
    /\ overtaken' = overtaken \ {t}
    /\ UNCHANGED <<bucket, clock, calls, mark, granted>>

Tick ==
    /\ clock < MaxTime
    /\ clock' = clock + 1
    /\ UNCHANGED <<bucket, pc, wakeAt, calls, mark, granted, overtaken>>

\* The observer starts counting, once, at any moment: so whatever holds of
\* its window holds of every window.
StartWindow ==
    /\ mark = 0 /\ clock > 0
    /\ mark' = clock /\ granted' = 0
    /\ UNCHANGED <<bucket, clock, pc, wakeAt, calls, overtaken>>

Next ==
    \/ \E t \in Threads : Call(t) \/ Take(t) \/ Wait(t) \/ Wake(t)
    \/ Tick
    \/ StartWindow

Spec == Init /\ [][Next]_vars

-----------------------------------------------------------------------------

TypeOK ==
    /\ tokens \in 0..Full
    /\ clock \in Nat
    /\ updated \in 0..clock
    /\ mark \in 0..clock
    /\ pc \in [Threads -> {"idle", "trying", "sleeping"}]
    /\ wakeAt \in [Threads -> Nat]
    /\ calls \in Nat /\ granted \in Nat
    /\ overtaken \in SUBSET Threads

\* Throttling: in ANY window, however the threads interleave, the tokens
\* handed out never exceed one full bucket plus what the window refilled.
\* This is what "neither source is ours to strain" asks of the bucket.
RateLimit ==
    granted * TokenUnits <= Full + (clock - mark) * RatePerMinute

\* What is still in the bucket counts against the same budget.
Budget ==
    granted * TokenUnits + Refilled <= Full + (clock - mark) * RatePerMinute

\* A wait is long enough: unless another thread took a token meanwhile, a
\* sleeper that wakes at its deadline finds one, so the loop of acquire()
\* never spins.
SleepSuffices ==
    \A t \in Threads :
        pc[t] = "sleeping" /\ t \notin overtaken =>
            tokens + (wakeAt[t] - updated) * RatePerMinute >= TokenUnits
=============================================================================
