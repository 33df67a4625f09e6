----------------------------- MODULE HttpClient -----------------------------
(***************************************************************************)
(* HttpClient.request_json of data_pipeline/extraction/http.py, for        *)
(* threads that share one client and so one TokenBucket: every attempt     *)
(* takes a token, sends, and classifies what comes back.  The remote       *)
(* server and the transport are the environment.                           *)
(***************************************************************************)
EXTENDS TokenBucket, FiniteSets

CONSTANTS MaxAttempts,   \* max_attempts
          BackoffBase,   \* backoff_base, in seconds
          BackoffCap,    \* backoff_cap, in seconds
          RetryAfters,   \* what a Retry-After header may ask for, in seconds
          MaxSpare       \* bound: seconds that pass while no sleep needs them

ASSUME ThreadsAssumption == IsFiniteSet(Threads)
ASSUME AttemptAssumption == MaxAttempts \in Nat \ {0}
ASSUME BackoffAssumption == /\ BackoffBase \in Nat
                            /\ BackoffCap \in Nat
                            /\ RetryAfters \in SUBSET Nat
                            /\ MaxSpare \in Nat

VARIABLES phase,     \* "idle", "acquire", "send", "backoff" or an outcome
          attempt,   \* the loop variable of request_json
          resumeAt,  \* when the backoff sleep returns
          spare,     \* of MaxSpare, the seconds left
          \* Observers:
          sends,     \* requests put on the wire by the current call
          last,      \* what the last of them came back with
          sentInWindow  \* requests on the wire since mark, all threads

http     == <<phase, attempt, resumeAt>>
seen     == <<sends, last>>
httpVars == <<vars, http, spare, seen, sentInWindow>>

Outcomes  == {"returned", "rejected", "raised", "unreachable", "ratelimited"}
Replies   == {"none", "ok", "clienterror", "retryable", "transport", "other"}

HttpInit ==
    /\ Init
    /\ phase = [t \in Threads |-> "idle"]
    /\ attempt = [t \in Threads |-> 0]
    /\ resumeAt = [t \in Threads |-> 0]
    /\ sends = [t \in Threads |-> 0]
    /\ last = [t \in Threads |-> "none"]
    /\ sentInWindow = 0
    /\ spare = MaxSpare

NoHeader == -1

\* The least the code may back off before attempt n + 1.
LeastBackoff(n) == Least(BackoffBase * 2^n, BackoffCap)

\* _retry_delay: a numeric Retry-After is honoured up to the cap; without
\* one the backoff is exponential and capped.  The jitter the code adds only
\* lengthens the sleep, which Resume lets end late anyway.
RetryDelay(n, retryAfter) ==
    IF retryAfter # NoHeader
    THEN Least(retryAfter, BackoffCap)
    ELSE LeastBackoff(n)

LastAttempt(n) == n = MaxAttempts - 1

\* request_json() is called.  A client keeps nothing between requests but the
\* bucket, so one request per thread, in any number of threads, covers every
\* sequence of them.  The loop goes straight into bucket.acquire().
Request(t) ==
    /\ phase[t] = "idle"
    /\ Call(t)
    /\ phase' = [phase EXCEPT ![t] = "acquire"]
    /\ UNCHANGED <<attempt, resumeAt, spare, seen, sentInWindow>>

\* acquire() returns.
Acquired(t) ==
    /\ Take(t)
    /\ phase' = [phase EXCEPT ![t] = "send"]
    /\ UNCHANGED <<attempt, resumeAt, spare, seen, sentInWindow>>

\* acquire() goes round its loop.
Blocked(t) == (Wait(t) \/ Wake(t)) /\ UNCHANGED <<http, spare, seen, sentInWindow>>

\* session.request puts the request on the wire and comes back with reply.
Sent(t, reply) ==
    /\ phase[t] = "send"
    /\ sends' = [sends EXCEPT ![t] = @ + 1]
    /\ last' = [last EXCEPT ![t] = reply]
    /\ sentInWindow' = sentInWindow + 1
    /\ UNCHANGED <<vars, spare>>

\* The call ends with this reply.
Finish(t, reply, outcome) ==
    /\ Sent(t, reply)
    /\ phase' = [phase EXCEPT ![t] = outcome]
    /\ UNCHANGED <<attempt, resumeAt>>

\* Faulty variant: a client error goes round the loop like a 503.
ClientErrorRetried(t) ==
    /\ Sent(t, "clienterror")
    /\ phase' = [phase EXCEPT ![t] = "backoff"]
    /\ attempt' = [attempt EXCEPT ![t] = @ + 1]
    /\ UNCHANGED resumeAt

\* raise_for_status raises on a status outside RETRYABLE_STATUS.
ClientError(t) == Finish(t, "clienterror", "rejected")

Succeed(t) == Finish(t, "ok", "returned")

\* Neither ConnectionError nor Timeout nor a status: a redirect loop, a body
\* that breaks off while it is read, or one that is not JSON.  No handler of
\* request_json names these, so they pass through it on any attempt.
OtherError(t) == Finish(t, "other", "raised")

\* A retryable reply: give up on the last attempt, else sleep and go round.
\* The bucket is not held during the sleep.
RetryOr(t, reply, retryAfter, outcome) ==
    /\ Sent(t, reply)
    /\ IF LastAttempt(attempt[t])
       THEN /\ phase' = [phase EXCEPT ![t] = outcome]
            /\ UNCHANGED <<attempt, resumeAt>>
       ELSE /\ phase' = [phase EXCEPT ![t] = "backoff"]
            /\ attempt' = [attempt EXCEPT ![t] = @ + 1]
            /\ resumeAt' = [resumeAt EXCEPT ![t] = clock + RetryDelay(attempt[t], retryAfter)]

Throttled(t) ==
    \E asked \in RetryAfters \cup {NoHeader} :
        RetryOr(t, "retryable", asked, "ratelimited")

TransportError(t) == RetryOr(t, "transport", NoHeader, "unreachable")

\* Faulty variant: a retry goes out on the token of the first attempt.
ResumeUnthrottled(t) ==
    /\ phase[t] = "backoff" /\ clock >= resumeAt[t]
    /\ phase' = [phase EXCEPT ![t] = "send"]
    /\ UNCHANGED <<vars, attempt, resumeAt, spare, seen, sentInWindow>>

\* The backoff sleep returns and the next attempt asks for a token.
Resume(t) ==
    /\ phase[t] = "backoff" /\ clock >= resumeAt[t]
    /\ Call(t)
    /\ phase' = [phase EXCEPT ![t] = "acquire"]
    /\ resumeAt' = [resumeAt EXCEPT ![t] = 0]
    /\ UNCHANGED <<attempt, spare, sends, last, sentInWindow>>

Reply(t) ==
    Succeed(t) \/ ClientError(t) \/ OtherError(t) \/ Throttled(t) \/ TransportError(t)

\* Time passes as long as some sleep needs it to, and MaxSpare seconds more.
TimePasses ==
    /\ Tick
    /\ \/ /\ \E t \in Threads :
                \/ pc[t] = "sleeping" /\ clock < wakeAt[t]
                \/ phase[t] = "backoff" /\ clock < resumeAt[t]
          /\ UNCHANGED spare
       \/ spare > 0 /\ spare' = spare - 1
    /\ UNCHANGED <<http, seen, sentInWindow>>

WindowOpens ==
    /\ StartWindow
    /\ sentInWindow' = 0
    /\ UNCHANGED <<http, spare, seen>>

HttpNext ==
    \/ \E t \in Threads :
        Request(t) \/ Acquired(t) \/ Blocked(t) \/ Reply(t) \/ Resume(t)
    \/ TimePasses
    \/ WindowOpens

\* A thread inside request_json runs on: its timeout makes session.request
\* return, sleeps end, and time passes.  New requests are not promised.
HttpFairness ==
    /\ WF_httpVars(TimePasses)
    /\ \A t \in Threads :
        /\ WF_httpVars(Acquired(t) \/ Blocked(t))
        /\ WF_httpVars(Reply(t)) /\ WF_httpVars(Resume(t))

HttpSpec == HttpInit /\ [][HttpNext]_httpVars /\ HttpFairness

-----------------------------------------------------------------------------

HttpTypeOK ==
    /\ TypeOK
    /\ phase \in [Threads -> {"idle", "acquire", "send", "backoff"} \cup Outcomes]
    /\ attempt \in [Threads -> 0..MaxAttempts]
    /\ resumeAt \in [Threads -> Nat]
    /\ sends \in [Threads -> Nat] /\ sentInWindow \in Nat
    /\ spare \in 0..MaxSpare
    /\ last \in [Threads -> Replies]

\* What the sources see: no window of time, wherever it starts, carries more
\* requests than a full bucket, the refill, and one token in hand per thread
\* as it opened.  Retries are throttled like first attempts.
WireRate ==
    sentInWindow * TokenUnits
        <= Full + (clock - mark) * RatePerMinute + Cardinality(Threads) * TokenUnits

\* A caller is told what happened: it sees RateLimitError or a transport
\* exception only after MaxAttempts requests, the last of which failed that
\* way; a client error, and any exception request_json does not handle, ends
\* the call at once and reaches the caller.
Verdict ==
    \A t \in Threads :
        /\ sends[t] <= MaxAttempts
        /\ phase[t] = "returned" => last[t] = "ok"
        /\ phase[t] = "ratelimited" => sends[t] = MaxAttempts /\ last[t] = "retryable"
        /\ phase[t] = "unreachable" => sends[t] = MaxAttempts /\ last[t] = "transport"
        /\ last[t] = "clienterror" <=> phase[t] = "rejected"
        /\ last[t] = "other" <=> phase[t] = "raised"

\* Every request ends, whatever the server does and however many threads
\* compete for tokens (one request each).
EveryRequestEnds ==
    \A t \in Threads : phase[t] = "acquire" ~> phase[t] \in Outcomes
=============================================================================
