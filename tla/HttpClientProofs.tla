-------------------------- MODULE HttpClientProofs --------------------------
(***************************************************************************)
(* What HttpClient.tla and TokenBucket.tla promise, for any number of      *)
(* threads, any rate and any capacity.                                     *)
(***************************************************************************)
EXTENDS HttpClient, FiniteSetTheorems, TLAPS

\* Seconds times units per second, the only product with two unknowns: what
\* the proofs below need of it.
LEMMA Credit ==
    ASSUME NEW s \in Nat
    PROVE  /\ s * RatePerMinute \in Nat
           /\ 0 * RatePerMinute = 0
           /\ (s + 1) * RatePerMinute = s * RatePerMinute + RatePerMinute
    BY RateAssumption

\* The wait is long enough to earn the deficit.
LEMMA WaitEarns ==
    ASSUME NEW d \in Nat
    PROVE  /\ WaitFor(d) \in Nat
           /\ WaitFor(d) * RatePerMinute >= d
    <1> DEFINE n == d + RatePerMinute - 1
    <1>1. n \in Nat /\ RatePerMinute \in Nat /\ RatePerMinute > 0
        BY RateAssumption
    <1>2. /\ n \div RatePerMinute \in Nat
          /\ n = RatePerMinute * (n \div RatePerMinute) + (n % RatePerMinute)
          /\ n % RatePerMinute \in 0..(RatePerMinute - 1)
        BY <1>1
    <1>3. RatePerMinute * (n \div RatePerMinute) >= d
        BY <1>1, <1>2
    <1>4. RatePerMinute * (n \div RatePerMinute) = (n \div RatePerMinute) * RatePerMinute
        BY <1>1, <1>2
    <1>5. QED BY <1>2, <1>3, <1>4 DEF WaitFor

\* A refill credits at most the elapsed time and never overfills.
LEMMA RefilledFacts ==
    ASSUME TypeOK
    PROVE  /\ clock - updated \in Nat
           /\ (clock - updated) * RatePerMinute \in Nat
           /\ Full \in Nat
           /\ Refilled \in 0..Full
           /\ Refilled <= tokens + (clock - updated) * RatePerMinute
           /\ Refilled >= tokens
    <1>1. clock - updated \in Nat BY DEF TypeOK
    <1>2. (clock - updated) * RatePerMinute \in Nat BY <1>1, Credit
    <1>3. Full \in Nat BY CapacityAssumption DEF Full, TokenUnits
    <1>4. QED BY <1>1, <1>2, <1>3 DEF TypeOK, Refilled, Least

-----------------------------------------------------------------------------

\* The bucket never holds a negative amount or more than its capacity, and
\* never credits time that has not passed.
THEOREM BucketTypeOK == Spec => []TypeOK
<1>1. Init => TypeOK
    BY CapacityAssumption DEF Init, TypeOK, Full, TokenUnits
<1>2. TypeOK /\ [Next]_vars => TypeOK'
    <2> SUFFICES ASSUME TypeOK, [Next]_vars PROVE TypeOK'
        OBVIOUS
    <2>0. Refilled \in 0..Full /\ Full \in Nat
        BY RefilledFacts
    <2>1. ASSUME NEW t \in Threads, Call(t) PROVE TypeOK'
        BY <2>1 DEF TypeOK, Call, bucket
    <2>2. ASSUME NEW t \in Threads, Take(t) PROVE TypeOK'
        BY <2>0, <2>2 DEF TypeOK, Take, Enough, TokenUnits
    <2>3. ASSUME NEW t \in Threads, Wait(t) PROVE TypeOK'
        <3>1. TokenUnits - Refilled \in Nat
            BY <2>0, <2>3 DEF Wait, Enough, TokenUnits
        <3>2. WaitFor(TokenUnits - Refilled) \in Nat
            BY <3>1, WaitEarns
        <3>3. QED BY <2>0, <2>3, <3>2 DEF TypeOK, Wait
    <2>4. ASSUME NEW t \in Threads, Wake(t) PROVE TypeOK'
        BY <2>4 DEF TypeOK, Wake, bucket
    <2>5. CASE Tick
        BY <2>5 DEF TypeOK, Tick, bucket
    <2>6. CASE StartWindow
        BY <2>6 DEF TypeOK, StartWindow, bucket
    <2>7. CASE UNCHANGED vars
        BY <2>7 DEF TypeOK, vars
    <2>8. QED BY <2>1, <2>2, <2>3, <2>4, <2>5, <2>6, <2>7 DEF Next
<1>3. QED BY <1>1, <1>2, PTL DEF Spec

\* Budget is inductive: taking a token moves one from the bucket to the
\* count, and a tick adds as much to the allowance as to the bucket at most.
THEOREM BucketBudget == Spec => []Budget
<1>1. Init => Budget
    BY CapacityAssumption, RateAssumption
    DEF Init, Budget, Refilled, Least, Full, TokenUnits
<1>2. TypeOK /\ TypeOK' /\ Budget /\ [Next]_vars => Budget'
    <2> SUFFICES ASSUME TypeOK, TypeOK', Budget, [Next]_vars PROVE Budget'
        OBVIOUS
    <2>0. /\ Full \in Nat /\ RatePerMinute \in Nat
          /\ Refilled \in 0..Full
          /\ clock \in Nat /\ updated \in Nat /\ tokens \in Nat /\ mark \in Nat
          /\ clock - updated \in Nat /\ clock - mark \in Nat
          /\ (clock - updated) * RatePerMinute \in Nat
          /\ (clock - mark) * RatePerMinute \in Nat
          /\ granted \in Nat
        BY RefilledFacts, RateAssumption, Credit DEF TypeOK
    <2>a. ASSUME NEW t \in Threads, Take(t) PROVE Budget'
        <3>1. /\ tokens' = Refilled - 60 /\ updated' = clock' /\ clock' = clock
              /\ mark' = mark /\ granted' = granted + 1 /\ Refilled >= 60
            BY <2>a DEF Take, Enough, TokenUnits
        <3>2. (clock' - updated') * RatePerMinute = 0
            BY <3>1, <2>0
        <3>3. Refilled' = Refilled - 60
            BY <3>1, <3>2, <2>0 DEF Refilled, Least
        <3>4. QED BY <3>1, <3>3, <2>0 DEF Budget, TokenUnits
    <2>b. ASSUME NEW t \in Threads, Wait(t) PROVE Budget'
        <3>1. /\ tokens' = Refilled /\ updated' = clock' /\ clock' = clock
              /\ mark' = mark /\ granted' = granted
            BY <2>b DEF Wait
        <3>2. (clock' - updated') * RatePerMinute = 0
            BY <3>1, <2>0
        <3>3. Refilled' = Refilled
            BY <3>1, <3>2, <2>0 DEF Refilled, Least
        <3>4. QED BY <3>1, <3>3, <2>0 DEF Budget, TokenUnits
    <2>c. CASE Tick
        <3>1. /\ tokens' = tokens /\ updated' = updated /\ clock' = clock + 1
              /\ mark' = mark /\ granted' = granted
            BY <2>c DEF Tick, bucket
        <3>2. (clock' - updated') * RatePerMinute
                = (clock - updated) * RatePerMinute + RatePerMinute
            <4>1. clock' - updated' = (clock - updated) + 1 BY <3>1, <2>0
            <4>2. QED BY <4>1, <2>0, Credit
        <3>3. (clock' - mark') * RatePerMinute
                = (clock - mark) * RatePerMinute + RatePerMinute
            <4>1. clock' - mark' = (clock - mark) + 1 BY <3>1, <2>0
            <4>2. QED BY <4>1, <2>0, Credit
        <3>4. Refilled' <= Refilled + RatePerMinute /\ Refilled' \in Nat
            BY <3>1, <3>2, <2>0 DEF Refilled, Least, Full
        <3>5. QED BY <3>1, <3>3, <3>4, <2>0 DEF Budget, TokenUnits, Full
    <2>d. CASE StartWindow
        <3>1. /\ tokens' = tokens /\ updated' = updated /\ clock' = clock
              /\ mark' = clock' /\ granted' = 0
            BY <2>d DEF StartWindow, bucket
        <3>2. (clock' - mark') * RatePerMinute = 0
            BY <3>1, <2>0
        <3>3. Refilled' = Refilled
            BY <3>1 DEF Refilled, Full
        <3>4. QED BY <3>1, <3>2, <3>3, <2>0 DEF Budget, TokenUnits, Full
    <2>e. ASSUME UNCHANGED <<tokens, updated, clock, mark, granted>> PROVE Budget'
        BY <2>e DEF Budget, Refilled, Full
    <2>f. QED
        <3>1. ASSUME NEW t \in Threads, Call(t) \/ Wake(t) PROVE Budget'
            BY <3>1, <2>e DEF Call, Wake, bucket
        <3>2. CASE UNCHANGED vars
            BY <3>2, <2>e DEF vars
        <3>3. QED BY <2>a, <2>b, <2>c, <2>d, <3>1, <3>2 DEF Next
<1>3. QED BY <1>1, <1>2, BucketTypeOK, PTL DEF Spec

\* No window of time hands out more tokens than a full bucket and its refill.
THEOREM BucketRateLimit == Spec => []RateLimit
<1>1. TypeOK /\ Budget => RateLimit
    <2> SUFFICES ASSUME TypeOK, Budget PROVE RateLimit
        OBVIOUS
    <2>1. clock - mark \in Nat /\ granted \in Nat BY DEF TypeOK
    <2>2. (clock - mark) * RatePerMinute \in Nat BY <2>1, Credit
    <2>3. QED BY <2>1, <2>2, RefilledFacts DEF Budget, RateLimit, TokenUnits
<1>2. QED BY <1>1, BucketTypeOK, BucketBudget, PTL

\* The refill of two adjoining spans adds up.
LEMMA CreditSplits ==
    ASSUME NEW a \in Int, NEW b \in Int, NEW c \in Int
    PROVE  (a - c) * RatePerMinute
             = (a - b) * RatePerMinute + (b - c) * RatePerMinute
    BY RateAssumption

\* A sleeper nobody overtook finds its token at the deadline.
THEOREM BucketSleepSuffices == Spec => []SleepSuffices
<1>1. Init => SleepSuffices
    BY DEF Init, SleepSuffices
<1>2. TypeOK /\ TypeOK' /\ SleepSuffices /\ [Next]_vars => SleepSuffices'
    <2> SUFFICES ASSUME TypeOK, TypeOK', SleepSuffices, [Next]_vars,
                        NEW s \in Threads, pc'[s] = "sleeping", s \notin overtaken'
                 PROVE  tokens' + (wakeAt'[s] - updated') * RatePerMinute >= TokenUnits
        BY DEF SleepSuffices
    <2>0. /\ Full \in Nat /\ Full >= 60 /\ Refilled \in 0..Full
          /\ clock \in Nat /\ updated \in Nat /\ tokens \in Nat
          /\ wakeAt[s] \in Nat /\ wakeAt'[s] \in Nat
        BY RefilledFacts, CapacityAssumption DEF TypeOK, Full, TokenUnits
    <2>1. ASSUME NEW t \in Threads, Call(t)
          PROVE  tokens' + (wakeAt'[s] - updated') * RatePerMinute >= TokenUnits
        BY <2>1 DEF Call, bucket, TypeOK, SleepSuffices
    <2>2. ASSUME NEW t \in Threads, Take(t)
          PROVE  tokens' + (wakeAt'[s] - updated') * RatePerMinute >= TokenUnits
        BY <2>2 DEF Take, TypeOK
    <2>3. ASSUME NEW t \in Threads, Wait(t)
          PROVE  tokens' + (wakeAt'[s] - updated') * RatePerMinute >= TokenUnits
        <3>1. tokens' = Refilled /\ updated' = clock /\ Refilled < 60
            BY <2>3, <2>0 DEF Wait, Enough, TokenUnits
        <3>2. CASE s = t
            <4>1. wakeAt'[s] - updated' = WaitFor(60 - Refilled)
                <5>1. WaitFor(60 - Refilled) \in Nat
                    BY <3>1, <2>0, WaitEarns
                <5>2. QED BY <2>3, <3>1, <3>2, <5>1, <2>0 DEF Wait, TypeOK, TokenUnits
            <4>2. /\ 60 - Refilled \in Nat
                  /\ WaitFor(60 - Refilled) * RatePerMinute >= 60 - Refilled
                  /\ WaitFor(60 - Refilled) * RatePerMinute \in Nat
                <5>1. 60 - Refilled \in Nat BY <3>1, <2>0
                <5>2. QED BY <5>1, WaitEarns, Credit
            <4>3. QED BY <4>1, <4>2, <3>1, <2>0 DEF TokenUnits
        <3>3. CASE s # t
            <4>1. /\ pc[s] = "sleeping" /\ s \notin overtaken
                  /\ wakeAt'[s] = wakeAt[s]
                BY <2>3, <3>3 DEF Wait, TypeOK
            <4>2. tokens + (wakeAt[s] - updated) * RatePerMinute >= 60
                BY <4>1 DEF SleepSuffices, TokenUnits
            <4>3. Refilled = tokens + (clock - updated) * RatePerMinute
                BY <3>1, <2>0 DEF Refilled, Least
            <4>4. (wakeAt[s] - updated) * RatePerMinute
                    = (wakeAt[s] - clock) * RatePerMinute + (clock - updated) * RatePerMinute
                BY <2>0, CreditSplits
            <4>5. /\ (wakeAt[s] - clock) * RatePerMinute \in Int
                  /\ (clock - updated) * RatePerMinute \in Int
                BY <2>0, RateAssumption
            <4>6. QED BY <3>1, <4>1, <4>2, <4>3, <4>4, <4>5, <2>0 DEF TokenUnits
        <3>4. QED BY <3>2, <3>3
    <2>4. ASSUME NEW t \in Threads, Wake(t)
          PROVE  tokens' + (wakeAt'[s] - updated') * RatePerMinute >= TokenUnits
        BY <2>4 DEF Wake, bucket, TypeOK, SleepSuffices
    <2>5. CASE Tick
        BY <2>5 DEF Tick, bucket, SleepSuffices
    <2>6. CASE StartWindow
        BY <2>6 DEF StartWindow, bucket, SleepSuffices
    <2>7. CASE UNCHANGED vars
        BY <2>7 DEF vars, SleepSuffices
    <2>8. QED BY <2>1, <2>2, <2>3, <2>4, <2>5, <2>6, <2>7 DEF Next
<1>3. QED BY <1>1, <1>2, BucketTypeOK, PTL DEF Spec

-----------------------------------------------------------------------------

\* Every step of a client is a step of its bucket or leaves it alone, so what
\* is proved of the bucket holds under every request, retries included.
THEOREM HttpImplementsBucket == HttpSpec => Spec
<1>1. HttpInit => Init
    BY DEF HttpInit
<1>2. [HttpNext]_httpVars => [Next]_vars
    <2> SUFFICES ASSUME [HttpNext]_httpVars PROVE [Next]_vars
        OBVIOUS
    <2>1. ASSUME NEW t \in Threads, Request(t) \/ Resume(t) PROVE [Next]_vars
        BY <2>1 DEF Request, Resume, Next
    <2>2. ASSUME NEW t \in Threads, Acquired(t) PROVE [Next]_vars
        BY <2>2 DEF Acquired, Next
    <2>3. ASSUME NEW t \in Threads, Blocked(t) PROVE [Next]_vars
        BY <2>3 DEF Blocked, Next
    <2>4. ASSUME NEW t \in Threads, Reply(t) PROVE [Next]_vars
        BY <2>4 DEF Reply, Succeed, ClientError, OtherError, Throttled, TransportError,
                    RetryOr, Finish, Sent
    <2>5. CASE TimePasses
        BY <2>5 DEF TimePasses, Next
    <2>6. CASE WindowOpens
        BY <2>6 DEF WindowOpens, Next
    <2>7. CASE UNCHANGED httpVars
        BY <2>7 DEF httpVars, vars
    <2>8. QED BY <2>1, <2>2, <2>3, <2>4, <2>5, <2>6, <2>7 DEF HttpNext
<1>3. QED BY <1>1, <1>2, PTL DEF HttpSpec, Spec

\* The threads that hold a token they have not sent with yet.
InHand == {t \in Threads : phase[t] = "send"}

\* Tokens on the wire or in hand were granted in the window, or in hand when
\* it opened; and a thread is inside acquire() exactly in phase "acquire".
WireInv ==
    /\ phase \in [Threads -> {"idle", "acquire", "send", "backoff"} \cup Outcomes]
    /\ sentInWindow \in Nat
    /\ \A t \in Threads : phase[t] = "acquire" <=> pc[t] # "idle"
    /\ sentInWindow + Cardinality(InHand) <= granted + Cardinality(Threads)

\* There are at most as many tokens in hand as threads.
LEMMA InHandFinite ==
    /\ IsFiniteSet(InHand)
    /\ Cardinality(InHand) \in Nat
    /\ Cardinality(Threads) \in Nat
    /\ Cardinality(InHand) <= Cardinality(Threads)
    <1>1. InHand \subseteq Threads BY DEF InHand
    <1>2. QED BY <1>1, ThreadsAssumption, FS_Subset, FS_CardinalityType

\* A request needs its own token.
THEOREM HttpWireInv == HttpSpec => []WireInv
<1>1. HttpInit => WireInv
    <2> SUFFICES ASSUME HttpInit PROVE WireInv
        OBVIOUS
    <2>1. InHand = {} BY DEF HttpInit, InHand
    <2>2. Cardinality(InHand) = 0 BY <2>1, FS_EmptySet
    <2>3. QED BY <2>2, InHandFinite DEF HttpInit, Init, WireInv
<1>2. TypeOK /\ WireInv /\ [HttpNext]_httpVars => WireInv'
    <2> SUFFICES ASSUME TypeOK, WireInv, [HttpNext]_httpVars PROVE WireInv'
        OBVIOUS
    <2> USE DEF WireInv, Outcomes
    <2>0. granted \in Nat /\ pc \in [Threads -> {"idle", "trying", "sleeping"}]
        BY DEF TypeOK
    <2>1. ASSUME NEW t \in Threads, Request(t) \/ Resume(t) PROVE WireInv'
        <3>1. /\ phase[t] \in {"idle", "backoff"}
              /\ phase' = [phase EXCEPT ![t] = "acquire"]
              /\ pc' = [pc EXCEPT ![t] = "trying"]
              /\ sentInWindow' = sentInWindow /\ granted' = granted
            BY <2>1 DEF Request, Resume, Call
        <3>2. InHand' = InHand BY <3>1 DEF InHand
        <3>3. QED BY <2>0, <3>1, <3>2
    <2>2. ASSUME NEW t \in Threads, Acquired(t) PROVE WireInv'
        <3>1. /\ pc[t] = "trying" /\ phase' = [phase EXCEPT ![t] = "send"]
              /\ pc' = [pc EXCEPT ![t] = "idle"]
              /\ sentInWindow' = sentInWindow /\ granted' = granted + 1
            BY <2>2 DEF Acquired, Take
        <3>2. phase[t] = "acquire" BY <3>1
        <3>3. t \notin InHand /\ InHand' = InHand \cup {t}
            BY <3>1, <3>2 DEF InHand
        <3>4. Cardinality(InHand') = Cardinality(InHand) + 1
            BY <3>3, InHandFinite, FS_AddElement
        <3>5. QED BY <2>0, <3>1, <3>4, InHandFinite
    <2>3. ASSUME NEW t \in Threads, Blocked(t) PROVE WireInv'
        <3>1. /\ pc[t] # "idle" /\ UNCHANGED <<phase, sentInWindow, granted>>
              /\ \E p \in {"trying", "sleeping"} : pc' = [pc EXCEPT ![t] = p]
            BY <2>3 DEF Blocked, Wait, Wake, http
        <3>2. InHand' = InHand BY <3>1 DEF InHand
        <3>3. QED BY <2>0, <3>1, <3>2
    <2>4. ASSUME NEW t \in Threads, Reply(t) PROVE WireInv'
        <3>1. /\ phase[t] = "send" /\ sentInWindow' = sentInWindow + 1
              /\ pc' = pc /\ granted' = granted
              /\ \E p \in Outcomes \cup {"backoff"} : phase' = [phase EXCEPT ![t] = p]
            BY <2>4 DEF Reply, Succeed, ClientError, OtherError, Throttled, TransportError,
                        RetryOr, Finish, Sent, vars
        <3>2. t \in InHand /\ InHand' = InHand \ {t}
            BY <3>1 DEF InHand
        <3>3. Cardinality(InHand') = Cardinality(InHand) - 1
            BY <3>2, InHandFinite, FS_RemoveElement
        <3>4. QED BY <2>0, <3>1, <3>3, InHandFinite
    <2>5. CASE TimePasses
        <3>1. UNCHANGED <<phase, pc, sentInWindow, granted>>
            BY <2>5 DEF TimePasses, Tick, http
        <3>2. QED BY <3>1 DEF InHand
    <2>6. CASE WindowOpens
        <3>1. UNCHANGED <<phase, pc>> /\ sentInWindow' = 0 /\ granted' = 0
            BY <2>6 DEF WindowOpens, StartWindow, http
        <3>2. InHand' = InHand BY <3>1 DEF InHand
        <3>3. QED BY <3>1, <3>2, InHandFinite
    <2>7. CASE UNCHANGED httpVars
        <3>1. UNCHANGED <<phase, pc, sentInWindow, granted>>
            BY <2>7 DEF httpVars, vars, http
        <3>2. QED BY <3>1 DEF InHand
    <2>8. QED BY <2>1, <2>2, <2>3, <2>4, <2>5, <2>6, <2>7 DEF HttpNext
<1>3. HttpSpec => []TypeOK
    BY HttpImplementsBucket, BucketTypeOK, PTL
<1>4. QED BY <1>1, <1>2, <1>3, PTL DEF HttpSpec

\* The rate a source sees, whatever the threads and the retries.
THEOREM HttpWireRate == HttpSpec => []WireRate
<1>1. TypeOK /\ RateLimit /\ WireInv => WireRate
    <2> SUFFICES ASSUME TypeOK, RateLimit, WireInv PROVE WireRate
        OBVIOUS
    <2>1. clock - mark \in Nat /\ granted \in Nat BY DEF TypeOK
    <2>2. (clock - mark) * RatePerMinute \in Nat BY <2>1, Credit
    <2>3. Full \in Nat BY CapacityAssumption DEF Full, TokenUnits
    <2>4. sentInWindow <= granted + Cardinality(Threads) /\ sentInWindow \in Nat
        BY <2>1, InHandFinite DEF WireInv
    <2>5. QED BY <2>1, <2>2, <2>3, <2>4, InHandFinite DEF RateLimit, WireRate, TokenUnits
<1>2. QED BY <1>1, HttpImplementsBucket, BucketTypeOK, BucketRateLimit, HttpWireInv, PTL

-----------------------------------------------------------------------------
(* What a call does: its types and its verdict. *)

\* 2^n is a number: it counts the subsets of a set of n elements.
LEMMA PowerOfTwo == \A n \in Nat : 2^n \in Nat
<1> SUFFICES ASSUME NEW n \in Nat PROVE 2^n \in Nat
    OBVIOUS
<1>1. IsFiniteSet(1..n) /\ Cardinality(1..n) = n
    BY FS_Interval
<1>2. IsFiniteSet(SUBSET (1..n)) /\ Cardinality(SUBSET (1..n)) = 2^n
    BY <1>1, FS_SUBSET
<1>3. QED BY <1>2, FS_CardinalityType

\* The doubling backoff is a number for every attempt.
LEMMA BackoffIsNat == \A n \in Nat : LeastBackoff(n) \in Nat
<1> SUFFICES ASSUME NEW n \in Nat PROVE LeastBackoff(n) \in Nat
    OBVIOUS
<1> DEFINE p == 2^n
<1>1. p \in Nat BY PowerOfTwo
<1> HIDE DEF p
<1>2. BackoffBase * p \in Nat BY <1>1, BackoffAssumption
<1>3. Least(BackoffBase * p, BackoffCap) \in Nat
    BY <1>2, BackoffAssumption DEF Least
<1>4. QED BY <1>3 DEF LeastBackoff, p

Asked == RetryAfters \cup {NoHeader}

\* What the code sleeps is a number, with and without a header.
LEMMA DelayIsNat ==
    ASSUME NEW n \in Nat, NEW asked \in Asked
    PROVE  RetryDelay(n, asked) \in Nat
<1>1. LeastBackoff(n) \in Nat BY BackoffIsNat
<1>2. CASE asked = NoHeader
    BY <1>1, <1>2 DEF RetryDelay
<1>3. CASE asked # NoHeader
    <2>1. asked \in Nat BY <1>3, BackoffAssumption DEF Asked
    <2>2. Least(asked, BackoffCap) \in Nat BY <2>1, BackoffAssumption DEF Least
    <2>3. QED BY <1>3, <2>2 DEF RetryDelay
<1>4. QED BY <1>2, <1>3

Inside == {"idle", "acquire", "send", "backoff"}

CallTypes ==
    /\ phase \in [Threads -> Inside \cup Outcomes]
    /\ attempt \in [Threads -> 0..(MaxAttempts - 1)]
    /\ resumeAt \in [Threads -> Nat]
    /\ sends \in [Threads -> Nat] /\ sentInWindow \in Nat
    /\ spare \in 0..MaxSpare
    /\ last \in [Threads -> Replies]

\* Inside the loop every attempt so far was one request, and none of them
\* came back with what ends a call at once.
CallOK(t) ==
    /\ phase[t] \in Inside =>
          sends[t] = attempt[t] /\ last[t] \notin {"clienterror", "other"}
    /\ sends[t] <= MaxAttempts
    /\ phase[t] = "returned" => last[t] = "ok"
    /\ phase[t] = "ratelimited" => sends[t] = MaxAttempts /\ last[t] = "retryable"
    /\ phase[t] = "unreachable" => sends[t] = MaxAttempts /\ last[t] = "transport"
    /\ last[t] = "clienterror" <=> phase[t] = "rejected"
    /\ last[t] = "other" <=> phase[t] = "raised"

CallInv == CallTypes /\ \A t \in Threads : CallOK(t)

\* No call is under way at first.
LEMMA CallInvInit == HttpInit => CallInv
BY AttemptAssumption, BackoffAssumption
   DEF HttpInit, CallInv, CallTypes, CallOK, Inside, Outcomes, Replies

\* A retryable reply: the call gives up after its last attempt, or backs off.
LEMMA CallInvRetry ==
    ASSUME TypeOK, CallInv, NEW t \in Threads, NEW asked \in Asked,
           NEW kind \in {<<"retryable", "ratelimited">>, <<"transport", "unreachable">>},
           RetryOr(t, kind[1], asked, kind[2])
    PROVE  CallInv'
<1> USE DEF CallInv, CallTypes, Inside, Outcomes, Replies
<1>1. /\ phase[t] = "send" /\ UNCHANGED spare
      /\ sends' = [sends EXCEPT ![t] = @ + 1]
      /\ last' = [last EXCEPT ![t] = kind[1]]
      /\ sentInWindow' = sentInWindow + 1
    BY DEF RetryOr, Sent
<1>2. MaxAttempts \in Nat \ {0} /\ clock \in Nat
    BY AttemptAssumption DEF TypeOK
<1>3. CASE LastAttempt(attempt[t])
    <2>1. /\ phase' = [phase EXCEPT ![t] = kind[2]]
          /\ UNCHANGED <<attempt, resumeAt>>
        BY <1>3 DEF RetryOr
    <2>2. sends[t] = MaxAttempts - 1
        BY <1>1, <1>2, <1>3 DEF LastAttempt, CallOK
    <2>3. CallTypes' BY <1>1, <1>2, <2>1
    <2>4. CallOK(t)' BY <1>1, <1>2, <2>1, <2>2 DEF CallOK
    <2>5. ASSUME NEW s \in Threads, s # t PROVE CallOK(s)'
        BY <1>1, <2>1, <2>5 DEF CallOK
    <2>6. QED BY <2>3, <2>4, <2>5
<1>4. CASE ~LastAttempt(attempt[t])
    <2> DEFINE delay == RetryDelay(attempt[t], asked)
    <2>1. attempt[t] \in Nat BY <1>2
    <2>2. delay \in Nat
        BY <2>1, DelayIsNat
    <2>3. /\ phase' = [phase EXCEPT ![t] = "backoff"]
          /\ attempt' = [attempt EXCEPT ![t] = @ + 1]
          /\ resumeAt' = [resumeAt EXCEPT ![t] = clock + delay]
        BY <1>4, <2>2 DEF RetryOr
    <2> HIDE DEF delay
    <2>4. clock + delay \in Nat BY <1>2, <2>2
    <2>5. attempt[t] + 1 \in 0..(MaxAttempts - 1)
        BY <1>2, <1>4 DEF LastAttempt
    <2>6. CallTypes' BY <1>1, <2>3, <2>4, <2>5
    <2>7. CallOK(t)' BY <1>1, <1>2, <2>3, <2>5 DEF CallOK
    <2>8. ASSUME NEW s \in Threads, s # t PROVE CallOK(s)'
        BY <1>1, <2>3, <2>8 DEF CallOK
    <2>9. QED BY <2>6, <2>7, <2>8
<1>5. QED BY <1>3, <1>4

\* Every step keeps what is known of the calls.
LEMMA CallInvNext == TypeOK /\ WireInv /\ CallInv /\ [HttpNext]_httpVars => CallInv'
<1> SUFFICES ASSUME TypeOK, WireInv, CallInv, [HttpNext]_httpVars PROVE CallInv'
    OBVIOUS
<1> USE DEF CallInv
<1>0. MaxAttempts \in Nat \ {0} BY AttemptAssumption
<1>1. ASSUME NEW t \in Threads, Request(t) PROVE CallInv'
    BY <1>1 DEF Request, CallTypes, CallOK, Inside, Outcomes, seen
<1>2. ASSUME NEW t \in Threads, Acquired(t) PROVE CallInv'
    <2>1. phase[t] = "acquire"
        BY <1>2 DEF Acquired, Take, WireInv
    <2>2. QED BY <1>2, <2>1 DEF Acquired, CallTypes, CallOK, Inside, Outcomes, seen
<1>3. ASSUME NEW t \in Threads, Blocked(t) PROVE CallInv'
    BY <1>3 DEF Blocked, http, seen, CallTypes, CallOK
<1>4. ASSUME NEW t \in Threads, Succeed(t) \/ ClientError(t) \/ OtherError(t) PROVE CallInv'
    BY <1>0, <1>4 DEF Succeed, ClientError, OtherError, Finish, Sent, CallTypes, CallOK,
                      Inside, Outcomes, Replies
<1>5. ASSUME NEW t \in Threads, Throttled(t) PROVE CallInv'
    BY <1>5, CallInvRetry DEF Throttled, Asked
<1>6. ASSUME NEW t \in Threads, TransportError(t) PROVE CallInv'
    BY <1>6, CallInvRetry DEF TransportError, Asked
<1>7. ASSUME NEW t \in Threads, Resume(t) PROVE CallInv'
    BY <1>7 DEF Resume, CallTypes, CallOK, Inside, Outcomes
<1>8. CASE TimePasses
    BY <1>8, BackoffAssumption DEF TimePasses, http, seen, CallTypes, CallOK
<1>9. CASE WindowOpens
    BY <1>9 DEF WindowOpens, http, seen, CallTypes, CallOK
<1>10. CASE UNCHANGED httpVars
    BY <1>10 DEF httpVars, http, seen, CallTypes, CallOK
<1>11. QED BY <1>1, <1>2, <1>3, <1>4, <1>5, <1>6, <1>7, <1>8, <1>9, <1>10
            DEF HttpNext, Reply

\* The types, the tokens in hand and the calls together, in every behaviour.
LEMMA CallInvariant == HttpSpec => [](TypeOK /\ WireInv /\ CallInv)
<1>1. HttpSpec => []TypeOK
    BY HttpImplementsBucket, BucketTypeOK, PTL
<1>2. QED BY <1>1, HttpWireInv, CallInvInit, CallInvNext, PTL DEF HttpSpec

\* Types of the whole client.
THEOREM HttpTypes == HttpSpec => []HttpTypeOK
<1>1. TypeOK /\ CallInv => HttpTypeOK
    BY AttemptAssumption DEF CallInv, CallTypes, HttpTypeOK, Inside
<1>2. QED BY <1>1, CallInvariant, PTL

\* Callers are told what happened, whatever the server answers.
THEOREM HttpVerdict == HttpSpec => []Verdict
<1>1. CallInv => Verdict
    BY DEF CallInv, CallOK, Verdict
<1>2. QED BY <1>1, CallInvariant, PTL
=============================================================================
