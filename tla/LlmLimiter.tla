----------------------------- MODULE LlmLimiter -----------------------------
(***************************************************************************)
(* The process-wide LLM limiter (core/limiter.py) and the discipline of    *)
(* the five places that call it.  Everything runs on the one thread of the *)
(* event loop, so the code between two awaits is one action.  An LLM call  *)
(* is one invocation of a call site: it starts once and returns at most    *)
(* once, and the constants may hold any finite number of them.             *)
(*                                                                         *)
(* A tick of the clock is the time the bucket needs for one token (60 /    *)
(* LLM_RPM seconds): what the code does between two ticks is modelled as   *)
(* happening on the tick.                                                  *)
(***************************************************************************)
EXTENDS Integers, FiniteSets

CONSTANTS
    JsonCalls,          \* second_gate_llm and _llm_json: parse what the LLM answers
    PlainCalls,         \* trend_summary: takes the answer as it is
    StreamCalls,        \* _llm_answer_stream: yields to the client while it holds a permit
    ReportCalls,        \* analyze_run: acquires inside the try whose finally releases
    LlmSemaphore,       \* settings.llm_semaphore, also the burst of the bucket
    FailureThreshold,   \* CircuitBreaker.failure_threshold
    OpenTicks,          \* CircuitBreaker.open_seconds
    MaxTime             \* bound of the model: the last tick of the clock

StrictCalls == JsonCalls \cup PlainCalls \cup StreamCalls
Calls == StrictCalls \cup ReportCalls

ASSUME CallsAssumption == IsFiniteSet(Calls) /\ StrictCalls \cap ReportCalls = {}
ASSUME LimitsAssumption ==
    /\ LlmSemaphore \in Nat \ {0}
    /\ FailureThreshold \in Nat \ {0}
    /\ OpenTicks \in Nat
    /\ MaxTime \in Nat

VARIABLES
    now,        \* time.monotonic(), in ticks
    permits,    \* the value of the threading.Semaphore
    bucket,     \* TokenBucket: tokens and the time of the last refill
    breaker,    \* llm_breaker
    call        \* where each call is

vars == <<now, permits, bucket, breaker, call>>

Phases == {"idle", "calling", "echoing", "blocked",
           "refused_open", "refused_rate", "returned"}
BreakerStates == {"closed", "open", "half_open"}

TypeOK ==
    /\ now \in 0..MaxTime
    /\ permits \in Nat
    /\ bucket \in [tokens : 0..LlmSemaphore, last : 0..MaxTime]
    /\ breaker \in [state : BreakerStates, failures : Nat, openUntil : Nat]
    /\ call \in [Calls -> Phases]

Init ==
    /\ now = 0
    /\ permits = LlmSemaphore
    /\ bucket = [tokens |-> LlmSemaphore, last |-> 0]
    /\ breaker = [state |-> "closed", failures |-> 0, openUntil |-> 0]
    /\ call = [c \in Calls |-> "idle"]

-----------------------------------------------------------------------------
(* The breaker: allow, record_success and record_failure. *)

(* Faulty variant of AfterAllow: the window over, it closes without a      *)
(* probe.                                                                  *)
AfterAllowCloses(b) ==
    IF b.state = "open" /\ now >= b.openUntil THEN [b EXCEPT !.state = "closed"] ELSE b

AfterAllow(b) ==
    IF b.state = "open" /\ now >= b.openUntil THEN [b EXCEPT !.state = "half_open"] ELSE b

(* Faulty variant of OnSuccess: any success closes, in the open state too. *)
OnSuccessAlwaysCloses(b) == [b EXCEPT !.failures = 0, !.state = "closed"]

OnSuccess(b) ==
    [state |-> IF b.state = "half_open" THEN "closed" ELSE b.state,
     failures |-> 0,
     openUntil |-> b.openUntil]

OnFailure(b) ==
    IF b.failures + 1 >= FailureThreshold
    THEN [state |-> "open", failures |-> b.failures + 1, openUntil |-> now + OpenTicks]
    ELSE [b EXCEPT !.failures = @ + 1]

(* Faulty variant of Refilled: a quiet hour saves up tokens. *)
RefilledUncapped == bucket.tokens + (now - bucket.last)

(* TokenBucket.acquire refills first, up to its capacity. *)
Refilled ==
    IF bucket.tokens + (now - bucket.last) > LlmSemaphore
    THEN LlmSemaphore
    ELSE bucket.tokens + (now - bucket.last)

(* A call that waits for a permit waits in threading.Semaphore.acquire, so *)
(* it holds the thread of the event loop: no coroutine runs any more.      *)
Frozen == \E c \in Calls : call[c] = "blocked"

Holders == {c \in Calls : call[c] \in {"calling", "echoing"}}

-----------------------------------------------------------------------------
(* try_acquire_llm, with what its caller does with the answer.  A report   *)
(* releases and records a failure even when the limiter refused it.        *)

RefusedByBreaker(c) ==
    LET b == AfterAllow(breaker) IN
    /\ b.state = "open"
    /\ call' = [call EXCEPT ![c] = "refused_open"]
    /\ IF c \in ReportCalls
       THEN permits' = permits + 1 /\ breaker' = OnFailure(b)
       ELSE permits' = permits /\ breaker' = b
    /\ UNCHANGED bucket

(* Faulty variant of BlocksOnSemaphore: the last permit is never given     *)
(* out.                                                                    *)
BlocksOnLastPermit(c) ==
    LET b == AfterAllow(breaker) IN
    /\ b.state # "open"
    /\ permits <= 1
    /\ call' = [call EXCEPT ![c] = "blocked"]
    /\ breaker' = b
    /\ UNCHANGED <<permits, bucket>>

BlocksOnSemaphore(c) ==
    LET b == AfterAllow(breaker) IN
    /\ b.state # "open"
    /\ permits = 0
    /\ call' = [call EXCEPT ![c] = "blocked"]
    /\ breaker' = b
    /\ UNCHANGED <<permits, bucket>>

RefusedByBucket(c) ==
    LET b == AfterAllow(breaker) IN
    /\ b.state # "open"
    /\ permits > 0
    /\ Refilled < 1
    /\ bucket' = [tokens |-> Refilled, last |-> now]
    /\ call' = [call EXCEPT ![c] = "refused_rate"]
    /\ IF c \in ReportCalls
       THEN permits' = permits /\ breaker' = OnFailure(b)
       ELSE permits' = permits - 1 /\ breaker' = b

(* Faulty variant of Admitted: the time of the refill is not recorded.     *)
AdmittedKeepsLast(c) ==
    LET b == AfterAllow(breaker) IN
    /\ b.state # "open"
    /\ permits > 0
    /\ Refilled >= 1
    /\ permits' = permits - 1
    /\ bucket' = [bucket EXCEPT !.tokens = Refilled - 1]
    /\ breaker' = b
    /\ call' = [call EXCEPT ![c] = "calling"]

Admitted(c) ==
    LET b == AfterAllow(breaker) IN
    /\ b.state # "open"
    /\ permits > 0
    /\ Refilled >= 1
    /\ permits' = permits - 1
    /\ bucket' = [tokens |-> Refilled - 1, last |-> now]
    /\ breaker' = b
    /\ call' = [call EXCEPT ![c] = "calling"]

Starts(c) ==
    /\ ~Frozen
    /\ call[c] = "idle"
    /\ \/ RefusedByBreaker(c)
       \/ BlocksOnSemaphore(c)
       \/ RefusedByBucket(c)
       \/ Admitted(c)
    /\ UNCHANGED now

-----------------------------------------------------------------------------
(* The ways a call ends: each runs the finally that releases the permit.   *)

Releases(c) ==
    /\ permits' = permits + 1
    /\ call' = [call EXCEPT ![c] = "returned"]

Succeeds(c) == breaker' = OnSuccess(breaker) /\ Releases(c)

(* The success is recorded before the answer is parsed. *)
AnswerUnusable(c) ==
    /\ c \in JsonCalls
    /\ breaker' = OnFailure(OnSuccess(breaker))
    /\ Releases(c)

(* A stream yields the fallback from inside the except: it waits there for *)
(* its client, with the failure recorded and the permit still held.        *)
Fails(c) ==
    /\ breaker' = OnFailure(breaker)
    /\ IF c \in StreamCalls
       THEN call' = [call EXCEPT ![c] = "echoing"] /\ UNCHANGED permits
       ELSE Releases(c)

(* Faulty variant of Cancelled: the release is not in a finally.           *)
CancelledKeepsPermit(c) ==
    /\ call' = [call EXCEPT ![c] = "returned"]
    /\ UNCHANGED <<permits, breaker>>

(* The 60 s limit of a diagnosis, a client that leaves, the shutdown:      *)
(* CancelledError is no Exception, so the breaker hears nothing.           *)
Cancelled(c) == UNCHANGED breaker /\ Releases(c)

(* Faulty variant of Returns: a stream left by its client is never closed. *)
ReturnsWithoutEcho(c) ==
    /\ ~Frozen
    /\ call[c] = "calling"
    /\ Succeeds(c) \/ AnswerUnusable(c) \/ Fails(c) \/ Cancelled(c)
    /\ UNCHANGED <<now, bucket>>

Returns(c) ==
    /\ ~Frozen
    /\ \/ /\ call[c] = "calling"
          /\ \/ Succeeds(c)
             \/ AnswerUnusable(c)
             \/ Fails(c)
             \/ Cancelled(c)
       \/ /\ call[c] = "echoing"
          /\ Cancelled(c)
    /\ UNCHANGED <<now, bucket>>

Tick ==
    /\ now < MaxTime
    /\ now' = now + 1
    /\ UNCHANGED <<permits, bucket, breaker, call>>

Next ==
    \/ Tick
    \/ \E c \in Calls : Starts(c) \/ Returns(c)

(* An LLM request ends or times out and its coroutine is resumed as long   *)
(* as the loop runs; nothing obliges a call to start.                      *)
Fairness == \A c \in Calls : WF_vars(Returns(c))

Spec == Init /\ [][Next]_vars /\ Fairness

-----------------------------------------------------------------------------
(* Properties *)

InPhase(S, p) == {c \in S : call[c] = p}

Lost == InPhase(StrictCalls, "refused_rate")
Minted == InPhase(ReportCalls, "refused_open")

(* Every permit is free, held by a call, lost by a caller that the bucket  *)
(* refused after the semaphore admitted it, or was minted by a report that *)
(* released what the open breaker had refused it.  try_acquire_llm and the *)
(* finally blocks of its five callers.                                     *)
PermitAccounting ==
    permits + Cardinality(Holders) + Cardinality(Lost) = LlmSemaphore + Cardinality(Minted)

(* The breaker is closed only with fewer failures in a row than its        *)
(* threshold, and it leaves the open state only after its window has       *)
(* passed, however the calls admitted before it opened end meanwhile.      *)
BreakerConsistent ==
    /\ breaker.state = "closed" => breaker.failures < FailureThreshold
    /\ breaker.state # "open" => breaker.openUntil <= now

(* What the bucket grants: no more calls have been admitted than its burst *)
(* and one per tick since the start, whatever the order of the calls.      *)
RateBounded ==
    Cardinality({c \in Calls : call[c] \in {"calling", "echoing", "returned"}})
      + bucket.tokens <= LlmSemaphore + bucket.last

(* CircuitBreaker: an open breaker only goes to half open, and closes only *)
(* from half open, by an answer of the LLM: a call that returns.           *)
RecoversByProbe ==
    [][/\ breaker.state = "open" => breaker'.state \in {"open", "half_open"}
       /\ breaker.state # "closed" /\ breaker'.state = "closed" =>
            /\ breaker.state = "half_open"
            /\ \E c \in Calls : call[c] = "calling" /\ call'[c] = "returned"]_vars

(* The loop stops only when every permit is held by a call or lost: the    *)
(* call that blocks it is the one too many.                                *)
FrozenOnlyWhenExhausted ==
    Frozen => /\ permits = 0
              /\ Cardinality(Holders) + Cardinality(Lost) >= LlmSemaphore

(* While the loop runs, a call that holds a permit gives it back.          *)
HoldersReturn ==
    \A c \in Calls : c \in Holders ~> (c \notin Holders \/ Frozen)


(* limiter.py:4, "the semaphore limits the concurrency": it does where no  *)
(* report analysis takes part (theorem ConcurrencyWithoutReports).         *)
ConcurrencyLimited == Cardinality(Holders) <= LlmSemaphore
=============================================================================
