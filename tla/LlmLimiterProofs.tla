-------------------------- MODULE LlmLimiterProofs --------------------------
(***************************************************************************)
(* Theorems about the LLM limiter, for any finite set of calls and every   *)
(* limit: type correctness, the accounting of the permits and what follows *)
(* from it, the consistency of the breaker, and the rate.  The analysis of *)
(* reports, which is one of its callers, follows at the end.               *)
(***************************************************************************)
EXTENDS LlmLimiter, Reports, FiniteSetTheorems, TLAPS

(* The breaker's operators return a breaker. *)
Breakers == [state : BreakerStates, failures : Nat, openUntil : Nat]

(* allow, record_success and record_failure keep the type of the breaker.  *)
LEMMA BreakerTypes ==
    ASSUME TypeOK, NEW b \in Breakers
    PROVE  /\ AfterAllow(b) \in Breakers
           /\ OnSuccess(b) \in Breakers
           /\ OnFailure(b) \in Breakers
<1>1. AfterAllow(b) \in Breakers
  BY DEF Breakers, BreakerStates, AfterAllow
<1>2. OnSuccess(b) \in Breakers
  BY DEF OnSuccess, Breakers, BreakerStates
<1>3. OnFailure(b) \in Breakers
  BY LimitsAssumption DEF Breakers, BreakerStates, OnFailure, TypeOK
<1> QED
  BY <1>1, <1>2, <1>3

(* A refill of the bucket stays between nothing and its capacity.          *)
LEMMA RefilledType ==
    ASSUME TypeOK, now >= bucket.last
    PROVE  Refilled \in 0..LlmSemaphore
  BY LimitsAssumption DEF TypeOK, Refilled

(* The refill never looks into the future: the clock is monotone. *)
LastInPast == bucket.last <= now

(* Every variable keeps its type, and no refill lies in the future.  The   *)
(* states of core/limiter.py's objects and of the calls.                   *)
THEOREM TypeCorrect == Spec => [](TypeOK /\ LastInPast)
<1>1. Init => TypeOK /\ LastInPast
  BY LimitsAssumption DEF Init, TypeOK, LastInPast, Phases, BreakerStates
<1>2. TypeOK /\ LastInPast /\ [Next]_vars => (TypeOK /\ LastInPast)'
  <2> SUFFICES ASSUME TypeOK, LastInPast, [Next]_vars
               PROVE  (TypeOK /\ LastInPast)'
    OBVIOUS
  <2>0. breaker \in Breakers
    BY DEF TypeOK, Breakers
  <2>a. /\ AfterAllow(breaker) \in Breakers
        /\ OnSuccess(breaker) \in Breakers
        /\ OnFailure(breaker) \in Breakers
        /\ OnFailure(AfterAllow(breaker)) \in Breakers
        /\ OnFailure(OnSuccess(breaker)) \in Breakers
    BY <2>0, BreakerTypes
  <2>b. Refilled \in 0..LlmSemaphore
    BY RefilledType DEF LastInPast, TypeOK
  <2>1. CASE Tick
    BY <2>1, LimitsAssumption DEF Tick, TypeOK, LastInPast
  <2>2. ASSUME NEW c \in Calls, Starts(c)
        PROVE  (TypeOK /\ LastInPast)'
    <3>1. breaker' \in Breakers
      BY <2>0, <2>a, <2>2
         DEF Starts, RefusedByBreaker, BlocksOnSemaphore, RefusedByBucket, Admitted
    <3>2. permits' \in Nat
      BY <2>2 DEF Starts, RefusedByBreaker, BlocksOnSemaphore, RefusedByBucket, Admitted, TypeOK
    <3>3. call' \in [Calls -> Phases]
      BY <2>2 DEF Starts, RefusedByBreaker, BlocksOnSemaphore, RefusedByBucket, Admitted,
                  TypeOK, Phases
    <3>4. bucket' \in [tokens : 0..LlmSemaphore, last : 0..MaxTime]
      BY <2>2, <2>b, LimitsAssumption
         DEF Starts, RefusedByBreaker, BlocksOnSemaphore, RefusedByBucket, Admitted, TypeOK
    <3>5. LastInPast' /\ now' = now
      BY <2>2
         DEF Starts, RefusedByBreaker, BlocksOnSemaphore, RefusedByBucket, Admitted,
             TypeOK, LastInPast
    <3> QED
      BY <3>1, <3>2, <3>3, <3>4, <3>5 DEF TypeOK, Breakers
  <2>3. ASSUME NEW c \in Calls, Returns(c)
        PROVE  (TypeOK /\ LastInPast)'
    <3>1. breaker' \in Breakers
      BY <2>0, <2>a, <2>3 DEF Returns, Succeeds, AnswerUnusable, Fails, Cancelled
    <3>2. permits' \in Nat
      BY <2>3 DEF Returns, Succeeds, AnswerUnusable, Fails, Cancelled, Releases, TypeOK
    <3>3. call' \in [Calls -> Phases]
      BY <2>3 DEF Returns, Succeeds, AnswerUnusable, Fails, Cancelled, Releases, TypeOK, Phases
    <3> QED
      BY <2>3, <3>1, <3>2, <3>3 DEF Returns, TypeOK, LastInPast, Breakers
  <2>4. CASE UNCHANGED vars
    BY <2>4 DEF vars, TypeOK, LastInPast
  <2> QED
    BY <2>1, <2>2, <2>3, <2>4 DEF Next
<1> QED
  BY <1>1, <1>2, PTL DEF Spec

-----------------------------------------------------------------------------
(* The accounting of the permits. *)

(* The three sets that are counted are finite, and a step of call c moves  *)
(* c alone into or out of each of them.                                    *)
LEMMA CountedSets ==
    ASSUME TypeOK
    PROVE  /\ IsFiniteSet(Holders) /\ IsFiniteSet(Lost) /\ IsFiniteSet(Minted)
           /\ Cardinality(Holders) \in Nat
           /\ Cardinality(Lost) \in Nat
           /\ Cardinality(Minted) \in Nat
<1>1. Holders \in SUBSET Calls /\ Lost \in SUBSET Calls /\ Minted \in SUBSET Calls
  BY DEF Holders, Lost, Minted, InPhase, Calls
<1>2. IsFiniteSet(Holders) /\ IsFiniteSet(Lost) /\ IsFiniteSet(Minted)
  BY <1>1, FS_Subset, CallsAssumption
<1> QED
  BY <1>2, FS_CardinalityType

(* A step of one call changes the calls in a phase by that call only.      *)
LEMMA MovesOneCall ==
    ASSUME TypeOK, NEW c \in Calls, NEW p \in Phases, call' = [call EXCEPT ![c] = p]
    PROVE  /\ Holders' = IF p \in {"calling", "echoing"} THEN Holders \cup {c}
                         ELSE Holders \ {c}
           /\ Lost' = IF p = "refused_rate" /\ c \in StrictCalls THEN Lost \cup {c}
                      ELSE Lost \ {c}
           /\ Minted' = IF p = "refused_open" /\ c \in ReportCalls THEN Minted \cup {c}
                        ELSE Minted \ {c}
<1>1. \A d \in Calls : call'[d] = IF d = c THEN p ELSE call[d]
  BY DEF TypeOK
<1>2. StrictCalls \subseteq Calls /\ ReportCalls \subseteq Calls
  BY DEF Calls
<1> QED
  BY <1>1, <1>2 DEF Holders, Lost, Minted, InPhase

(* How the numbers of holders, lost and minted permits change with one     *)
(* call.                                                                   *)
LEMMA CountsAfter ==
    ASSUME TypeOK, NEW c \in Calls
    PROVE  /\ Cardinality(Holders \cup {c}) =
                IF c \in Holders THEN Cardinality(Holders) ELSE Cardinality(Holders) + 1
           /\ Cardinality(Holders \ {c}) =
                IF c \in Holders THEN Cardinality(Holders) - 1 ELSE Cardinality(Holders)
           /\ Cardinality(Lost \cup {c}) =
                IF c \in Lost THEN Cardinality(Lost) ELSE Cardinality(Lost) + 1
           /\ Cardinality(Lost \ {c}) =
                IF c \in Lost THEN Cardinality(Lost) - 1 ELSE Cardinality(Lost)
           /\ Cardinality(Minted \cup {c}) =
                IF c \in Minted THEN Cardinality(Minted) ELSE Cardinality(Minted) + 1
           /\ Cardinality(Minted \ {c}) =
                IF c \in Minted THEN Cardinality(Minted) - 1 ELSE Cardinality(Minted)
  BY CountedSets, FS_AddElement, FS_RemoveElement

(* Where a call is says which of the three sets it is in. *)
LEMMA Membership ==
    ASSUME TypeOK, NEW c \in Calls
    PROVE  /\ c \in Holders <=> call[c] \in {"calling", "echoing"}
           /\ c \in Lost <=> c \in StrictCalls /\ call[c] = "refused_rate"
           /\ c \in Minted <=> c \in ReportCalls /\ call[c] = "refused_open"
           /\ c \in StrictCalls <=> c \notin ReportCalls
  BY CallsAssumption DEF Holders, Lost, Minted, InPhase, Calls

(* PermitAccounting holds of every run of try_acquire_llm, release_llm and *)
(* their five callers: no permit vanishes or appears but at the two spots  *)
(* the equation names.                                                     *)
THEOREM PermitsAccounted == Spec => []PermitAccounting
<1>1. Init => PermitAccounting
  <2> SUFFICES ASSUME Init
               PROVE  PermitAccounting
    OBVIOUS
  <2>1. Holders = {} /\ Lost = {} /\ Minted = {}
    BY DEF Init, Holders, Lost, Minted, InPhase, Calls
  <2> QED
    BY <2>1, FS_EmptySet, LimitsAssumption DEF Init, PermitAccounting
<1>2. TypeOK /\ PermitAccounting /\ [Next]_vars => PermitAccounting'
  <2> SUFFICES ASSUME TypeOK, PermitAccounting, [Next]_vars
               PROVE  PermitAccounting'
    OBVIOUS
  <2>1. CASE Tick
    BY <2>1 DEF Tick, PermitAccounting, Holders, Lost, Minted, InPhase
  <2>2. ASSUME NEW c \in Calls, Starts(c)
        PROVE  PermitAccounting'
    <3>1. c \notin Holders /\ c \notin Lost /\ c \notin Minted
      BY <2>2, Membership DEF Starts
    <3>2. CASE RefusedByBreaker(c)
      <4>1. /\ Holders' = Holders \ {c} /\ Lost' = Lost \ {c}
            /\ Minted' = IF c \in ReportCalls THEN Minted \cup {c} ELSE Minted \ {c}
        BY <3>2, MovesOneCall DEF RefusedByBreaker, Phases
      <4>2. /\ Cardinality(Holders)' = Cardinality(Holders)
            /\ Cardinality(Lost)' = Cardinality(Lost)
            /\ Cardinality(Minted)' =
                 IF c \in ReportCalls THEN Cardinality(Minted) + 1 ELSE Cardinality(Minted)
        BY <3>1, <4>1, CountsAfter
      <4>3. permits' = IF c \in ReportCalls THEN permits + 1 ELSE permits
        BY <3>2 DEF RefusedByBreaker
      <4> QED
        BY <4>2, <4>3, CountedSets, LimitsAssumption DEF PermitAccounting, TypeOK
    <3>3. CASE BlocksOnSemaphore(c)
      <4>1. Holders' = Holders \ {c} /\ Lost' = Lost \ {c} /\ Minted' = Minted \ {c}
        BY <3>3, MovesOneCall DEF BlocksOnSemaphore, Phases
      <4> QED
        BY <3>1, <3>3, <4>1, CountsAfter DEF BlocksOnSemaphore, PermitAccounting
    <3>4. CASE RefusedByBucket(c)
      <4>1. /\ Holders' = Holders \ {c} /\ Minted' = Minted \ {c}
            /\ Lost' = IF c \in StrictCalls THEN Lost \cup {c} ELSE Lost \ {c}
        BY <3>4, MovesOneCall DEF RefusedByBucket, Phases
      <4>2. /\ Cardinality(Holders)' = Cardinality(Holders)
            /\ Cardinality(Lost)' =
                 IF c \in StrictCalls THEN Cardinality(Lost) + 1 ELSE Cardinality(Lost)
            /\ Cardinality(Minted)' = Cardinality(Minted)
        BY <3>1, <4>1, CountsAfter
      <4>3. permits' = IF c \in StrictCalls THEN permits - 1 ELSE permits
        BY <3>4, Membership DEF RefusedByBucket
      <4> QED
        BY <4>2, <4>3, CountedSets, LimitsAssumption DEF PermitAccounting, TypeOK
    <3>5. CASE Admitted(c)
      <4>1. Holders' = Holders \cup {c} /\ Lost' = Lost \ {c} /\ Minted' = Minted \ {c}
        BY <3>5, MovesOneCall DEF Admitted, Phases
      <4>2. /\ Cardinality(Holders)' = Cardinality(Holders) + 1
            /\ Cardinality(Lost)' = Cardinality(Lost)
            /\ Cardinality(Minted)' = Cardinality(Minted)
        BY <3>1, <4>1, CountsAfter
      <4> QED
        BY <3>5, <4>2, CountedSets, LimitsAssumption DEF Admitted, PermitAccounting, TypeOK
    <3> QED
      BY <2>2, <3>2, <3>3, <3>4, <3>5 DEF Starts
  <2>3. ASSUME NEW c \in Calls, Returns(c)
        PROVE  PermitAccounting'
    <3>1. c \in Holders /\ c \notin Lost /\ c \notin Minted
      BY <2>3, Membership DEF Returns
    <3>2. CASE Releases(c)
      <4>1. Holders' = Holders \ {c} /\ Lost' = Lost \ {c} /\ Minted' = Minted \ {c}
        BY <3>2, MovesOneCall DEF Releases, Phases
      <4>2. /\ Cardinality(Holders)' = Cardinality(Holders) - 1
            /\ Cardinality(Lost)' = Cardinality(Lost)
            /\ Cardinality(Minted)' = Cardinality(Minted)
        BY <3>1, <4>1, CountsAfter
      <4> QED
        BY <3>2, <4>2, CountedSets, LimitsAssumption DEF Releases, PermitAccounting, TypeOK
    <3>3. CASE call' = [call EXCEPT ![c] = "echoing"] /\ UNCHANGED permits
      <4>1. Holders' = Holders \cup {c} /\ Lost' = Lost \ {c} /\ Minted' = Minted \ {c}
        BY <3>3, MovesOneCall DEF Phases
      <4> QED
        BY <3>1, <3>3, <4>1, CountsAfter DEF PermitAccounting
    <3> QED
      BY <2>3, <3>2, <3>3 DEF Returns, Succeeds, AnswerUnusable, Fails, Cancelled
  <2>4. CASE UNCHANGED vars
    BY <2>4 DEF vars, PermitAccounting, Holders, Lost, Minted, InPhase
  <2> QED
    BY <2>1, <2>2, <2>3, <2>4 DEF Next
<1> QED
  BY <1>1, <1>2, TypeCorrect, PTL DEF Spec

(* Without analyze_run the semaphore does what its comment says: never     *)
(* more than LLM_SEMAPHORE calls at once, whatever is cancelled or         *)
(* refused.                                                                *)
THEOREM ConcurrencyWithoutReports ==
    ASSUME ReportCalls = {}
    PROVE  Spec => []ConcurrencyLimited
<1>1. TypeOK /\ PermitAccounting => ConcurrencyLimited
  <2> SUFFICES ASSUME TypeOK, PermitAccounting
               PROVE  ConcurrencyLimited
    OBVIOUS
  <2>1. Minted = {}
    BY DEF Minted, InPhase
  <2> QED
    BY <2>1, FS_EmptySet, CountedSets, LimitsAssumption
       DEF PermitAccounting, ConcurrencyLimited, TypeOK
<1> QED
  BY <1>1, TypeCorrect, PermitsAccounted, PTL

-----------------------------------------------------------------------------
(* The frozen loop and the breaker. *)

(* The loop only stops for good when no permit is left, and then as many   *)
(* calls as there were permits hold one or have lost it.                   *)
THEOREM FreezeExhausts == Spec => []FrozenOnlyWhenExhausted
<1> DEFINE NonePermitted == Frozen => permits = 0
<1>1. Init => NonePermitted
  BY DEF Init, Frozen
<1>2. TypeOK /\ NonePermitted /\ [Next]_vars => NonePermitted'
  <2> SUFFICES ASSUME TypeOK, NonePermitted, [Next]_vars
               PROVE  NonePermitted'
    OBVIOUS
  <2>1. ASSUME NEW c \in Calls, Starts(c)
        PROVE  NonePermitted'
    <3>1. CASE BlocksOnSemaphore(c)
      BY <3>1 DEF BlocksOnSemaphore
    <3>2. CASE RefusedByBreaker(c) \/ RefusedByBucket(c) \/ Admitted(c)
      <4>1. ~Frozen'
        BY <2>1, <3>2
           DEF Starts, RefusedByBreaker, RefusedByBucket, Admitted, Frozen, TypeOK
      <4> QED
        BY <4>1
    <3> QED
      BY <2>1, <3>1, <3>2 DEF Starts
  <2>2. ASSUME NEW c \in Calls, Returns(c)
        PROVE  ~Frozen'
    BY <2>2 DEF Returns, Succeeds, AnswerUnusable, Fails, Cancelled, Releases, Frozen, TypeOK
  <2>3. CASE Tick \/ UNCHANGED vars
    BY <2>3 DEF Tick, vars, Frozen
  <2> QED
    BY <2>1, <2>2, <2>3 DEF Next
<1>3. TypeOK /\ PermitAccounting /\ NonePermitted => FrozenOnlyWhenExhausted
  <2> SUFFICES ASSUME TypeOK, PermitAccounting, NonePermitted, Frozen
               PROVE  FrozenOnlyWhenExhausted
    BY DEF FrozenOnlyWhenExhausted
  <2>1. permits = 0
    OBVIOUS
  <2> QED
    BY <2>1, CountedSets, LimitsAssumption DEF PermitAccounting, FrozenOnlyWhenExhausted
<1> QED
  BY <1>1, <1>2, <1>3, TypeCorrect, PermitsAccounted, PTL DEF Spec

(* A closed breaker has seen fewer failures in a row than its threshold,   *)
(* and no breaker is half open or closed before its window is over.        *)
THEOREM BreakerIsConsistent == Spec => []BreakerConsistent
<1>1. Init => BreakerConsistent
  BY LimitsAssumption DEF Init, BreakerConsistent
<1>2. TypeOK /\ BreakerConsistent /\ [Next]_vars => BreakerConsistent'
  <2> SUFFICES ASSUME TypeOK, BreakerConsistent, [Next]_vars
               PROVE  BreakerConsistent'
    OBVIOUS
  <2> DEFINE Good(b) == /\ b.state = "closed" => b.failures < FailureThreshold
                        /\ b.state # "open" => b.openUntil <= now
  <2>0. breaker \in Breakers /\ Good(breaker)
    BY DEF TypeOK, Breakers, BreakerConsistent
  <2>a. ASSUME NEW b \in Breakers, Good(b)
        PROVE  Good(AfterAllow(b)) /\ Good(OnSuccess(b)) /\ Good(OnFailure(b))
    <3>1. Good(AfterAllow(b))
      BY <2>a DEF AfterAllow, Breakers, BreakerStates
    <3>2. Good(OnSuccess(b))
      BY <2>a, LimitsAssumption DEF OnSuccess, Breakers, BreakerStates
    <3>3. Good(OnFailure(b))
      BY <2>a, LimitsAssumption DEF OnFailure, Breakers, BreakerStates, TypeOK
    <3> QED
      BY <3>1, <3>2, <3>3
  <2>b. /\ AfterAllow(breaker) \in Breakers
        /\ OnSuccess(breaker) \in Breakers
    BY <2>0, BreakerTypes
  <2>c. /\ Good(breaker) /\ Good(AfterAllow(breaker)) /\ Good(OnSuccess(breaker))
        /\ Good(OnFailure(breaker)) /\ Good(OnFailure(AfterAllow(breaker)))
        /\ Good(OnFailure(OnSuccess(breaker)))
    BY <2>0, <2>a, <2>b
  <2>1. CASE Tick
    BY <2>1 DEF Tick, BreakerConsistent, TypeOK
  <2>2. ASSUME NEW c \in Calls, Starts(c) \/ Returns(c)
        PROVE  BreakerConsistent'
    <3>1. now' = now
      BY <2>2 DEF Starts, Returns
    <3>2. \/ breaker' = breaker
          \/ breaker' = AfterAllow(breaker)
          \/ breaker' = OnSuccess(breaker)
          \/ breaker' = OnFailure(breaker)
          \/ breaker' = OnFailure(AfterAllow(breaker))
          \/ breaker' = OnFailure(OnSuccess(breaker))
      BY <2>2
         DEF Starts, RefusedByBreaker, BlocksOnSemaphore, RefusedByBucket, Admitted,
             Returns, Succeeds, AnswerUnusable, Fails, Cancelled
    <3>3. Good(breaker')
      BY <2>c, <3>2
    <3> QED
      BY <3>1, <3>3 DEF BreakerConsistent
  <2>3. CASE UNCHANGED vars
    BY <2>3 DEF vars, BreakerConsistent
  <2> QED
    BY <2>1, <2>2, <2>3 DEF Next
<1> QED
  BY <1>1, <1>2, TypeCorrect, PTL DEF Spec

-----------------------------------------------------------------------------
(* The rate of the bucket. *)

AdmittedCalls == {c \in Calls : call[c] \in {"calling", "echoing", "returned"}}

(* A refill adds at most one token per tick.                               *)
LEMMA RefilledBound ==
    ASSUME TypeOK, LastInPast
    PROVE  /\ Refilled \in Int
           /\ Refilled <= bucket.tokens + (now - bucket.last)
  BY LimitsAssumption DEF TypeOK, LastInPast, Refilled

(* No more calls are ever admitted than the burst of the bucket and one    *)
(* per tick: TokenBucket.acquire, in whatever order the calls come.        *)
THEOREM BucketBounds == Spec => []RateBounded
<1> DEFINE n == Cardinality(AdmittedCalls)
<1>0. RateBounded <=> n + bucket.tokens <= LlmSemaphore + bucket.last
  BY DEF RateBounded, AdmittedCalls
<1>1. Init => RateBounded
  <2> SUFFICES ASSUME Init
               PROVE  RateBounded
    OBVIOUS
  <2>1. AdmittedCalls = {}
    BY DEF Init, AdmittedCalls
  <2>2. n = 0
    BY <2>1, FS_EmptySet
  <2> HIDE DEF n
  <2> QED
    BY <1>0, <2>2, LimitsAssumption DEF Init
<1>2. TypeOK /\ LastInPast /\ RateBounded /\ [Next]_vars => RateBounded'
  <2> SUFFICES ASSUME TypeOK, LastInPast, RateBounded, [Next]_vars
               PROVE  RateBounded'
    OBVIOUS
  <2>0. /\ AdmittedCalls \in SUBSET Calls /\ IsFiniteSet(AdmittedCalls) /\ n \in Nat
    <3>1. AdmittedCalls \in SUBSET Calls
      BY DEF AdmittedCalls
    <3>2. IsFiniteSet(AdmittedCalls)
      BY <3>1, CallsAssumption, FS_Subset
    <3> QED
      BY <3>1, <3>2, FS_CardinalityType
  <2>a. /\ bucket.tokens \in Nat /\ bucket.last \in Nat /\ now \in Nat
        /\ LlmSemaphore \in Nat /\ LastInPast
    BY LimitsAssumption DEF TypeOK
  <2>b. RateBounded' <=> n' + bucket'.tokens <= LlmSemaphore + bucket'.last
    BY DEF RateBounded, AdmittedCalls
  <2>1. ASSUME AdmittedCalls' = AdmittedCalls, bucket' = bucket
        PROVE  RateBounded'
    BY <1>0, <2>1, <2>b
  <2>2. ASSUME NEW c \in Calls, NEW p \in Phases, call' = [call EXCEPT ![c] = p]
        PROVE  /\ p \in {"calling", "echoing", "returned"} => AdmittedCalls' = AdmittedCalls \cup {c}
               /\ p \notin {"calling", "echoing", "returned"} /\ call[c] = "idle" =>
                    AdmittedCalls' = AdmittedCalls
    <3>1. \A d \in Calls : call'[d] = IF d = c THEN p ELSE call[d]
      BY <2>2 DEF TypeOK
    <3> QED
      BY <3>1 DEF AdmittedCalls
  <2>3. CASE Tick
    BY <2>1, <2>3 DEF Tick, AdmittedCalls
  <2>4. ASSUME NEW c \in Calls, Starts(c)
        PROVE  RateBounded'
    <3>0. call[c] = "idle" /\ c \notin AdmittedCalls
      BY <2>4 DEF Starts, AdmittedCalls
    <3>1. CASE RefusedByBreaker(c) \/ BlocksOnSemaphore(c)
      BY <2>1, <2>2, <3>0, <3>1 DEF RefusedByBreaker, BlocksOnSemaphore, Phases
    <3>2. CASE RefusedByBucket(c)
      <4>1. AdmittedCalls' = AdmittedCalls
        BY <2>2, <3>0, <3>2 DEF RefusedByBucket, Phases
      <4>2. n' = n
        BY <4>1
      <4>3. bucket'.tokens = Refilled /\ bucket'.last = now
        BY <3>2 DEF RefusedByBucket
      <4> HIDE DEF n
      <4> QED
        BY <1>0, <2>0, <2>a, <2>b, <4>2, <4>3, RefilledBound
    <3>3. CASE Admitted(c)
      <4>1. AdmittedCalls' = AdmittedCalls \cup {c}
        BY <2>2, <3>3 DEF Admitted, Phases
      <4>2. n' = n + 1
        BY <2>0, <3>0, <4>1, FS_AddElement
      <4>3. bucket'.tokens = Refilled - 1 /\ bucket'.last = now
        BY <3>3 DEF Admitted
      <4> HIDE DEF n
      <4> QED
        BY <1>0, <2>0, <2>a, <2>b, <4>2, <4>3, RefilledBound
    <3> QED
      BY <2>4, <3>1, <3>2, <3>3 DEF Starts
  <2>5. ASSUME NEW c \in Calls, Returns(c)
        PROVE  RateBounded'
    <3>1. bucket' = bucket /\ c \in AdmittedCalls
      BY <2>5 DEF Returns, AdmittedCalls
    <3>2. \E p \in {"echoing", "returned"} : call' = [call EXCEPT ![c] = p]
      BY <2>5 DEF Returns, Succeeds, AnswerUnusable, Fails, Cancelled, Releases
    <3>3. AdmittedCalls' = AdmittedCalls
      BY <2>2, <3>1, <3>2 DEF Phases
    <3> QED
      BY <2>1, <3>1, <3>3
  <2>6. CASE UNCHANGED vars
    BY <2>1, <2>6 DEF vars, AdmittedCalls
  <2> QED
    BY <2>3, <2>4, <2>5, <2>6 DEF Next
<1> QED
  BY <1>1, <1>2, TypeCorrect, PTL DEF Spec

-----------------------------------------------------------------------------
(* The recovery of the breaker. *)

(* allow only leads from open to half open, a failure never closes, and a  *)
(* success closes from half open only.                                     *)
LEMMA BreakerMoves ==
    ASSUME NEW b \in Breakers
    PROVE  /\ \/ AfterAllow(b).state = b.state
              \/ b.state = "open" /\ AfterAllow(b).state = "half_open"
           /\ OnFailure(b).state \in {b.state, "open"}
           /\ OnSuccess(b).state = IF b.state = "half_open" THEN "closed" ELSE b.state
  BY DEF Breakers, AfterAllow, OnFailure, OnSuccess

(* The breaker of the LLM leaves the open state for half open only, and    *)
(* closes only from half open, when the answer to a call comes back.       *)
THEOREM ClosesByProbe == Spec => RecoversByProbe
<1> DEFINE P ==
      /\ breaker.state = "open" => breaker'.state \in {"open", "half_open"}
      /\ breaker.state # "closed" /\ breaker'.state = "closed" =>
           /\ breaker.state = "half_open"
           /\ \E c \in Calls : call[c] = "calling" /\ call'[c] = "returned"
<1>1. TypeOK /\ [Next]_vars => [P]_vars
  <2> SUFFICES ASSUME TypeOK, [Next]_vars
               PROVE  P \/ UNCHANGED vars
    OBVIOUS
  <2>0. breaker \in Breakers /\ AfterAllow(breaker) \in Breakers /\ OnSuccess(breaker) \in Breakers
    BY BreakerTypes DEF TypeOK, Breakers
  <2>1. CASE breaker' = breaker
    BY <2>0, <2>1 DEF Breakers, BreakerStates
  <2>2. ASSUME NEW c \in Calls, Starts(c)
        PROVE  P
    <3>1. \/ breaker' = AfterAllow(breaker)
          \/ breaker' = OnFailure(AfterAllow(breaker))
      BY <2>2 DEF Starts, RefusedByBreaker, BlocksOnSemaphore, RefusedByBucket, Admitted
    <3>2. breaker'.state \in {breaker.state, "open", "half_open"}
      BY <2>0, <3>1, BreakerMoves
    <3>3. breaker.state = "open" => breaker'.state \in {"open", "half_open"}
      BY <3>2
    <3> QED
      BY <3>2, <3>3
  <2>3. ASSUME NEW c \in Calls, Returns(c)
        PROVE  P
    <3>1. \/ breaker' = breaker
          \/ breaker' = OnFailure(breaker)
          \/ call[c] = "calling" /\ Succeeds(c)
          \/ call[c] = "calling" /\ AnswerUnusable(c)
      BY <2>3 DEF Returns, Fails, Cancelled
    <3>2. CASE breaker' = OnFailure(breaker)
      BY <2>0, <3>2, BreakerMoves
    <3>3. CASE call[c] = "calling" /\ (Succeeds(c) \/ AnswerUnusable(c))
      <4>1. call'[c] = "returned"
        BY <3>3 DEF Succeeds, AnswerUnusable, Releases, TypeOK
      <4>2. breaker' \in {OnSuccess(breaker), OnFailure(OnSuccess(breaker))}
        BY <3>3 DEF Succeeds, AnswerUnusable
      <4>3. breaker'.state \in {OnSuccess(breaker).state, "open"}
        BY <2>0, <4>2, BreakerMoves
      <4>4. OnSuccess(breaker).state = IF breaker.state = "half_open" THEN "closed" ELSE breaker.state
        BY <2>0, BreakerMoves
      <4> QED
        BY <3>3, <4>1, <4>3, <4>4
    <3> QED
      BY <2>1, <3>1, <3>2, <3>3
  <2>4. CASE Tick \/ UNCHANGED vars
    BY <2>1, <2>4 DEF Tick, vars
  <2> QED
    BY <2>2, <2>3, <2>4 DEF Next
<1> QED
  BY <1>1, TypeCorrect, PTL DEF Spec, RecoversByProbe
-----------------------------------------------------------------------------
(* Reports: one of the callers of the limiter, with a protocol of its own. *)

(* A text that is masked is still one that the checks can read.            *)
LEMMA MaskedTypes ==
    ASSUME NEW t \in AnyText
    PROVE  Masked(t) \in AnyText
  BY DEF Masked, AnyText

(* The text that stands in for an answer, and the absence of one.          *)
LEMMA FixedTypes == Unavailable \in AnyText /\ Nothing \in AnyText
  BY DEF AnyText, Unavailable, Nothing, Required

(* What is known of a run.                                                 *)
Verdicts == [level : {"ok", "warn", "crit", "unknown"}, errors : BOOLEAN]

(* Without tags and ids, the notes of a text are of three rules, and at    *)
(* most those on its evidence and on its level are doubtful.               *)
LEMMA AnnotationTypes ==
    ASSUME NEW t \in AnyText, NEW r \in Verdicts
    PROVE  /\ Annotations(t, r) \in SUBSET Notes
           /\ Banner(Annotations(t, r)) \in 0..2
<1>1. /\ Structure(t) \subseteq {Note("p1_structure", "note")}
      /\ Evidence(t) \subseteq {Note("p2_evidence", "suspicious")}
      /\ Conflict({}) = {} /\ OutOfBound({1}, {}) = {}
      /\ LevelConsistency(r.level, r.errors) \subseteq
           {Note("p5_level_consistency", "note"), Note("p5_level_consistency", "suspicious")}
  BY DEF Structure, Evidence, Conflict, OutOfBound, LevelConsistency, Verdicts
<1>2. Annotations(t, r) \subseteq
        {Note("p1_structure", "note"), Note("p2_evidence", "suspicious"),
         Note("p5_level_consistency", "note"), Note("p5_level_consistency", "suspicious")}
  BY <1>1 DEF Annotations
<1>3. Annotations(t, r) \in SUBSET Notes
  BY <1>2 DEF Notes, Rules, Note
<1> DEFINE e == Note("p2_evidence", "suspicious")
           l == Note("p5_level_consistency", "suspicious")
           doubtful == {n \in Annotations(t, r) : n.level \in {"suspicious", "conflict"}}
<1>4. doubtful \subseteq {e, l}
  BY <1>2 DEF Note
<1>5. IsFiniteSet({e, l}) /\ Cardinality({e, l}) \in 0..2
  <2>1. IsFiniteSet({e}) /\ Cardinality({e}) = 1
    BY FS_Singleton
  <2>2. {e, l} = {e} \cup {l}
    OBVIOUS
  <2> HIDE DEF e, l
  <2> QED
    BY <2>1, <2>2, FS_AddElement
<1>6. Cardinality(doubtful) \in 0..2
  <2> HIDE DEF doubtful
  <2>1. /\ IsFiniteSet(doubtful) /\ Cardinality(doubtful) <= Cardinality({e, l})
    BY <1>4, <1>5, FS_Subset
  <2>2. Cardinality(doubtful) \in Nat
    BY <2>1, FS_CardinalityType
  <2> QED
    BY <2>1, <2>2, <1>5
<1> QED
  BY <1>3, <1>6 DEF Banner

(* Each column of the row is what the session made of it, if it changed it *)
(* (the UPDATE of a commit), and is left as it was if not.                 *)
LEMMA FlushTypes ==
    ASSUME NEW row \in Rows, NEW seen, NEW new \in Rows
    PROVE  /\ Flushed(row, seen, new) \in Rows
           /\ \A c \in {"status", "content", "notes", "banner"} :
                Flushed(row, seen, new)[c] = IF new[c] = seen[c] THEN row[c] ELSE new[c]
<1>1. DOMAIN row = {"status", "content", "notes", "banner"}
  BY DEF Rows
<1> QED
  BY <1>1 DEF Rows, Flushed

(* The second commit: a text comes with its notes and their banner.        *)
LEMMA StoredRow ==
    ASSUME NEW t \in AnyText, NEW r \in Verdicts
    PROVE  [status |-> "done", content |-> Masked(t),
            notes |-> Annotations(Masked(t), r),
            banner |-> Banner(Annotations(Masked(t), r))] \in Rows
<1>1. Masked(t) \in AnyText
  BY MaskedTypes
<1> QED
  BY <1>1, AnnotationTypes DEF Rows

(* What an analysis has in its session.                                    *)
Sessions == [pc : {"idle", "read", "calling", "over", "lost"}, seen : Rows, met : BOOLEAN]

(* What the second commit makes of the analyses: the one that ended is     *)
(* over, and those that it met know it.                                    *)
LEMMA EndedSessions ==
    ASSUME ReportTypeOK, NEW a \in Analyses, NEW t, Stored(a, t), NEW b \in Analyses
    PROVE  /\ analysis'[b] \in Sessions
           /\ analysis'[b].pc \in {"read", "calling"} => analysis'[b].met
<1>1. /\ analysis[b] \in Sessions /\ EmptyRow \in Rows
  BY FixedTypes DEF ReportTypeOK, Sessions, EmptyRow, Rows
<1>2. CASE b = a
  <2>1. analysis'[b] = [Idle EXCEPT !.pc = "over"]
    BY <1>2 DEF Stored
  <2> QED
    BY <1>1, <2>1 DEF Idle, Sessions
<1>3. CASE b # a
  <2> DEFINE m == analysis[b].pc \in {"read", "calling"}
  <2>1. analysis'[b] = [analysis[b] EXCEPT !.met = m]
    BY <1>3 DEF Stored
  <2>2. m \in BOOLEAN
    OBVIOUS
  <2>3. m <=> analysis[b].pc \in {"read", "calling"}
    OBVIOUS
  <2> HIDE DEF m
  <2>4. /\ analysis'[b] \in Sessions /\ analysis'[b].pc = analysis[b].pc
        /\ analysis'[b].met = m
    BY <1>1, <2>1, <2>2 DEF Sessions
  <2> QED
    BY <2>3, <2>4
<1> QED
  BY <1>2, <1>3

(* Each variable of the report and of its analyses keeps its type: what is *)
(* stored has at most two doubtful notes, whatever the LLM answers.        *)
THEOREM ReportTypeCorrect == ReportSpec => []ReportTypeOK
<1>1. ReportInit => ReportTypeOK
  BY FixedTypes, RestartsAssumption DEF ReportInit, ReportTypeOK, EmptyRow, Rows, Idle
<1>2. ReportTypeOK /\ [ReportNext]_rvars => ReportTypeOK'
  <2> SUFFICES ASSUME ReportTypeOK, [ReportNext]_rvars
               PROVE  ReportTypeOK'
    OBVIOUS
  <2>0. /\ run \in Verdicts /\ report \in Rows /\ Idle.pc = "idle"
        /\ EmptyRow \in Rows
    BY FixedTypes DEF ReportTypeOK, Verdicts, Idle, EmptyRow, Rows
  <2>6. LostAnalysis \in Sessions
    BY <2>0 DEF LostAnalysis, Idle, Sessions
  <2>1. ASSUME NEW a \in Analyses, Reads(a)
        PROVE  ReportTypeOK'
    BY <2>1 DEF Reads, ReportTypeOK
  <2>2. ASSUME NEW a \in Analyses, Marks(a)
        PROVE  ReportTypeOK'
    <3> DEFINE new == [analysis[a].seen EXCEPT !.status = "analyzing"]
    <3>1. new \in Rows
      BY DEF ReportTypeOK, Rows
    <3>2. report' \in Rows
      BY <2>0, <2>2, <3>1, FlushTypes DEF Marks
    <3>3. analysis' = [analysis EXCEPT ![a].pc = "calling", ![a].seen = new]
      BY <2>2 DEF Marks
    <3> HIDE DEF new
    <3>4. [analysis[a] EXCEPT !.pc = "calling", !.seen = new] \in Sessions
      BY <3>1 DEF ReportTypeOK, Sessions
    <3>5. analysis' \in [Analyses -> Sessions]
      BY <3>3, <3>4 DEF ReportTypeOK, Sessions
    <3> QED
      BY <2>2, <3>2, <3>5 DEF Marks, ReportTypeOK, Sessions
  <2>3. ASSUME NEW a \in Analyses, NEW t \in AnyText, Stored(a, t)
        PROVE  ReportTypeOK'
    <3>1. report' \in Rows
      BY <2>0, <2>3, StoredRow, FlushTypes DEF Stored
    <3>2. analysis' = [b \in Analyses |-> analysis'[b]]
      BY <2>3 DEF Stored
    <3>3. \A b \in Analyses : analysis'[b] \in Sessions
      BY <2>3, EndedSessions
    <3>4. analysis' \in [Analyses -> Sessions]
      BY <3>2, <3>3
    <3>5. whole' \in BOOLEAN /\ UNCHANGED <<run, restarts>>
      BY <2>3 DEF Stored, ReportTypeOK
    <3> QED
      BY <3>1, <3>4, <3>5 DEF ReportTypeOK, Sessions
  <2>4. CASE Restart
    <3>1. restarts' \in 0..MaxRestarts
      BY <2>4, RestartsAssumption DEF Restart, ReportTypeOK
    <3>2. analysis \in [Analyses -> Sessions]
      BY DEF ReportTypeOK, Sessions
    <3>3. analysis' \in [Analyses -> Sessions]
      BY <2>4, <2>6, <3>2 DEF Restart
    <3> QED
      BY <2>4, <3>1, <3>3 DEF Restart, ReportTypeOK, Sessions
  <2>5. ASSUME NEW a \in Analyses, CommitFails(a)
        PROVE  ReportTypeOK'
    BY <2>5, <2>6 DEF CommitFails, ReportTypeOK, Sessions
  <2>7. CASE UNCHANGED rvars
    BY <2>7 DEF rvars, ReportTypeOK
  <2> QED
    BY <2>1, <2>2, <2>3, <2>4, <2>5, <2>7, FixedTypes, TextsAssumption
    DEF ReportNext, Answers, Unanswered
<1> QED
  BY <1>1, <1>2, PTL DEF ReportSpec

(* An analysis that has met no other one has seen the row as it is, but    *)
(* for the status, which others may have marked.                           *)
UpToDate(a) ==
    analysis[a].pc \in {"read", "calling"} /\ ~analysis[a].met =>
        \A c \in {"content", "notes", "banner"} : analysis[a].seen[c] = report[c]

ReportInv == ReportIsWhole /\ \A a \in Analyses : UpToDate(a)

(* A finished report is that of one analysis, as long as the last to end   *)
(* met no other (analyze_run of services/report.py).                       *)
THEOREM ReportsAreWhole == ReportSpec => []ReportIsWhole
<1>1. ReportInit => ReportInv
  BY DEF ReportInit, ReportInv, UpToDate, ReportIsWhole, EmptyRow, Idle
<1>2. ReportTypeOK /\ ReportInv /\ [ReportNext]_rvars => ReportInv'
  <2> SUFFICES ASSUME ReportTypeOK, ReportInv, [ReportNext]_rvars
               PROVE  ReportInv'
    OBVIOUS
  <2>0. /\ run \in Verdicts /\ report \in Rows
        /\ \A a \in Analyses : analysis[a].seen \in Rows
    BY DEF ReportTypeOK, Verdicts
  <2>1. ASSUME NEW a \in Analyses, Reads(a)
        PROVE  ReportInv'
    <3>1. ReportIsWhole'
      BY <2>1 DEF Reads, ReportInv, ReportIsWhole
    <3>2. ASSUME NEW b \in Analyses
          PROVE  UpToDate(b)'
      BY <2>1 DEF Reads, ReportInv, UpToDate, ReportTypeOK
    <3> QED
      BY <3>1, <3>2 DEF ReportInv
  <2>2. ASSUME NEW a \in Analyses, Marks(a)
        PROVE  ReportInv'
    <3> DEFINE new == [analysis[a].seen EXCEPT !.status = "analyzing"]
    <3>1. /\ new \in Rows /\ new.status = "analyzing"
          /\ \A c \in {"content", "notes", "banner"} : new[c] = analysis[a].seen[c]
      BY <2>0 DEF Rows
    <3>2. /\ report' = Flushed(report, analysis[a].seen, new)
          /\ analysis' = [analysis EXCEPT ![a].pc = "calling", ![a].seen = new]
          /\ UNCHANGED <<run, whole>> /\ analysis[a].pc = "read"
      BY <2>2 DEF Marks
    <3> HIDE DEF new
    <3>3. /\ \A c \in {"content", "notes", "banner"} : report'[c] = report[c]
          /\ report'.status \in {"analyzing", report.status}
      BY <2>0, <3>1, <3>2, FlushTypes
    <3>4. ReportIsWhole'
      BY <3>2, <3>3 DEF ReportInv, ReportIsWhole
    <3>5. ASSUME NEW b \in Analyses
          PROVE  UpToDate(b)'
      <4>1. /\ analysis'[b].met = analysis[b].met
            /\ analysis'[b].pc \in {"read", "calling"} <=> analysis[b].pc \in {"read", "calling"}
            /\ \A c \in {"content", "notes", "banner"} :
                 analysis'[b].seen[c] = analysis[b].seen[c]
        BY <3>1, <3>2 DEF ReportTypeOK
      <4> QED
        BY <3>3, <4>1 DEF ReportInv, UpToDate
    <3> QED
      BY <3>4, <3>5 DEF ReportInv
  <2>3. ASSUME NEW a \in Analyses, NEW t \in AnyText, Stored(a, t)
        PROVE  ReportInv'
    <3> DEFINE text == Masked(t)
               notes == Annotations(text, run)
               new == [status |-> "done", content |-> text, notes |-> notes,
                       banner |-> Banner(notes)]
    <3>1. /\ new \in Rows /\ new.notes = Annotations(new.content, run)
          /\ new.banner = Banner(new.notes)
      BY <2>0, StoredRow
    <3>2. /\ report' = Flushed(report, analysis[a].seen, new)
          /\ whole' = ~analysis[a].met /\ run' = run /\ analysis[a].pc = "calling"
      BY <2>3 DEF Stored
    <3> HIDE DEF new, notes, text
    <3>3. ReportIsWhole'
      <4> SUFFICES ASSUME ~analysis[a].met
                   PROVE  ReportIsWhole'
        BY <3>2 DEF ReportIsWhole
      <4>1. \A c \in {"content", "notes", "banner"} : analysis[a].seen[c] = report[c]
        BY <3>2 DEF ReportInv, UpToDate
      <4>2. \A c \in {"content", "notes", "banner"} : report'[c] = new[c]
        BY <2>0, <3>1, <3>2, <4>1, FlushTypes
      <4>3. /\ report'.content = new.content /\ report'.notes = new.notes
            /\ report'.banner = new.banner
        BY <4>2
      <4> QED
        BY <3>1, <3>2, <4>3 DEF ReportIsWhole
    <3>4. ASSUME NEW b \in Analyses
          PROVE  UpToDate(b)'
      BY <2>3, EndedSessions DEF UpToDate
    <3> QED
      BY <3>3, <3>4 DEF ReportInv
  <2>4. CASE Restart
    <3>1. ReportIsWhole'
      BY <2>4 DEF Restart, ReportInv, ReportIsWhole
    <3>2. ASSUME NEW b \in Analyses
          PROVE  UpToDate(b)'
      BY <2>4 DEF Restart, ReportInv, UpToDate, LostAnalysis, Idle
    <3> QED
      BY <3>1, <3>2 DEF ReportInv
  <2>5. ASSUME NEW a \in Analyses, CommitFails(a)
        PROVE  ReportInv'
    <3>1. ReportIsWhole'
      BY <2>5 DEF CommitFails, ReportInv, ReportIsWhole
    <3>2. ASSUME NEW b \in Analyses
          PROVE  UpToDate(b)'
      BY <2>5 DEF CommitFails, ReportInv, UpToDate, ReportTypeOK, LostAnalysis, Idle
    <3> QED
      BY <3>1, <3>2 DEF ReportInv
  <2>6. CASE UNCHANGED rvars
    BY <2>6 DEF rvars, ReportInv, UpToDate, ReportIsWhole
  <2> QED
    BY <2>1, <2>2, <2>3, <2>4, <2>5, <2>6, FixedTypes, TextsAssumption
    DEF ReportNext, Answers, Unanswered
<1>3. ReportInv => ReportIsWhole
  BY DEF ReportInv
<1> QED
  BY <1>1, <1>2, <1>3, ReportTypeCorrect, PTL DEF ReportSpec

(* While the LLM is asked, the session holds "analyzing", so that the      *)
(* second commit writes "done" whatever the row says by then.              *)
AskedInv ==
    /\ StuckHasReason
    /\ \A a \in Analyses : analysis[a].pc = "calling" => analysis[a].seen.status = "analyzing"

(* Nothing but an analysis at work, or one that was lost, leaves a report  *)
(* "analyzing", for any number of overlapping analyses and restarts.       *)
THEOREM AnalyzingHasReason == ReportSpec => []StuckHasReason
<1>1. ReportInit => AskedInv
  BY DEF ReportInit, AskedInv, StuckHasReason, EmptyRow, Idle
<1>2. ReportTypeOK /\ AskedInv /\ [ReportNext]_rvars => AskedInv'
  <2> SUFFICES ASSUME ReportTypeOK, AskedInv, [ReportNext]_rvars
               PROVE  AskedInv'
    OBVIOUS
  <2>0. /\ run \in Verdicts /\ report \in Rows
        /\ \A a \in Analyses : analysis[a].seen \in Rows
    BY DEF ReportTypeOK, Verdicts
  <2>1. ASSUME NEW a \in Analyses, Reads(a)
        PROVE  AskedInv'
    BY <2>1 DEF Reads, AskedInv, StuckHasReason, ReportTypeOK
  <2>2. ASSUME NEW a \in Analyses, Marks(a)
        PROVE  AskedInv'
    <3> DEFINE new == [analysis[a].seen EXCEPT !.status = "analyzing"]
    <3>1. new.status = "analyzing"
      BY <2>0 DEF Rows
    <3>2. analysis' = [analysis EXCEPT ![a].pc = "calling", ![a].seen = new]
      BY <2>2 DEF Marks
    <3> HIDE DEF new
    <3> QED
      BY <3>1, <3>2 DEF AskedInv, StuckHasReason, ReportTypeOK
  <2>3. ASSUME NEW a \in Analyses, NEW t \in AnyText, Stored(a, t)
        PROVE  AskedInv'
    <3>1. report'.status = "done"
      <4> DEFINE new == [status |-> "done", content |-> Masked(t),
                         notes |-> Annotations(Masked(t), run),
                         banner |-> Banner(Annotations(Masked(t), run))]
      <4>1. new \in Rows /\ new.status = "done"
        BY <2>0, StoredRow
      <4>2. report' = Flushed(report, analysis[a].seen, new)
        BY <2>3 DEF Stored
      <4>3. analysis[a].seen.status = "analyzing"
        BY <2>3 DEF Stored, AskedInv
      <4> HIDE DEF new
      <4> QED
        BY <2>0, <4>1, <4>2, <4>3, FlushTypes
    <3>2. ASSUME NEW b \in Analyses, analysis'[b].pc = "calling"
          PROVE  analysis'[b].seen.status = "analyzing"
      <4>1. b # a
        BY <2>3, <3>2 DEF Stored, Idle
      <4>2. analysis'[b] = [analysis[b] EXCEPT !.met = analysis[b].pc \in {"read", "calling"}]
        BY <2>3, <4>1 DEF Stored
      <4> QED
        BY <3>2, <4>2 DEF AskedInv, ReportTypeOK
    <3> QED
      BY <3>1, <3>2 DEF AskedInv, StuckHasReason
  <2>4. ASSUME NEW a \in Analyses, CommitFails(a)
        PROVE  AskedInv'
    BY <2>4 DEF CommitFails, AskedInv, StuckHasReason, ReportTypeOK, LostAnalysis, Idle
  <2>5. CASE Restart
    BY <2>5 DEF Restart, AskedInv, StuckHasReason, ReportTypeOK, LostAnalysis, Idle
  <2>6. CASE UNCHANGED rvars
    BY <2>6 DEF rvars, AskedInv, StuckHasReason
  <2> QED
    BY <2>1, <2>2, <2>3, <2>4, <2>5, <2>6, FixedTypes, TextsAssumption
    DEF ReportNext, Answers, Unanswered
<1>3. AskedInv => StuckHasReason
  BY DEF AskedInv
<1> QED
  BY <1>1, <1>2, <1>3, ReportTypeCorrect, PTL DEF ReportSpec
=============================================================================
