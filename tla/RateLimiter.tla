---------------------------- MODULE RateLimiter ----------------------------
(***************************************************************************)
(* The rate limiters of src/util/workqueue/default_rate_limiters.go, put   *)
(* together the way the constructors allow: WithMaxWait around a MaxOf of  *)
(* an ItemExponentialFailure, an ItemFastSlow and a Bucket limiter.  Each  *)
(* limiter has its own mutex; MaxOf calls them one after the other without *)
(* a lock, so When and Forget of the same item interleave between them.    *)
(*                                                                         *)
(* Durations are int64 nanoseconds in the code.  Here they are integers of *)
(* Width bits; float64 holds the products exactly (a base delay of at most *)
(* 53 bits times a power of two), and rounds the constant MaxInt64 up to   *)
(* 2^63.  A base delay of 0 is left out: after 1024 failures math.Pow is   *)
(* infinite and the product is not a number.                               *)
(***************************************************************************)
EXTENDS Integers

CONSTANTS Items,        \* the items that fail
          Callers,      \* goroutines that call AddRateLimited and Forget
          BaseDelay,    \* ItemExponentialFailureRateLimiter.baseDelay
          MaxDelay,     \* ItemExponentialFailureRateLimiter.maxDelay
          MaxFastAttempts, FastDelay, SlowDelay,  \* ItemFastSlowRateLimiter
          BucketDelays, \* what rate.Limiter.Reserve().Delay() may return
          MaxWait,      \* WithMaxWaitRateLimiter.maxDelay
          Width,        \* bits of a duration (64 in the code)
          MaxFailures   \* bound: failures of an item that are explored

\* math.Pow(2, n)
Pow2[n \in Nat] == IF n = 0 THEN 1 ELSE 2 * Pow2[n - 1]

MaxInt == Pow2[Width - 1] - 1
MinInt == -Pow2[Width - 1]

ASSUME RateLimiterAssumption ==
  /\ BaseDelay \in 1 .. MaxInt
  /\ {MaxDelay, FastDelay, SlowDelay, MaxWait} \subseteq 0 .. MaxInt
  /\ BucketDelays \subseteq 0 .. MaxInt
  /\ FastDelay <= SlowDelay
  /\ MaxFastAttempts \in Nat /\ MaxFailures \in Nat /\ MaxFastAttempts < MaxFailures
  /\ Width \in Nat \ {0}

VARIABLES exponential,  \* failures of the exponential limiter
          fastSlow,     \* failures of the fast/slow limiter
          at,           \* where each caller is in MaxOf's loop
          subject,      \* the item of its call
          ret,          \* the variable ret of MaxOf.When, then the answer
          lastExp,      \* history: last exponential delay since Forget
          lastFast      \* history: last fast/slow delay since Forget

limiterVars == <<exponential, fastSlow, at, subject, ret, lastExp, lastFast>>

LimiterTypeOK ==
  /\ exponential \in [Items -> 0 .. MaxFailures]
  /\ fastSlow \in [Items -> 0 .. MaxFailures]
  /\ at \in [Callers -> {"idle", "exp", "fast", "forget"}]
  /\ subject \in [Callers -> Items]
  /\ ret \in [Callers -> 0 .. MaxInt]
  /\ lastExp \in [Items -> MinInt .. MaxInt]
  /\ lastFast \in [Items -> 0 .. MaxInt]

LimiterInit ==
  /\ exponential = [i \in Items |-> 0]
  /\ fastSlow = [i \in Items |-> 0]
  /\ at = [c \in Callers |-> "idle"]
  /\ subject \in [Callers -> Items]
  /\ ret = [c \in Callers |-> 0]
  /\ lastExp = [i \in Items |-> 0]
  /\ lastFast = [i \in Items |-> 0]

-----------------------------------------------------------------------------
\* time.Duration(backoff) for a float64 of at most 2^(Width - 1).  The one value
\* that does not fit is converted as the machine does: to the smallest integer
\* on amd64, to the largest on arm64.
ToDuration(backoff) ==
  IF backoff <= MaxInt THEN {backoff} ELSE {MinInt, MaxInt}

\* Mutant: the comparison with math.MaxInt64 is left out and the product wraps
\* around.
WrappingDelay(n) ==
  LET wrapped == (BaseDelay * Pow2[n]) % Pow2[Width] IN
  {IF wrapped > MaxInt THEN wrapped - Pow2[Width]
   ELSE IF wrapped > MaxDelay THEN MaxDelay ELSE wrapped}

\* The delay of ItemExponentialFailureRateLimiter.When after n failures.
ExponentialDelay(n) ==
  LET backoff == BaseDelay * Pow2[n] IN
  IF backoff > Pow2[Width - 1] THEN {MaxDelay}
  ELSE {IF d > MaxDelay THEN MaxDelay ELSE d : d \in ToDuration(backoff)}

\* Mutant: the attempts are counted down from the slow delay.
SlowFastDelay(n) == IF n <= MaxFastAttempts THEN SlowDelay ELSE FastDelay

\* The delay of ItemFastSlowRateLimiter.When at the n-th failure.
FastSlowDelay(n) == IF n <= MaxFastAttempts THEN FastDelay ELSE SlowDelay

\* if curr > ret { ret = curr }
Worse(a, b) == IF a > b THEN a ELSE b

-----------------------------------------------------------------------------
\* When, first limiter of MaxOf.
WhenExponential(c, i) ==
  /\ at[c] = "idle"
  /\ exponential[i] < MaxFailures
  /\ exponential' = [exponential EXCEPT ![i] = @ + 1]
  /\ \E d \in ExponentialDelay(exponential[i]) :
       /\ lastExp' = [lastExp EXCEPT ![i] = d]
       /\ ret' = [ret EXCEPT ![c] = Worse(d, 0)]
  /\ subject' = [subject EXCEPT ![c] = i]
  /\ at' = [at EXCEPT ![c] = "exp"]
  /\ UNCHANGED <<fastSlow, lastFast>>

\* When, second limiter.  The count stays at the bound, past MaxFastAttempts.
WhenFastSlow(c) ==
  LET i == subject[c]
      d == FastSlowDelay(fastSlow[i] + 1)
  IN
  /\ at[c] = "exp"
  /\ fastSlow' = [fastSlow EXCEPT ![i] = IF @ < MaxFailures THEN @ + 1 ELSE @]
  /\ lastFast' = [lastFast EXCEPT ![i] = d]
  /\ ret' = [ret EXCEPT ![c] = Worse(d, @)]
  /\ at' = [at EXCEPT ![c] = "fast"]
  /\ UNCHANGED <<exponential, subject, lastExp>>

\* When, third limiter, and the cap of WithMaxWait on the way back.
WhenBucket(c) ==
  /\ at[c] = "fast"
  /\ \E d \in BucketDelays :
       ret' = [ret EXCEPT ![c] = IF Worse(d, @) > MaxWait THEN MaxWait ELSE Worse(d, @)]
  /\ at' = [at EXCEPT ![c] = "idle"]
  /\ UNCHANGED <<exponential, fastSlow, subject, lastExp, lastFast>>

\* Forget, first limiter.
ForgetExponential(c, i) ==
  /\ at[c] = "idle"
  /\ exponential' = [exponential EXCEPT ![i] = 0]
  /\ lastExp' = [lastExp EXCEPT ![i] = 0]
  /\ subject' = [subject EXCEPT ![c] = i]
  /\ at' = [at EXCEPT ![c] = "forget"]
  /\ UNCHANGED <<fastSlow, ret, lastFast>>

\* Forget, second limiter; the bucket's Forget does nothing.
ForgetFastSlow(c) ==
  /\ at[c] = "forget"
  /\ fastSlow' = [fastSlow EXCEPT ![subject[c]] = 0]
  /\ lastFast' = [lastFast EXCEPT ![subject[c]] = 0]
  /\ at' = [at EXCEPT ![c] = "idle"]
  /\ UNCHANGED <<exponential, subject, ret, lastExp>>

LimiterNext ==
  \E c \in Callers :
    \/ \E i \in Items : WhenExponential(c, i) \/ ForgetExponential(c, i)
    \/ WhenFastSlow(c) \/ WhenBucket(c) \/ ForgetFastSlow(c)

LimiterSpec == LimiterInit /\ [][LimiterNext]_limiterVars

-----------------------------------------------------------------------------
\* No failure count makes the backoff exactly 2^(Width - 1), which ToDuration
\* cannot represent and the comparison in When lets pass.
NotPowerOfTwo == \A n \in 0 .. Width - 1 : BaseDelay # Pow2[n]

\* "The backoff is capped such that 'calculated' value never overflows": the
\* exponential limiter never answers with a negative delay or one over its
\* maximum, however often the item has failed.
BackoffCapped == \A i \in Items : lastExp[i] \in 0 .. MaxDelay

\* An item that keeps failing is never retried sooner than after its previous
\* failure: only Forget makes a per-item delay shorter.
BackoffGrows ==
  [][\A i \in Items :
       /\ lastExp'[i] < lastExp[i] => exponential'[i] = 0
       /\ lastFast'[i] < lastFast[i] => fastSlow'[i] = 0]_limiterVars

\* The answer to AddRateLimited: between calls a caller holds a delay that is
\* not negative and not above the maximum of WithMaxWait.
AnswerBounded == \A c \in Callers : at[c] = "idle" => ret[c] \in 0 .. MaxWait
=============================================================================
