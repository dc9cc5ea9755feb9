---------------------------- MODULE RateLimiter -----------------------------
(***************************************************************************)
(* TokenBucketRateLimiter (src/util/rate_limiter.rs): the bucket that      *)
(* paces mutations.  Time is counted in ticks and rates in tokens per      *)
(* tick; tokens are whole.                                                 *)
(***************************************************************************)
EXTENDS Integers

CONSTANTS
  Rates,       \* target_ops_per_sec of the modes; 0 is Paused
  MaxBurst,    \* MAX_BURST_CAPACITY
  MaxClock     \* bound on the clock

ASSUME LimiterAssumption ==
  Rates \subseteq Nat /\ MaxBurst \in Nat \ {0} /\ MaxClock \in Nat

VARIABLES
  clock,
  rate,        \* ops_per_sec
  tokens,
  refilled,    \* last_refill
  since,       \* history: the clock when the count below began
  taken,       \* history: tokens taken since then
  fastest      \* history: the highest rate since then

limVars == <<clock, rate, tokens, refilled, since, taken, fastest>>

Least(a, b) == IF a <= b THEN a ELSE b
Greatest(a, b) == IF a <= b THEN b ELSE a

Capacity(r) == Least(Greatest(r, 1), MaxBurst)

LimTypeOK ==
  /\ clock \in 0 .. MaxClock
  /\ rate \in Rates /\ fastest \in Rates
  /\ tokens \in 0 .. Capacity(rate)
  /\ refilled \in 0 .. clock
  /\ since \in 0 .. clock
  /\ taken \in Nat

LimInit ==
  /\ clock = 0
  /\ rate \in Rates
  /\ tokens = Capacity(rate)
  /\ refilled = 0
  /\ since = 0 /\ taken = 0 /\ fastest = rate

ClockTicks ==
  /\ clock < MaxClock
  /\ clock' = clock + 1
  /\ UNCHANGED <<rate, tokens, refilled, since, taken, fastest>>

\* set_mode: the time since the last refill counts at the new rate.
SetMode(r) ==
  /\ rate' = r
  /\ tokens' = Least(tokens, Capacity(r))
  /\ fastest' = Greatest(fastest, r)
  /\ UNCHANGED <<clock, refilled, since, taken>>

\* Mutation: a refill is not cut to the capacity of the bucket.
TakeUncapped ==
  /\ rate > 0
  /\ LET filled == tokens + (clock - refilled) * rate
     IN  /\ filled >= 1
         /\ tokens' = filled - 1
         /\ taken' = taken + 1
  /\ refilled' = clock
  /\ UNCHANGED <<clock, rate, since, fastest>>

\* acquire.  A thread that finds no token sleeps and comes back; when the mode is
\* Paused it is sent on at once, and throttle_mutation does not look at the answer.
Take ==
  /\ rate > 0
  /\ LET filled == Least(tokens + (clock - refilled) * rate, Capacity(rate))
     IN  /\ filled >= 1
         /\ tokens' = filled - 1
         /\ taken' = taken + 1
  /\ refilled' = clock
  /\ UNCHANGED <<clock, rate, since, fastest>>

\* A window to count in begins; any moment may.
WindowBegins ==
  /\ taken > 0
  /\ since' = clock /\ taken' = 0 /\ fastest' = rate
  /\ UNCHANGED <<clock, rate, tokens, refilled>>

LimNext == ClockTicks \/ Take \/ WindowBegins \/ \E r \in Rates : SetMode(r)

LimSpec == LimInit /\ [][LimNext]_limVars

\* In every stretch of time the limiter lets at most a burst pass, and what the
\* fastest mode of that stretch allows, also across changes of mode and after
\* a pause: idle time is not hoarded.
BurstBounded == taken <= MaxBurst + fastest * (clock - since)

=============================================================================
