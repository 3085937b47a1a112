------------------------------ MODULE Breaker ------------------------------
(***************************************************************************)
(* The circuit breaker's arithmetic: how long a provider stays out of      *)
(* rotation, as computed by breakerDeadline in src/src/db/health.ts.  The  *)
(* rows the policy is applied to live in Gateway (provider_health).        *)
(* Milliseconds are the unit of the code; any unit of time does here.      *)
(***************************************************************************)
EXTENDS Integers

CONSTANTS
  Threshold,   \* breaker_failure_threshold; 0 disables the breaker
  BaseMs,      \* breaker_cooldown_base_ms
  MaxMs        \* breaker_cooldown_max_ms

\* config.ts: the threshold is non-negative, the two cooldowns are positive.
ASSUME BreakerPolicyAssumption ==
  /\ Threshold \in Nat
  /\ BaseMs \in Nat \ {0}
  /\ MaxMs \in Nat \ {0}

MaxExponent == 16

Smaller(a, b) == IF a <= b THEN a ELSE b

BreakerDisabled == Threshold = 0

\* Seeded fault: the cap is dropped.
CooldownUncapped(failures) == BaseMs * 2 ^ Smaller(failures - Threshold, MaxExponent)

\* Failures past the threshold double the wait, up to MaxMs.
Cooldown(failures) ==
  Smaller(MaxMs, BaseMs * 2 ^ Smaller(failures - Threshold, MaxExponent))

\* Seeded fault: trips one failure late.
BreakerDeadlineLate(failures, now) ==
  IF BreakerDisabled \/ failures <= Threshold THEN 0 ELSE now + Cooldown(failures)

\* Seeded fault: trips at every Threshold-th failure only.
BreakerDeadlineEvery(failures, now) ==
  IF BreakerDisabled \/ failures % Threshold # 0 THEN 0 ELSE now + Cooldown(failures)

\* breakerDeadline: 0 leaves the breaker closed.
BreakerDeadline(failures, now) ==
  IF BreakerDisabled \/ failures < Threshold THEN 0 ELSE now + Cooldown(failures)

\* A candidate is skipped while this holds.
IsOpen(openUntil, now) == ~BreakerDisabled /\ openUntil > now

=============================================================================
