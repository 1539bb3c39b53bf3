------------------------------ MODULE Backoff ------------------------------
(***************************************************************************)
(* How long internal/worker delays a retry: scheduleRetry's choice and     *)
(* calculateExponentialBackoff, on Go's fixed-width integers.  Integers    *)
(* run from -HalfRange to HalfRange - 1 (2^63 in the code) and wrap        *)
(* around; a duration is such an integer.  Attempts have no upper bound:   *)
(* ShouldRetry ignores its limit, so the shift and the product do overflow *)
(* once a job has failed often enough.                                     *)
(***************************************************************************)
EXTENDS Integers

CONSTANT HalfRange  \* a power of two

ASSUME HalfRangeAssumption == HalfRange \in Nat \ {0}

Words == (-HalfRange)..(HalfRange - 1)

\* The low bits of an integer, read as a signed one.
Wrap(x) == ((x + HalfRange) % (2 * HalfRange)) - HalfRange

\* 1 << n: each position doubles and drops the bit that leaves the word, so
\* that nothing is left after the last position.
Shifted[n \in Nat] == IF n = 0 THEN 1 ELSE Wrap(2 * Shifted[n - 1])

\* Mutant of Capped: the cap is tested before the product is a word.
CappedTooLate(multiplier, base, max) ==
  IF multiplier > max THEN max ELSE Wrap(multiplier * base)

\* multiplier * base, at most max.
Capped(multiplier, base, max) ==
  LET delay == Wrap(multiplier * base) IN IF delay > max THEN max ELSE delay

\* Mutant of ExponentialBackoff: the second attempt's delay comes first.
ExponentialBackoffAhead(attempt, base, max) == Capped(Shifted[attempt], base, max)

\* calculateExponentialBackoff.
ExponentialBackoff(attempt, base, max) ==
  IF attempt <= 1 THEN base ELSE Capped(Shifted[attempt - 1], base, max)

\* The delay scheduleRetry puts between now and the next attempt's ExecuteAfter.
RetryDelay(strategy, attempt, base, max, fixed) ==
  IF strategy = "exponential" THEN ExponentialBackoff(attempt, base, max) ELSE fixed

-----------------------------------------------------------------------------
\* What a delay must be.

Smaller(a, b) == IF a <= b THEN a ELSE b

Doubled[n \in Nat] == IF n = 0 THEN 1 ELSE 2 * Doubled[n - 1]

\* The delay before a job's next attempt is the base, doubled for each attempt after
\* the first, cut off at the configured maximum, as long as the doubled base is a
\* word.  Beyond, the code's two steps, a shift and a product that both overflow, have
\* the effect of one: the delay is the word the doubled base wraps to, cut off at the
\* maximum.  That word may be negative or zero, and the retry due at once.
DelayAsConfigured(attempt, base, max) ==
  LET delay == RetryDelay("exponential", attempt, base, max, 0)
      intended == base * Doubled[attempt - 1]
  IN  base <= max =>
      /\ intended < HalfRange => delay = Smaller(intended, max)
      /\ delay = Smaller(Wrap(intended), max)
=============================================================================
