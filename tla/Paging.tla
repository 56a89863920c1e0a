------------------------------- MODULE Paging -------------------------------
(***************************************************************************)
(* When the navigator stops scrolling, and why (pagination.mjs).  A growth *)
(* curve is its last count and the trailing iterations that were quiet.    *)
(***************************************************************************)
EXTENDS Naturals

CONSTANTS
  MaxReviews,          \* nav.max_reviews
  PaginationBudget,    \* pagination_budget_ms, in GROWING_SETTLE_MS
  BaseSettle,          \* BASE_SETTLE_MS, in GROWING_SETTLE_MS
  None                 \* no advertised total

StallThreshold == 3
Curve == [count : Nat, quiet : Nat]

FirstCount(n) == [count |-> n, quiet |-> 0]
Counted(curve, n) ==
  [count |-> n, quiet |-> IF n = curve.count THEN curve.quiet + 1 ELSE 0]

\* The wait doubles with every quiet iteration before this one.
Settle(quiet) == IF quiet = 0 THEN 1 ELSE BaseSettle * 2 ^ (quiet - 1)

Comparable(advertised) == advertised # None /\ advertised > 0

ClassifyNoGrowth(count, advertised) ==
  IF Comparable(advertised) /\ count * 100 >= advertised * 95
    THEN "exhausted" ELSE "stalled"

\* Mutant: the clock is not asked.
MutEvaluateStop(curve, elapsed, advertised) ==
  IF curve.count >= MaxReviews THEN "cap_reached"
  ELSE IF Comparable(advertised) /\ curve.count >= advertised THEN "target_reached"
  ELSE IF curve.quiet >= StallThreshold THEN ClassifyNoGrowth(curve.count, advertised)
  ELSE None

\* The order of the conditions is part of what they mean.
EvaluateStop(curve, elapsed, advertised) ==
  IF curve.count >= MaxReviews THEN "cap_reached"
  ELSE IF Comparable(advertised) /\ curve.count >= advertised THEN "target_reached"
  ELSE IF curve.quiet >= StallThreshold THEN ClassifyNoGrowth(curve.count, advertised)
  ELSE IF elapsed >= PaginationBudget THEN "budget_exhausted"
  ELSE None
=============================================================================
