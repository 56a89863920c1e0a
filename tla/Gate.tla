-------------------------------- MODULE Gate --------------------------------
(***************************************************************************)
(* The publish gate (core/gate/): twelve rules over the candidate's stats, *)
(* the published payload's stats and the validation report, every one of   *)
(* them evaluated every time.  Pure.                                       *)
(*                                                                         *)
(* Numbers are exact integers: means and ratings are in hundredths (the    *)
(* code rounds a mean to two decimals), ratios are compared by             *)
(* cross-multiplication against a percentage.  The code compares doubles,  *)
(* so a shift of exactly the limit may be rejected there and passes here.  *)
(***************************************************************************)
EXTENDS Integers

\* What `typeof x !== 'number'` and `=== null` tell apart from a number.
NotANumber == -1

\* The stats a payload without a stats block shows: what the rules default to.
NoStats ==
  [ total_count |-> 0, mean_rating |-> NotANumber, coverage |-> NotANumber,
    advertised_total |-> NotANumber, advertised_rating |-> NotANumber,
    completeness |-> "undefined" ]

Rules == { "G-01", "G-02", "G-03", "G-04", "G-05", "G-06",
           "G-07", "G-08", "G-09", "G-10", "G-11", "G-12" }

ChangeBased == {"G-02", "G-03", "G-04", "G-05", "G-12"}

WarnOnly == {"G-08", "G-09", "G-10", "G-11", "G-12"}

Overridable == {"G-03", "G-04", "G-05", "G-12"}

ForceDowngradable == {"G-03", "G-04", "G-05", "G-12"}

Defaults ==
  [ max_count_drop |-> 20, max_rating_shift |-> 50, quarantine_max |-> 5,
    coverage_min |-> 95, rating_tolerance |-> 30, max_payload_bytes |-> 2097152,
    max_duplicate_cluster |-> 3, advertised_drop_tolerance |-> 40 ]

Distance(a, b) == IF a >= b THEN a - b ELSE b - a

\* part of whole is more than percent of it; nothing is of nothing.
Exceeds(part, whole, percent) == whole # 0 /\ part * 100 > percent * whole

(***************************************************************************)
(* rules.mjs: when each rule fires.  ctx.prior is a stats block (NoStats   *)
(* when the prior payload has none).                                       *)
(***************************************************************************)
Fires(rule, ctx) ==
  LET new   == ctx.candidate
      old   == ctx.prior
      limit == ctx.thresholds
  IN CASE rule = "G-01" -> ~ctx.schemaValid
       [] rule = "G-02" -> new.total_count = 0 /\ old.total_count # 0
       [] rule = "G-03" -> Exceeds(old.total_count - new.total_count,
                                   old.total_count, limit.max_count_drop)
       [] rule = "G-04" -> /\ old.mean_rating # NotANumber
                           /\ old.total_count # 0
                           /\ Distance(new.mean_rating, old.mean_rating)
                                > limit.max_rating_shift
       [] rule = "G-05" -> /\ new.completeness = "partial"
                           /\ new.total_count < old.total_count
       [] rule = "G-06" -> Exceeds(ctx.validation.quarantined,
                                   ctx.validation.considered, limit.quarantine_max)
       [] rule = "G-07" -> ctx.validation.fatal > 0
       [] rule = "G-08" -> /\ new.completeness # "full_capped"
                           /\ new.coverage # NotANumber
                           /\ new.coverage < limit.coverage_min
       [] rule = "G-09" -> /\ new.advertised_rating # NotANumber
                           /\ new.total_count # 0
                           /\ Distance(new.mean_rating, new.advertised_rating)
                                > limit.rating_tolerance
       [] rule = "G-10" -> ctx.candidateBytes > limit.max_payload_bytes
       [] rule = "G-11" -> ctx.largestCluster > limit.max_duplicate_cluster
       [] rule = "G-12" -> /\ old.advertised_total > 0
                           /\ new.advertised_total # NotANumber
                           /\ Exceeds(old.advertised_total - new.advertised_total,
                                      old.advertised_total,
                                      limit.advertised_drop_tolerance)

(***************************************************************************)
(* index.mjs: the verdict.                                                 *)
(***************************************************************************)

\* A first publish has no prior and could tell so; it skips what compares.
FirstPublish(ctx) == ctx.priorAbsent /\ ctx.priorReadable

Evaluated(ctx) == IF FirstPublish(ctx) THEN Rules \ ChangeBased ELSE Rules

\* Mutant: a schedule may force.
ForceIsEffective_Scheduled(force) == force.enabled /\ force.reasoned

\* A scheduled run ignores force, and force without a reason is no force.
ForceIsEffective(force) == force.enabled /\ ~force.scheduled /\ force.reasoned

Reasons(ctx) == {rule \in Evaluated(ctx) : Fires(rule, ctx)}

Downgraded(ctx) ==
  IF ForceIsEffective(ctx.force) THEN ForceDowngradable \cap Overridable ELSE {}

Rejections(ctx) == (Reasons(ctx) \ WarnOnly) \ Downgraded(ctx)

EvaluateGate(ctx) ==
  CASE Rejections(ctx) # {} \/ ~ctx.priorReadable -> "REJECT"
    [] OTHER -> IF Reasons(ctx) # {} THEN "ACCEPT_WITH_WARNINGS" ELSE "ACCEPT"
=============================================================================
