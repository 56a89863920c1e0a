------------------------------ MODULE Reconcile ------------------------------
(***************************************************************************)
(* The merge of a prior ledger with one harvest (core/reconcile/).  Pure,  *)
(* as the code is: `now` is a parameter and the next ledger is a value.    *)
(*                                                                         *)
(* `observed` is a function from the identities the harvest delivered to   *)
(* their reviews, that is, what collapseIntraRun leaves.  The changes the  *)
(* code collects one identity at a time depend only on the prior ledger    *)
(* and on that identity, so they are one function from identities to       *)
(* changes here.                                                           *)
(***************************************************************************)
EXTENDS Ledger

StopReasons == { "target_reached", "exhausted", "cap_reached",
                 "stalled", "budget_exhausted", "error", "unknown" }

\* core/validate/completeness.mjs.  A reason the table lacks is a failure.
ClassifyCompleteness(stopReason) ==
  CASE stopReason \in {"target_reached", "exhausted"}  -> "full"
    [] stopReason = "cap_reached"                      -> "full_capped"
    [] stopReason \in {"stalled", "budget_exhausted"}  -> "partial"
    [] OTHER                                           -> "failed"

(***************************************************************************)
(* Decisions (decide.mjs).  The order of the cases is the order of the     *)
(* code's early returns.                                                   *)
(***************************************************************************)

DecideObserved(prior, review, denied) ==
  CASE denied                           -> "SUPPRESSED"
    [] ~denied /\ IsTerminal(prior)     -> "IGNORED_TERMINAL"
    [] ~denied /\ ~Exists(prior)        -> "INSERTED"
    [] OTHER -> IF prior.content = review.content THEN "UNCHANGED" ELSE "UPDATED"

DecideAbsent(prior, ctx) ==
  CASE IsTerminal(prior)                                  -> "IGNORED_TERMINAL"
    [] ~IsTerminal(prior) /\ ~AbsenceIsMeaningful(ctx.completeness) -> "HELD"
    [] ~IsTerminal(prior) /\ AbsenceIsMeaningful(ctx.completeness)
                          /\ ctx.alreadyCounted           -> "HELD"
    [] OTHER -> IF prior.missing_streak + 1 >= ctx.removalConfirmations
                THEN "TOMBSTONED" ELSE "MISSING"

(***************************************************************************)
(* Decisions become changes (index.mjs).                                   *)
(***************************************************************************)

ObservedChange(prior, review, denied, now) ==
  LET decision == DecideObserved(prior, review, denied)
  IN  CASE decision = "INSERTED"  -> NextInsert(prior, review, now)
        [] decision = "UPDATED"   -> NextUpdate(prior, review, now)
        [] decision = "UNCHANGED" -> NextTouch(prior, now)
        [] OTHER                  -> NoRecord

AbsentChange(prior, ctx, now) ==
  IF DecideAbsent(prior, ctx) \in {"MISSING", "TOMBSTONED"}
  THEN NextMissing(prior, ctx.completeness, ctx.removalConfirmations, now)
  ELSE NoRecord

\* Only a record that is in the prior ledger and was not seen is absent.
Change(prior, observed, i, denylist, ctx, now) ==
  IF i \in DOMAIN observed
  THEN ObservedChange(prior.records[i], observed[i], i \in denylist, now)
  ELSE IF Exists(prior.records[i])
       THEN AbsentChange(prior.records[i], ctx, now)
       ELSE NoRecord

\* Mutant: an unconfirmed record is not swept.
SweepSuppressions_ActiveOnly(records, denylist) ==
  ApplyBatch(records,
    [i \in Ids |-> IF i \in denylist /\ records[i].state = "active"
                   THEN NextSuppress(records[i]) ELSE NoRecord])

\* Mutant: what is erased is forgotten, and so may come back.
SweepSuppressions_Purges(records, denylist) ==
  [i \in Ids |-> IF i \in denylist THEN NoRecord ELSE records[i]]

\* After the batch: every denylisted record that is not suppressed yet.
SweepSuppressions(records, denylist) ==
  ApplyBatch(records,
    [i \in Ids |-> IF i \in denylist /\ records[i].state # "suppressed"
                   THEN NextSuppress(records[i]) ELSE NoRecord])

\* Mutant: a replayed harvest counts its absences twice.
Context_ReplayCounts(prior, stopReason, removalConfirmations, now) ==
  [ completeness         |-> ClassifyCompleteness(stopReason),
    removalConfirmations |-> removalConfirmations,
    alreadyCounted       |-> FALSE ]

Context(prior, stopReason, removalConfirmations, now) ==
  LET completeness == ClassifyCompleteness(stopReason)
  IN  [ completeness         |-> completeness,
        removalConfirmations |-> removalConfirmations,
        alreadyCounted       |-> /\ AbsenceIsMeaningful(completeness)
                                 /\ prior.last_full_harvest_at = now ]

ReconcileLedger(prior, observed, stopReason, denylist, removalConfirmations, now) ==
  LET ctx     == Context(prior, stopReason, removalConfirmations, now)
      changes == [i \in Ids |-> Change(prior, observed, i, denylist, ctx, now)]
      batched == ApplyBatch(prior.records, changes)
  IN  RecordHarvest(SweepSuppressions(batched, denylist), prior, ctx.completeness, now)

(***************************************************************************)
(* The removal policy stated a second time (removal.mjs), exported beside  *)
(* reconcile: what one qualifying absence does to a record's streak and    *)
(* state.                                                                  *)
(***************************************************************************)

EvaluateRemoval(prior, removalConfirmations, now) ==
  LET streak  == prior.missing_streak + 1
      reached == streak >= removalConfirmations
  IN  IF IsTerminal(prior)
      THEN [ streak |-> prior.missing_streak, state |-> prior.state,
             tombstoned_at |-> prior.tombstoned_at ]
      ELSE [ streak |-> streak,
             state  |-> IF reached THEN "tombstoned" ELSE "unconfirmed",
             tombstoned_at |-> IF reached THEN now ELSE Never ]
=============================================================================
