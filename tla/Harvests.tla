------------------------------ MODULE Harvests ------------------------------
(***************************************************************************)
(* One listing's ledger over a sequence of harvests.  Each harvest is one  *)
(* call of reconcile on the ledger the previous one left, with any set of  *)
(* reviews observed, any stop reason and any denylist (erasure requests    *)
(* come and go with the client's profile): the laws of core/reconcile are  *)
(* stated for every observation sequence, so no source constrains what a   *)
(* harvest delivers.                                                       *)
(*                                                                         *)
(* The clock need not move between two harvests: a shard that died after   *)
(* reconciling reconciles the same harvest again at the same instant.      *)
(***************************************************************************)
EXTENDS Reconcile, FiniteSets

CONSTANTS
  RemovalConfirmations, \* config.removalConfirmations
  Stops,              \* the stop reasons considered
  MaxTime,              \* bound on the clock
  MaxRevision           \* bound on the edits of one review

\* removal.mjs, checkRemovalPolicy: at least MIN_CONFIRMATIONS.
ASSUME RemovalConfirmationsAssumption == RemovalConfirmations \in Nat /\ RemovalConfirmations >= 2

ASSUME StopsAssumption == Stops \subseteq StopReasons

ASSUME BoundsAssumption == MaxTime \in Nat /\ MaxRevision \in Nat

VARIABLES
  ledger,               \* what reconcile returned last
  now,                  \* the wall clock
  absentAt              \* history: instants of the qualifying harvests that
                        \* missed each review since it was last observed

vars == <<ledger, now, absentAt>>

\* A delivered review carries the date its relative date resolves to now.
Observations == UNION {[S -> Contents] : S \in SUBSET Ids}

Delivered(seen) == [i \in DOMAIN seen |-> [content |-> seen[i], date |-> now]]

\* The stop reasons with which absence from a harvest is evidence.
Looked(reason) == reason \in {"target_reached", "exhausted", "cap_reached"}

Init ==
  /\ ledger   = CreateLedger
  /\ now      = 1
  /\ absentAt = [i \in Ids |-> {}]

Tick ==
  /\ now < MaxTime
  /\ now' = now + 1
  /\ UNCHANGED <<ledger, absentAt>>

\* The history only: it knows nothing of streaks or of what was counted.
Witness(seen, reason) ==
  absentAt' = [i \in Ids |-> IF i \in DOMAIN seen THEN {}
                            ELSE IF Looked(reason) THEN absentAt[i] \cup {now}
                            ELSE absentAt[i]]

Merge(l, seen, reason, denylist) ==
  ReconcileLedger(l, Delivered(seen), reason, denylist, RemovalConfirmations, now)

\* The bound MaxRevision.
WithinBounds(l) ==
  \A i \in Ids : Exists(l.records[i]) => l.records[i].revision <= MaxRevision

Harvest(seen, reason, denylist) ==
  /\ ledger' = Merge(ledger, seen, reason, denylist)
  /\ WithinBounds(ledger')
  /\ Witness(seen, reason)
  /\ UNCHANGED now

Next ==
  \/ Tick
  \/ \E seen \in Observations, reason \in Stops, denylist \in SUBSET Ids :
       Harvest(seen, reason, denylist)

Spec == Init /\ [][Next]_vars

(***************************************************************************)
(* Types                                                                   *)
(***************************************************************************)

\* Every field of every record has its type, the instants have all happened.
TypeOK ==
  /\ ledger \in LedgerType
  /\ now \in Nat \ {0}
  /\ absentAt \in [Ids -> SUBSET Nat]

(***************************************************************************)
(* Safety                                                                  *)
(***************************************************************************)

\* reconcile never returns a ledger that the engine's own self-check refuses
\* (run-stages would then fail the target on every later run, for the ledger
\* it starts from would not have changed), and no stamp is in the future.
LedgerSound ==
  /\ CheckLedgerInvariants(ledger)
  /\ ledger.last_full_harvest_at <= now
  /\ \A i \in Ids : Exists(ledger.records[i]) =>
       /\ ledger.records[i].last_seen_at <= now
       /\ ledger.records[i].state = "active" <=>
            ~IsTerminal(ledger.records[i]) /\ ledger.records[i].missing_streak = 0

\* The absence asymmetry, over the whole history: a live record's streak is
\* short of removal, and never exceeds the number of different instants at
\* which a harvest that looked for the review did not find it, since it was
\* last observed.
StreakIsEvidence ==
  \A i \in Ids : Exists(ledger.records[i]) /\ ~IsTerminal(ledger.records[i]) =>
    /\ ledger.records[i].missing_streak < RemovalConfirmations
    /\ ledger.records[i].missing_streak <= Cardinality(absentAt[i])

\* A review becomes a tombstone only in a harvest that looked and did not
\* see it, and only as the last of RemovalConfirmations such instants.
RemovalNeedsConfirmation ==
  [][\A i \in Ids :
       (/\ ledger'.records[i].state = "tombstoned"
        /\ ledger.records[i].state # "tombstoned")
       => /\ now \in absentAt'[i]
          /\ Cardinality(absentAt'[i]) >= RemovalConfirmations]_vars

\* PT-03 and PT-04: nothing brings a removed or an erased review back, under
\* any sequence of observations, not even a shrinking denylist.
TerminalIsForever ==
  [][\A i \in Ids :
       /\ ledger.records[i].state = "suppressed" =>
            ledger'.records[i] = ledger.records[i]
       /\ ledger.records[i].state = "tombstoned" =>
            /\ IsTerminal(ledger'.records[i])
            /\ ledger'.records[i].content = ledger.records[i].content
            /\ ledger'.records[i].tombstoned_at = ledger.records[i].tombstoned_at]_vars

\* PT-07: a harvest that did not look changes nothing of what it did not see,
\* nor when the last full harvest was.
PartialLeavesAbsentAlone ==
  \A seen \in Observations, reason \in {r \in Stops : ~Looked(r)} :
    LET next == Merge(ledger, seen, reason, {})
    IN  /\ next.last_full_harvest_at = ledger.last_full_harvest_at
        /\ \A i \in Ids \ DOMAIN seen : next.records[i] = ledger.records[i]

\* PT-05 and PT-06: the first sighting and the date estimate of a review are
\* the ones of its insertion, and its content history only grows.
FirstSightPinned ==
  [][\A i \in Ids : Exists(ledger.records[i]) =>
       /\ Exists(ledger'.records[i])
       /\ ledger'.records[i].first_seen_at = ledger.records[i].first_seen_at
       /\ ledger'.records[i].date = ledger.records[i].date
       /\ ledger'.records[i].revision >= ledger.records[i].revision
       /\ \A k \in 1 .. Len(ledger.records[i].history) :
            ledger'.records[i].history[k] = ledger.records[i].history[k]]_vars

\* Whatever harvest runs under a denylist, no denylisted review is publishable
\* after it, whatever it was before and whether or not the source shows it.
ErasedIsUnpublished ==
  \A seen \in Observations, reason \in Stops, i \in Ids :
    i \notin PublishableRecords(Merge(ledger, seen, reason, {i}))

\* PT-01: whatever a harvest delivers, merging it a second time at its own
\* instant changes nothing.  A shard that crashed before it could commit may
\* simply re-run.
ReplayIsNoOp ==
  \A seen \in Observations, reason \in Stops, denylist \in SUBSET Ids :
    LET once == Merge(ledger, seen, reason, denylist)
    IN  Merge(once, seen, reason, denylist) = once

(***************************************************************************)
(* Refinement                                                              *)
(***************************************************************************)

LifecycleStatus(r) ==
  CASE ~Exists(r)               -> "unknown"
    [] r.state = "tombstoned"   -> "removed"
    [] r.state = "suppressed"   -> "erased"
    [] OTHER                    -> "published"

LifecycleMisses(r) == IF Exists(r) /\ ~IsTerminal(r) THEN r.missing_streak ELSE 0

Lifecycle == INSTANCE ReviewLifecycle WITH
  status <- [i \in Ids |-> LifecycleStatus(ledger.records[i])],
  misses <- [i \in Ids |-> LifecycleMisses(ledger.records[i])]

\* The ledger keeps the promise of ReviewLifecycle.
KeepsLifecycle == Lifecycle!LifecycleSpec
=============================================================================
