------------------------------- MODULE Ledger -------------------------------
(***************************************************************************)
(* The durable record of one listing and the transitions of a single       *)
(* record (core/model/ledger.mjs).  Pure: the code passes `now` in and     *)
(* returns new objects, so every transition is an operator from the old    *)
(* record to the new one.                                                  *)
(*                                                                         *)
(* Abstractions.  An identity hash is a member of Ids and a content hash a *)
(* member of Contents.  An instant (RFC 3339 string) is a natural number   *)
(* and null is Never.  The date block the source's relative date resolves  *)
(* to is the instant it was computed from: the engine derives it from the  *)
(* harvest's own clock, so two harvests compute two different dates.       *)
(***************************************************************************)
EXTENDS Naturals, Sequences

CONSTANTS
  Ids,                  \* identity hashes
  Contents              \* content hashes

\* null, for tombstoned_at and last_full_harvest_at
Never == 0

Terminal == {"tombstoned", "suppressed"}

\* What an adapter and the normaliser deliver for one review.
Review == [content : Contents, date : Nat]

Record ==
  [ content        : Contents,
    date           : Nat,
    state          : {"active", "unconfirmed"} \cup Terminal,
    first_seen_at  : Nat,
    last_seen_at   : Nat,
    revision       : Nat,
    missing_streak : Nat,
    tombstoned_at  : Nat,
    history        : Seq(Contents) ]

\* `undefined` (the identity is not in the map) and, as the result of a
\* transition, `null` (nothing changes).
NoRecord == [state |-> "none"]

Exists(r) == r.state # "none"

IsTerminal(r) == r.state \in Terminal

(***************************************************************************)
(* The transitions.  Each one checks for itself what reconcile has already *)
(* decided: both layers are in the code, and both are here.                *)
(***************************************************************************)

NextInsert(existing, review, now) ==
  IF IsTerminal(existing) THEN NoRecord
  ELSE [ content         |-> review.content,
         date            |-> review.date,
         state           |-> "active",
         first_seen_at   |-> now,
         last_seen_at    |-> now,
         revision        |-> 1,
         missing_streak  |-> 0,
         tombstoned_at   |-> Never,
         history         |-> << >> ]

\* Mutant: the incoming review brings its own date estimate.
NextUpdate_Redated(existing, review, now) ==
  IF ~Exists(existing) \/ IsTerminal(existing) THEN NoRecord
  ELSE [existing EXCEPT !.content = review.content, !.date = review.date,
                        !.state = "active", !.last_seen_at = now,
                        !.revision = @ + 1, !.missing_streak = 0,
                        !.history = Append(@, existing.content)]

\* The incoming review replaces the content; the date, the first sighting
\* and the history come from the record that is already there.
NextUpdate(existing, review, now) ==
  IF ~Exists(existing) \/ IsTerminal(existing) THEN NoRecord
  ELSE [ content         |-> review.content,
         date            |-> existing.date,
         state           |-> "active",
         first_seen_at   |-> existing.first_seen_at,
         last_seen_at    |-> now,
         revision        |-> existing.revision + 1,
         missing_streak  |-> 0,
         tombstoned_at   |-> Never,
         history         |-> Append(existing.history, existing.content) ]

\* Mutant: seeing a review again does not reset its streak.
NextTouch_KeepsStreak(existing, now) ==
  IF ~Exists(existing) \/ IsTerminal(existing) THEN NoRecord
  ELSE [existing EXCEPT !.last_seen_at = now, !.state = "active"]

NextTouch(existing, now) ==
  IF ~Exists(existing) \/ IsTerminal(existing) THEN NoRecord
  ELSE [existing EXCEPT !.last_seen_at = now,
                        !.missing_streak = 0,
                        !.state = "active"]

\* Mutant: a partial harvest counts absences as well.
AbsenceIsMeaningful_Partial(completeness) == completeness # "failed"

\* core/model/review.mjs: the absence asymmetry.
AbsenceIsMeaningful(completeness) == completeness \in {"full", "full_capped"}

\* Mutant: one confirmation short.
NextMissing_OneShort(existing, completeness, removalConfirmations, now) ==
  IF ~Exists(existing) \/ IsTerminal(existing) \/ ~AbsenceIsMeaningful(completeness)
  THEN NoRecord
  ELSE LET reached == existing.missing_streak + 2 >= removalConfirmations
       IN  [existing EXCEPT
              !.missing_streak = @ + 1,
              !.state          = IF reached THEN "tombstoned" ELSE "unconfirmed",
              !.tombstoned_at  = IF reached THEN now ELSE Never]

NextMissing(existing, completeness, removalConfirmations, now) ==
  IF \/ ~Exists(existing)
     \/ IsTerminal(existing)
     \/ ~AbsenceIsMeaningful(completeness)
  THEN NoRecord
  ELSE LET streak  == existing.missing_streak + 1
           reached == streak >= removalConfirmations
       IN  [existing EXCEPT
              !.missing_streak = streak,
              !.state          = IF reached THEN "tombstoned" ELSE "unconfirmed",
              !.tombstoned_at  = IF reached THEN now ELSE Never]

\* Suppression applies even to a tombstone: erasure outranks removal.
NextSuppress(existing) ==
  IF ~Exists(existing) THEN NoRecord
  ELSE [existing EXCEPT !.state = "suppressed"]

(***************************************************************************)
(* The ledger: a record for each identity, NoRecord where the code's Map   *)
(* has no key, and the instant of the last full harvest.                   *)
(***************************************************************************)

LedgerType ==
  [records : [Ids -> Record \cup {NoRecord}], last_full_harvest_at : Nat]

CreateLedger ==
  [records |-> [i \in Ids |-> NoRecord], last_full_harvest_at |-> Never]

\* The file of a ledger: a key for each record that is there.  What a newer
\* version wrote besides is carried along, and left out here.
ToJSON(ledger) ==
  [ records |-> [i \in {j \in Ids : Exists(ledger.records[j])} |-> ledger.records[i]],
    last_full_harvest_at |-> ledger.last_full_harvest_at ]

FromJSON(json) ==
  [ records |-> [i \in Ids |-> IF i \in DOMAIN json.records THEN json.records[i] ELSE NoRecord],
    last_full_harvest_at |-> json.last_full_harvest_at ]

\* A change that is null is skipped; the rest overwrite the record.
ApplyBatch(records, changes) ==
  [i \in Ids |-> IF Exists(changes[i]) THEN changes[i] ELSE records[i]]

\* Mutant: the instant of the last full harvest is not stamped.
RecordHarvest_Unstamped(records, ledger, completeness, now) ==
  [records |-> records, last_full_harvest_at |-> ledger.last_full_harvest_at]

RecordHarvest(records, ledger, completeness, now) ==
  [ records              |-> records,
    last_full_harvest_at |-> IF AbsenceIsMeaningful(completeness)
                             THEN now ELSE ledger.last_full_harvest_at ]

\* Mutant: only erasure takes a review off the site.
PublishableRecords_Tombstones(ledger) ==
  {i \in Ids : Exists(ledger.records[i]) /\ ledger.records[i].state # "suppressed"}

PublishableRecords(ledger) ==
  {i \in Ids : Exists(ledger.records[i]) /\ ~IsTerminal(ledger.records[i])}

\* The engine's self-check: run-stages throws ERR-INTERNAL-INVARIANT, and
\* publishes nothing, when a reconciled ledger does not pass it.
CheckRecord(r) ==
  /\ r.revision >= 1
  /\ r.missing_streak >= 0
  /\ r.state = "tombstoned" => r.tombstoned_at # Never
  /\ r.first_seen_at <= r.last_seen_at
  /\ Len(r.history) = r.revision - 1

CheckLedgerInvariants(ledger) ==
  \A i \in Ids : Exists(ledger.records[i]) => CheckRecord(ledger.records[i])
=============================================================================
