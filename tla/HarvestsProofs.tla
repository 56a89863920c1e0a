--------------------------- MODULE HarvestsProofs ---------------------------
(***************************************************************************)
(* Proofs about Harvests, for every set of reviews and contents, every     *)
(* number of confirmations and every bound.                                *)
(*                                                                         *)
(* The argument has two parts.  The first is about reconcile alone: what   *)
(* the merge of a harvest makes of ONE record is one of a few cases        *)
(* (BatchCases, MergeRecord).  The second is the induction over harvests:  *)
(* IInv below, every conjunct checked case by case.                        *)
(***************************************************************************)
EXTENDS Harvests, FiniteSetTheorems, SequenceTheorems, TLAPS

Live(r) == Exists(r) /\ ~IsTerminal(r)

\* The context of a merge at the present instant.
Ctx(l, reason) == Context(l, reason, RemovalConfirmations, now)

\* What the batch of changes leaves of one record, before the sweep.
Batched(l, seen, reason, denylist, i) ==
  LET c == Change(l, Delivered(seen), i, denylist, Ctx(l, reason), now)
  IN  IF Exists(c) THEN c ELSE l.records[i]

\* What the sweep leaves of a record.
Swept(b, denied) ==
  IF denied /\ Exists(b) THEN [b EXCEPT !.state = "suppressed"] ELSE b

-----------------------------------------------------------------------------
(* Reconcile, one record at a time.                                        *)

\* A value that stands in the ledger for an identity, and the two kinds apart.
LEMMA Slots ==
  ASSUME NEW r \in Record \cup {NoRecord}
  PROVE  /\ Exists(r) <=> r \in Record
         /\ ~Exists(r) <=> r = NoRecord
         /\ IsTerminal(r) => Exists(r)
BY DEF Record, NoRecord, Exists, IsTerminal, Terminal

\* A delivered review is a review stamped with the present instant.
LEMMA DeliveredReview ==
  ASSUME NEW seen \in Observations, now \in Nat, NEW i \in DOMAIN seen
  PROVE  /\ DOMAIN seen \subseteq Ids
         /\ DOMAIN Delivered(seen) = DOMAIN seen
         /\ Delivered(seen)[i] = [content |-> seen[i], date |-> now]
         /\ Delivered(seen)[i] \in Review
BY DEF Observations, Delivered, Review

\* nextInsert: a record with one revision and an empty history.
LEMMA InsertType ==
  ASSUME NEW review \in Review, NEW t \in Nat
  PROVE  NextInsert(NoRecord, review, t) \in Record
BY DEF NextInsert, NoRecord, Record, Review, IsTerminal, Terminal, Never

\* nextUpdate: the history grows with the revision.
LEMMA UpdateType ==
  ASSUME NEW r \in Record, ~IsTerminal(r), NEW review \in Review, NEW t \in Nat
  PROVE  /\ NextUpdate(r, review, t) \in Record
         /\ Len(NextUpdate(r, review, t).history) = Len(r.history) + 1
<1>1. Append(r.history, r.content) \in Seq(Contents)
  BY AppendProperties DEF Record
<1>2. Len(Append(r.history, r.content)) = Len(r.history) + 1
  BY AppendProperties DEF Record
<1> QED BY <1>1, <1>2 DEF NextUpdate, Record, Review, Exists, Terminal, Never

\* nextTouch
LEMMA TouchType ==
  ASSUME NEW r \in Record, ~IsTerminal(r), NEW t \in Nat
  PROVE  NextTouch(r, t) \in Record
BY DEF NextTouch, Record, Exists, Terminal

\* nextMissing
LEMMA MissingType ==
  ASSUME NEW r \in Record, ~IsTerminal(r), NEW c, AbsenceIsMeaningful(c),
         NEW k \in Nat, NEW t \in Nat
  PROVE  NextMissing(r, c, k, t) \in Record
<1> DEFINE streak  == r.missing_streak + 1
           reached == streak >= k
<1>1. Exists(r) /\ streak \in Nat
  BY DEF Record, Exists, Terminal
<1>2. NextMissing(r, c, k, t) =
        [r EXCEPT !.missing_streak = streak,
                  !.state = IF reached THEN "tombstoned" ELSE "unconfirmed",
                  !.tombstoned_at = IF reached THEN t ELSE Never]
  BY <1>1 DEF NextMissing
<1> HIDE DEF streak
<1>3. \A at \in Nat, st \in {"tombstoned", "unconfirmed"} :
        [r EXCEPT !.missing_streak = streak, !.state = st, !.tombstoned_at = at]
          \in Record
  BY <1>1 DEF Record, Terminal
<1> QED BY <1>2, <1>3 DEF Never

\* nextSuppress
LEMMA SweptType ==
  ASSUME NEW b \in Record \cup {NoRecord}, NEW denylist, NEW i
  PROVE  Swept(b, i \in denylist) \in Record \cup {NoRecord}
BY DEF Swept, Record, Exists, Terminal, NoRecord

\* completeness.mjs against the absence asymmetry: the harvests that count
\* absences are the ones that looked.
LEMMA LookedMeaning ==
  ASSUME NEW reason \in StopReasons
  PROVE  AbsenceIsMeaningful(ClassifyCompleteness(reason)) <=> Looked(reason)
BY DEF AbsenceIsMeaningful, ClassifyCompleteness, Looked, StopReasons

\* The four things a batch can do to a record: keep it (a review that is
\* observed, live and kept is denied), insert it, refresh it, count a miss.
LEMMA BatchCases ==
  ASSUME NEW l \in LedgerType, NEW seen \in Observations, now \in Nat,
         NEW reason \in StopReasons, NEW denylist, NEW i \in Ids
  PROVE  LET r == l.records[i]
             b == Batched(l, seen, reason, denylist, i)
             c == ClassifyCompleteness(reason)
         IN  \/ /\ b = r
                /\ i \in DOMAIN seen => i \in denylist \/ IsTerminal(r)
                /\ i \notin DOMAIN seen =>
                     \/ ~Live(r)
                     \/ ~Looked(reason)
                     \/ l.last_full_harvest_at = now
             \/ /\ i \in DOMAIN seen /\ i \notin denylist /\ r = NoRecord
                /\ b = NextInsert(NoRecord, Delivered(seen)[i], now)
             \/ /\ i \in DOMAIN seen /\ i \notin denylist /\ Live(r)
                /\ r.content # seen[i]
                /\ b = NextUpdate(r, Delivered(seen)[i], now)
             \/ /\ i \in DOMAIN seen /\ i \notin denylist /\ Live(r)
                /\ r.content = seen[i]
                /\ b = NextTouch(r, now)
             \/ /\ i \notin DOMAIN seen /\ Live(r) /\ Looked(reason)
                /\ l.last_full_harvest_at # now
                /\ b = NextMissing(r, c, RemovalConfirmations, now)
<1> DEFINE r == l.records[i]
           c == ClassifyCompleteness(reason)
           rv == Delivered(seen)[i]
<1>r. r \in Record \cup {NoRecord}
  BY DEF LedgerType
<1>l. AbsenceIsMeaningful(c) <=> Looked(reason)
  BY LookedMeaning
<1>1. CASE i \in DOMAIN seen
  <2>0. DOMAIN Delivered(seen) = DOMAIN seen /\ rv.content = seen[i] /\ rv \in Review
    <3>1. rv = [content |-> seen[i], date |-> now]
      BY <1>1, DeliveredReview
    <3> QED BY <1>1, <3>1, DeliveredReview
  <2>1. Change(l, Delivered(seen), i, denylist, Ctx(l, reason), now)
          = ObservedChange(r, rv, i \in denylist, now)
    BY <1>1, <2>0 DEF Change
  <2>2. CASE i \in denylist
    <3>1. ObservedChange(r, rv, i \in denylist, now) = NoRecord
      BY <2>2 DEF ObservedChange, DecideObserved
    <3> QED BY <1>1, <2>1, <2>2, <3>1 DEF Batched, Exists, NoRecord
  <2>3. CASE i \notin denylist /\ IsTerminal(r)
    <3>0. DecideObserved(r, rv, i \in denylist) = "IGNORED_TERMINAL"
      BY <2>3 DEF DecideObserved, Exists, IsTerminal, Terminal
    <3>1. ObservedChange(r, rv, i \in denylist, now) = NoRecord
      BY <3>0 DEF ObservedChange
    <3> QED BY <1>1, <2>1, <2>3, <3>1 DEF Batched, Exists, NoRecord
  <2>4. CASE i \notin denylist /\ ~Exists(r)
    <3>1. r = NoRecord /\ ~IsTerminal(r)
      BY <1>r, <2>4, Slots
    <3>2. DecideObserved(r, rv, i \in denylist) = "INSERTED"
      BY <2>4, <3>1 DEF DecideObserved
    <3>3. ObservedChange(r, rv, i \in denylist, now) = NextInsert(NoRecord, rv, now)
      BY <3>1, <3>2 DEF ObservedChange
    <3>4. Exists(NextInsert(NoRecord, rv, now))
      BY <2>0, InsertType, Slots
    <3> QED BY <1>1, <2>1, <2>4, <3>1, <3>3, <3>4 DEF Batched
  <2>5. CASE i \notin denylist /\ Live(r) /\ r.content # seen[i]
    <3>1. DecideObserved(r, rv, i \in denylist) = "UPDATED"
      BY <2>0, <2>5 DEF DecideObserved, Live
    <3>2. ObservedChange(r, rv, i \in denylist, now) = NextUpdate(r, rv, now)
      BY <3>1 DEF ObservedChange
    <3>3. Exists(NextUpdate(r, rv, now))
      BY <1>r, <2>0, <2>5, UpdateType, Slots DEF Live
    <3> QED BY <1>1, <2>1, <2>5, <3>2, <3>3 DEF Batched
  <2>6. CASE i \notin denylist /\ Live(r) /\ r.content = seen[i]
    <3>1. DecideObserved(r, rv, i \in denylist) = "UNCHANGED"
      BY <2>0, <2>6 DEF DecideObserved, Live
    <3>2. ObservedChange(r, rv, i \in denylist, now) = NextTouch(r, now)
      BY <3>1 DEF ObservedChange
    <3>3. Exists(NextTouch(r, now))
      BY <1>r, <2>6, TouchType, Slots DEF Live
    <3> QED BY <1>1, <2>1, <2>6, <3>2, <3>3 DEF Batched
  <2> QED BY <2>2, <2>3, <2>4, <2>5, <2>6 DEF Live
<1>2. CASE i \notin DOMAIN seen
  <2>0. i \notin DOMAIN Delivered(seen)
    BY <1>2 DEF Delivered
  <2>1. CASE ~Live(r)
    <3>1. DecideAbsent(r, Ctx(l, reason)) = "IGNORED_TERMINAL" \/ ~Exists(r)
      BY <2>1 DEF DecideAbsent, Live
    <3>2. ~Exists(Change(l, Delivered(seen), i, denylist, Ctx(l, reason), now))
      BY <2>0, <3>1 DEF Change, AbsentChange, Exists, NoRecord
    <3> QED BY <1>2, <2>1, <3>2 DEF Batched
  <2>2. CASE Live(r)
    <3>0. Change(l, Delivered(seen), i, denylist, Ctx(l, reason), now)
            = AbsentChange(r, Ctx(l, reason), now)
      BY <2>0, <2>2 DEF Change, Live
    <3>c. /\ Ctx(l, reason).completeness = c
          /\ Ctx(l, reason).removalConfirmations = RemovalConfirmations
          /\ Ctx(l, reason).alreadyCounted <=>
               Looked(reason) /\ l.last_full_harvest_at = now
      BY <1>l DEF Ctx, Context
    <3>1. CASE ~Looked(reason) \/ l.last_full_harvest_at = now
      <4>1. DecideAbsent(r, Ctx(l, reason)) = "HELD"
        BY <1>l, <2>2, <3>1, <3>c DEF DecideAbsent, Live
      <4>2. AbsentChange(r, Ctx(l, reason), now) = NoRecord
        BY <4>1 DEF AbsentChange
      <4> QED BY <1>2, <3>0, <3>1, <4>2 DEF Batched, Exists, NoRecord
    <3>2. CASE Looked(reason) /\ l.last_full_harvest_at # now
      <4>1. DecideAbsent(r, Ctx(l, reason)) \in {"MISSING", "TOMBSTONED"}
        BY <1>l, <2>2, <3>2, <3>c DEF DecideAbsent, Live
      <4>2. AbsentChange(r, Ctx(l, reason), now)
              = NextMissing(r, c, RemovalConfirmations, now)
        BY <4>1, <3>c DEF AbsentChange
      <4>3. Exists(NextMissing(r, c, RemovalConfirmations, now))
        BY <1>r, <1>l, <2>2, <3>2, MissingType, Slots, RemovalConfirmationsAssumption DEF Live
      <4> QED BY <1>2, <2>2, <3>0, <3>2, <4>2, <4>3 DEF Batched
    <3> QED BY <3>1, <3>2
  <2> QED BY <2>1, <2>2
<1> QED BY <1>1, <1>2

\* The type of what the batch leaves, and of what the sweep makes of it.
LEMMA BatchedType ==
  ASSUME NEW l \in LedgerType, NEW seen \in Observations, now \in Nat,
         NEW reason \in StopReasons, NEW denylist, NEW i \in Ids
  PROVE  Batched(l, seen, reason, denylist, i) \in Record \cup {NoRecord}
<1> DEFINE r == l.records[i]
           c == ClassifyCompleteness(reason)
           b == Batched(l, seen, reason, denylist, i)
<1>r. r \in Record \cup {NoRecord}
  BY DEF LedgerType
<1>l. Live(r) => r \in Record /\ ~IsTerminal(r)
  BY <1>r, Slots DEF Live
<1>s. i \in DOMAIN seen => Delivered(seen)[i] \in Review
  BY DeliveredReview
<1>1. CASE b = r
  BY <1>1, <1>r
<1>2. CASE i \in DOMAIN seen /\ b = NextInsert(NoRecord, Delivered(seen)[i], now)
  BY <1>2, <1>s, InsertType
<1>3. CASE i \in DOMAIN seen /\ Live(r) /\ b = NextUpdate(r, Delivered(seen)[i], now)
  BY <1>3, <1>l, <1>s, UpdateType
<1>4. CASE Live(r) /\ b = NextTouch(r, now)
  BY <1>4, <1>l, TouchType
<1>5. CASE Live(r) /\ Looked(reason) /\ b = NextMissing(r, c, RemovalConfirmations, now)
  <2>1. AbsenceIsMeaningful(c)
    BY <1>5, LookedMeaning
  <2> QED BY <1>5, <1>l, <2>1, MissingType, RemovalConfirmationsAssumption
<1> QED BY <1>1, <1>2, <1>3, <1>4, <1>5, BatchCases

\* The sweep, one record at a time: a record that is suppressed already is
\* what suppressing it again would give.
LEMMA SweepRecord ==
  ASSUME NEW B \in [Ids -> Record \cup {NoRecord}], NEW denylist, NEW i \in Ids
  PROVE  SweepSuppressions(B, denylist)[i] = Swept(B[i], i \in denylist)
<1> DEFINE c == IF i \in denylist /\ B[i].state # "suppressed"
                THEN NextSuppress(B[i]) ELSE NoRecord
<1>0. SweepSuppressions(B, denylist)[i] = IF Exists(c) THEN c ELSE B[i]
  BY DEF SweepSuppressions, ApplyBatch
<1>1. CASE i \in denylist /\ Exists(B[i]) /\ B[i].state # "suppressed"
  <2>1. c = [B[i] EXCEPT !.state = "suppressed"]
    BY <1>1 DEF NextSuppress
  <2>2. Exists(c)
    BY <1>1, <2>1, Slots DEF Exists, Record
  <2> QED BY <1>0, <1>1, <2>1, <2>2 DEF Swept
<1>2. CASE i \in denylist /\ B[i].state = "suppressed"
  <2>1. B[i] \in Record /\ Exists(B[i])
    BY <1>2, Slots DEF Exists
  <2>2. [B[i] EXCEPT !.state = "suppressed"] = B[i]
    BY <1>2, <2>1 DEF Record
  <2>3. c = NoRecord
    BY <1>2
  <2> QED BY <1>0, <1>2, <2>1, <2>2, <2>3 DEF Swept, Exists, NoRecord
<1>3. CASE i \in denylist /\ ~Exists(B[i])
  <2>1. c = NoRecord
    BY <1>3 DEF NextSuppress
  <2> QED BY <1>0, <1>3, <2>1 DEF Swept, Exists, NoRecord
<1>4. CASE i \notin denylist
  BY <1>0, <1>4 DEF Swept, Exists, NoRecord
<1> QED BY <1>1, <1>2, <1>3, <1>4

\* A merge is the batch and the sweep of each record, and the stamp.
LEMMA MergeRecord ==
  ASSUME NEW l \in LedgerType, NEW seen \in Observations, now \in Nat,
         NEW reason \in StopReasons, NEW denylist
  PROVE  /\ Merge(l, seen, reason, denylist) \in LedgerType
         /\ Merge(l, seen, reason, denylist).last_full_harvest_at =
              IF Looked(reason) THEN now ELSE l.last_full_harvest_at
         /\ \A i \in Ids : Merge(l, seen, reason, denylist).records[i] =
              Swept(Batched(l, seen, reason, denylist, i), i \in denylist)
<1> DEFINE m == Merge(l, seen, reason, denylist)
           B == [i \in Ids |-> Batched(l, seen, reason, denylist, i)]
           S == SweepSuppressions(B, denylist)
<1>1. m = RecordHarvest(S, l, ClassifyCompleteness(reason), now)
  BY DEF Merge, ReconcileLedger, ApplyBatch, Batched, Ctx, Context
<1>2. m = [ records |-> S,
            last_full_harvest_at |-> IF Looked(reason) THEN now
                                     ELSE l.last_full_harvest_at ]
  BY <1>1, LookedMeaning DEF RecordHarvest
<1>3. B \in [Ids -> Record \cup {NoRecord}]
  BY BatchedType
<1>4. \A i \in Ids : B[i] = Batched(l, seen, reason, denylist, i)
  OBVIOUS
<1>5. S = [i \in Ids |-> S[i]]
  BY DEF SweepSuppressions, ApplyBatch
<1> HIDE DEF B, S, m
<1>6. \A i \in Ids : S[i] = Swept(B[i], i \in denylist)
  BY <1>3, SweepRecord DEF S
<1>7. ASSUME NEW i \in Ids
      PROVE  S[i] \in Record \cup {NoRecord}
  <2>1. Swept(B[i], i \in denylist) \in Record \cup {NoRecord}
    BY <1>3, SweptType
  <2> QED BY <1>6, <2>1
<1>8. m \in LedgerType
  <2>1. S \in [Ids -> Record \cup {NoRecord}]
    BY <1>5, <1>7
  <2> QED BY <1>2, <2>1 DEF LedgerType
<1> QED BY <1>2, <1>4, <1>6, <1>8 DEF m

-----------------------------------------------------------------------------
(* What a harvest is asked to keep of one record.                          *)

\* LedgerSound, of one record at an instant.
Sound(r, t) ==
  Exists(r) =>
    /\ CheckRecord(r)
    /\ r.last_seen_at <= t
    /\ r.state = "active" <=> ~IsTerminal(r) /\ r.missing_streak = 0

\* StreakIsEvidence, of one record, with what makes it inductive: the
\* instants that missed the review are finitely many, and none is later than
\* the last full harvest.  A harvest that counts is at another instant than
\* that one (the date-level law), so it adds an instant along with the miss.
Evidence(r, A, last) ==
  /\ IsFiniteSet(A)
  /\ \A t \in A : t <= last
  /\ Live(r) => /\ r.missing_streak < RemovalConfirmations
                /\ r.missing_streak <= Cardinality(A)

\* The inductive invariant.
IInv ==
  /\ TypeOK
  /\ ledger.last_full_harvest_at <= now
  /\ \A i \in Ids : /\ Sound(ledger.records[i], now)
                    /\ Evidence(ledger.records[i], absentAt[i],
                                ledger.last_full_harvest_at)

\* The sweep changes the state of a record and nothing else.
LEMMA SweptFields ==
  ASSUME NEW b \in Record, NEW denylist, NEW i
  PROVE  LET s == Swept(b, i \in denylist)
         IN  /\ s.state = IF i \in denylist THEN "suppressed" ELSE b.state
             /\ s.content = b.content
             /\ s.date = b.date
             /\ s.first_seen_at = b.first_seen_at
             /\ s.last_seen_at = b.last_seen_at
             /\ s.revision = b.revision
             /\ s.missing_streak = b.missing_streak
             /\ s.tombstoned_at = b.tombstoned_at
             /\ s.history = b.history
BY DEF Swept, Record, Exists, Terminal

\* nextMissing, its fields.
LEMMA MissingFields ==
  ASSUME NEW r \in Record, ~IsTerminal(r), NEW c, AbsenceIsMeaningful(c), NEW t \in Nat
  PROVE  LET n == NextMissing(r, c, RemovalConfirmations, t)
             reached == r.missing_streak + 1 >= RemovalConfirmations
         IN  /\ n.state = IF reached THEN "tombstoned" ELSE "unconfirmed"
             /\ n.tombstoned_at = IF reached THEN t ELSE Never
             /\ n.missing_streak = r.missing_streak + 1
             /\ n.content = r.content
             /\ n.date = r.date
             /\ n.first_seen_at = r.first_seen_at
             /\ n.last_seen_at = r.last_seen_at
             /\ n.revision = r.revision
             /\ n.history = r.history
<1>1. Exists(r)
  BY DEF Record, Exists, Terminal
<1> QED BY <1>1 DEF NextMissing, Record

\* A batch keeps a sound record sound.
LEMMA BatchedSound ==
  ASSUME NEW l \in LedgerType, NEW seen \in Observations, now \in Nat \ {0},
         NEW reason \in StopReasons, NEW denylist, NEW i \in Ids,
         Sound(l.records[i], now)
  PROVE  Sound(Batched(l, seen, reason, denylist, i), now)
<1> DEFINE r == l.records[i]
           c == ClassifyCompleteness(reason)
           b == Batched(l, seen, reason, denylist, i)
           rv == Delivered(seen)[i]
<1>l. Live(r) => r \in Record /\ ~IsTerminal(r) /\ Exists(r)
  <2>1. r \in Record \cup {NoRecord}
    BY DEF LedgerType
  <2> QED BY <2>1, Slots DEF Live
<1>s. i \in DOMAIN seen => rv \in Review
  BY DeliveredReview
<1>1. CASE b = r
  BY <1>1
<1>2. CASE i \in DOMAIN seen /\ b = NextInsert(NoRecord, rv, now)
  <2>1. NextInsert(NoRecord, rv, now) =
          [ content |-> rv.content, date |-> rv.date, state |-> "active",
            first_seen_at |-> now, last_seen_at |-> now, revision |-> 1,
            missing_streak |-> 0, tombstoned_at |-> Never, history |-> << >> ]
    BY DEF NextInsert, NoRecord, IsTerminal, Terminal
  <2>2. Len(b.history) = 0
    BY <1>2, <2>1, EmptySeq
  <2> QED BY <1>2, <2>1, <2>2 DEF Sound, CheckRecord, IsTerminal, Terminal
<1>3. CASE i \in DOMAIN seen /\ Live(r) /\ b = NextUpdate(r, rv, now)
  <2>1. Len(b.history) = Len(r.history) + 1
    BY <1>3, <1>l, <1>s, UpdateType
  <2>2. /\ b.state = "active" /\ b.first_seen_at = r.first_seen_at
        /\ b.last_seen_at = now /\ b.revision = r.revision + 1
        /\ b.missing_streak = 0
    BY <1>3, <1>l DEF NextUpdate
  <2>3. r.first_seen_at <= now /\ r.revision >= 1 /\ Len(r.history) = r.revision - 1
        /\ r.revision \in Nat
    BY <1>3, <1>l DEF Sound, CheckRecord, Record
  <2> QED BY <2>1, <2>2, <2>3 DEF Sound, CheckRecord, IsTerminal, Terminal
<1>4. CASE Live(r) /\ b = NextTouch(r, now)
  BY <1>4, <1>l DEF NextTouch, Sound, CheckRecord, Record, IsTerminal, Terminal
<1>5. CASE Live(r) /\ Looked(reason) /\ b = NextMissing(r, c, RemovalConfirmations, now)
  <2>1. AbsenceIsMeaningful(c)
    BY <1>5, LookedMeaning
  <2>2. r.missing_streak \in Nat
    BY <1>5, <1>l DEF Record
  <2>3. /\ b.state \in {"tombstoned", "unconfirmed"}
        /\ b.state = "tombstoned" => b.tombstoned_at = now
        /\ b.missing_streak = r.missing_streak + 1
        /\ b.first_seen_at = r.first_seen_at
        /\ b.last_seen_at = r.last_seen_at
        /\ b.revision = r.revision
        /\ b.history = r.history
    BY <1>5, <1>l, <2>1, MissingFields
  <2>4. CheckRecord(r) /\ r.last_seen_at <= now
    BY <1>5, <1>l DEF Sound
  <2>5. CheckRecord(b)
    BY <2>2, <2>3, <2>4 DEF CheckRecord, Never
  <2>6. b.state # "active" /\ b.missing_streak # 0
    BY <2>2, <2>3
  <2> QED BY <2>3, <2>4, <2>5, <2>6 DEF Sound
<1> QED BY <1>1, <1>2, <1>3, <1>4, <1>5, BatchCases

\* So does the sweep.
LEMMA SweptSound ==
  ASSUME NEW b \in Record \cup {NoRecord}, NEW denylist, NEW i, Sound(b, now)
  PROVE  Sound(Swept(b, i \in denylist), now)
<1>1. CASE b = NoRecord
  BY <1>1 DEF Swept, Exists, NoRecord, Sound
<1>2. CASE b \in Record
  <2>1. Exists(b)
    BY <1>2, Slots
  <2> DEFINE s == Swept(b, i \in denylist)
  <2>2. CheckRecord(b) /\ b.last_seen_at <= now
    BY <2>1 DEF Sound
  <2>3. CASE i \notin denylist
    BY <2>3 DEF Swept
  <2>4. CASE i \in denylist
    <3>1. /\ s.state = "suppressed" /\ s.tombstoned_at = b.tombstoned_at
          /\ s.first_seen_at = b.first_seen_at /\ s.last_seen_at = b.last_seen_at
          /\ s.revision = b.revision /\ s.missing_streak = b.missing_streak
          /\ s.history = b.history
      BY <1>2, <2>4, SweptFields
    <3>2. CheckRecord(s)
      BY <2>2, <3>1 DEF CheckRecord
    <3> QED BY <2>2, <3>1, <3>2 DEF Sound, IsTerminal, Terminal
  <2> QED BY <2>3, <2>4
<1> QED BY <1>1, <1>2

\* The instants Witness leaves for one review.
Witnessed(A, seen, reason, i) ==
  IF i \in DOMAIN seen THEN {}
  ELSE IF Looked(reason) THEN A \cup {now} ELSE A

\* Each case of a batch, then the sweep, keeps the evidence of a record: the
\* one case that counts a miss adds an instant that was not there.
LEMMA MergedEvidence ==
  ASSUME NEW l \in LedgerType, NEW seen \in Observations, now \in Nat,
         NEW reason \in StopReasons, NEW denylist, NEW i \in Ids,
         l.last_full_harvest_at <= now,
         NEW A \in SUBSET Nat, Evidence(l.records[i], A, l.last_full_harvest_at)
  PROVE  Evidence(Merge(l, seen, reason, denylist).records[i],
                  Witnessed(A, seen, reason, i),
                  Merge(l, seen, reason, denylist).last_full_harvest_at)
<1> DEFINE r == l.records[i]
           c == ClassifyCompleteness(reason)
           b == Batched(l, seen, reason, denylist, i)
           s == Swept(b, i \in denylist)
           rv == Delivered(seen)[i]
           W == Witnessed(A, seen, reason, i)
           last == IF Looked(reason) THEN now ELSE l.last_full_harvest_at
<1>m. /\ Merge(l, seen, reason, denylist).records[i] = s
      /\ Merge(l, seen, reason, denylist).last_full_harvest_at = last
  BY MergeRecord
<1>t. /\ r \in Record \cup {NoRecord}
      /\ b \in Record \cup {NoRecord}
      /\ l.last_full_harvest_at \in Nat
  BY BatchedType DEF LedgerType
<1>l. Live(r) => r \in Record /\ ~IsTerminal(r) /\ Exists(r) /\ r.missing_streak \in Nat
  BY <1>t, Slots DEF Live, Record
<1>f. IsFiniteSet(A) /\ \A t \in A : t <= l.last_full_harvest_at
  BY DEF Evidence
<1>1. IsFiniteSet(W) /\ \A t \in W : t <= last
  <2>1. IsFiniteSet({}) /\ IsFiniteSet(A \cup {now})
    BY <1>f, FS_EmptySet, FS_AddElement
  <2>2. CASE i \in DOMAIN seen
    <3>1. W = {}
      BY <2>2 DEF Witnessed
    <3> QED BY <2>1, <3>1
  <2>3. CASE i \notin DOMAIN seen /\ Looked(reason)
    <3>1. W = A \cup {now} /\ last = now
      BY <2>3 DEF Witnessed
    <3>2. \A t \in A \cup {now} : t <= now
      BY <1>f, <1>t
    <3>3. IsFiniteSet(W)
      BY <2>1, <3>1
    <3> HIDE DEF W, last
    <3> QED BY <3>1, <3>2, <3>3
  <2>4. CASE i \notin DOMAIN seen /\ ~Looked(reason)
    <3>1. W = A /\ last = l.last_full_harvest_at
      BY <2>4 DEF Witnessed
    <3> QED BY <1>f, <3>1
  <2> QED BY <2>2, <2>3, <2>4
<1>2. Live(s) => i \notin denylist /\ s = b /\ Live(b)
  <2>1. CASE b = NoRecord
    BY <2>1 DEF Swept, Live, Exists, NoRecord
  <2>2. CASE b \in Record /\ i \in denylist
    BY <2>2, SweptFields DEF Live, IsTerminal, Terminal
  <2>3. CASE i \notin denylist
    BY <2>3 DEF Swept
  <2> QED BY <1>t, <2>1, <2>2, <2>3
<1>3. Live(b) /\ i \notin denylist =>
        b.missing_streak < RemovalConfirmations /\ b.missing_streak <= Cardinality(W)
  <2> SUFFICES ASSUME Live(b), i \notin denylist
               PROVE  /\ b.missing_streak < RemovalConfirmations
                      /\ b.missing_streak <= Cardinality(W)
    OBVIOUS
  <2>k. RemovalConfirmations \in Nat /\ RemovalConfirmations >= 2
    BY RemovalConfirmationsAssumption
  <2>z. Cardinality({}) = 0 /\ Cardinality(A) \in Nat
    BY <1>f, FS_EmptySet, FS_CardinalityType
  <2>a. Cardinality(A \cup {now}) =
          IF now \in A THEN Cardinality(A) ELSE Cardinality(A) + 1
    BY <1>f, FS_AddElement
  <2>e. Live(r) => r.missing_streak < RemovalConfirmations
                   /\ r.missing_streak <= Cardinality(A)
    BY DEF Evidence
  <2>1. CASE /\ b = r
             /\ i \in DOMAIN seen => i \in denylist \/ IsTerminal(r)
    <3>1. i \notin DOMAIN seen /\ Live(r)
      BY <2>1 DEF Live
    <3>2. W = A \/ W = A \cup {now}
      BY <3>1 DEF Witnessed
    <3> QED BY <1>l, <2>1, <2>z, <2>a, <2>e, <3>1, <3>2
  <2>2. CASE i \in DOMAIN seen /\ b = NextInsert(NoRecord, rv, now)
    <3>1. b.missing_streak = 0
      BY <2>2 DEF NextInsert, NoRecord, IsTerminal, Terminal
    <3>2. W = {}
      BY <2>2 DEF Witnessed
    <3> QED BY <2>k, <2>z, <3>1, <3>2
  <2>3. CASE i \in DOMAIN seen /\ Live(r) /\ b = NextUpdate(r, rv, now)
    <3>1. b.missing_streak = 0
      BY <1>l, <2>3 DEF NextUpdate
    <3>2. W = {}
      BY <2>3 DEF Witnessed
    <3> QED BY <2>k, <2>z, <3>1, <3>2
  <2>4. CASE i \in DOMAIN seen /\ Live(r) /\ b = NextTouch(r, now)
    <3>1. b.missing_streak = 0
      BY <1>l, <2>4 DEF NextTouch, Record
    <3>2. W = {}
      BY <2>4 DEF Witnessed
    <3> QED BY <2>k, <2>z, <3>1, <3>2
  <2>5. CASE /\ i \notin DOMAIN seen /\ Live(r) /\ Looked(reason)
             /\ l.last_full_harvest_at # now
             /\ b = NextMissing(r, c, RemovalConfirmations, now)
    <3>1. AbsenceIsMeaningful(c)
      BY <2>5, LookedMeaning
    <3>2. /\ b.state = IF r.missing_streak + 1 >= RemovalConfirmations
                       THEN "tombstoned" ELSE "unconfirmed"
          /\ b.missing_streak = r.missing_streak + 1
      BY <1>l, <2>5, <3>1, MissingFields
    <3>3. ~(r.missing_streak + 1 >= RemovalConfirmations)
      BY <3>2 DEF Live, IsTerminal, Terminal
    <3>4. W = A \cup {now}
      BY <2>5 DEF Witnessed
    <3>5. now \notin A
      BY <1>f, <1>t, <2>5
    <3>6. Cardinality(W) = Cardinality(A) + 1
      BY <2>a, <3>4, <3>5
    <3> QED BY <1>l, <2>k, <2>z, <2>e, <2>5, <3>2, <3>3, <3>6
  <2> QED BY <2>1, <2>2, <2>3, <2>4, <2>5, BatchCases
<1> HIDE DEF s, W, last
<1>4. Evidence(s, W, last)
  BY <1>1, <1>2, <1>3 DEF Evidence
<1> QED BY <1>m, <1>4 DEF W, last

-----------------------------------------------------------------------------
(* The induction over harvests.                                            *)

\* What the type invariant says of the ledger and of the clock.
LEMMA TypeFacts ==
  ASSUME TypeOK
  PROVE  /\ ledger \in LedgerType
         /\ now \in Nat \ {0} /\ now \in Nat
         /\ ledger.last_full_harvest_at \in Nat
         /\ \A i \in Ids : /\ ledger.records[i] \in Record \cup {NoRecord}
                           /\ absentAt[i] \in SUBSET Nat
BY DEF TypeOK, LedgerType

\* Whatever a harvest delivers next, what reconcile returns is a ledger that
\* passes the self-check.
LEMMA MergeIsSound ==
  IInv => \A seen \in Observations, reason \in StopReasons, denylist \in SUBSET Ids :
            LET next == Merge(ledger, seen, reason, denylist)
            IN  /\ next \in LedgerType
                /\ \A i \in Ids : Sound(next.records[i], now)
                /\ CheckLedgerInvariants(next)
<1> SUFFICES ASSUME IInv, NEW seen \in Observations, NEW reason \in StopReasons,
                    NEW denylist \in SUBSET Ids
             PROVE  /\ Merge(ledger, seen, reason, denylist) \in LedgerType
                    /\ \A i \in Ids : Sound(Merge(ledger, seen, reason, denylist).records[i], now)
                    /\ CheckLedgerInvariants(Merge(ledger, seen, reason, denylist))
  OBVIOUS
<1>1. /\ ledger \in LedgerType
      /\ now \in Nat \ {0} /\ now \in Nat
  BY TypeFacts DEF IInv
<1> DEFINE next == Merge(ledger, seen, reason, denylist)
<1>2. /\ next \in LedgerType
      /\ \A i \in Ids :
           next.records[i] = Swept(Batched(ledger, seen, reason, denylist, i), i \in denylist)
  BY <1>1, MergeRecord
<1>3. ASSUME NEW i \in Ids PROVE Sound(next.records[i], now)
  <2>1. Sound(ledger.records[i], now)
    BY DEF IInv
  <2>2. Sound(Batched(ledger, seen, reason, denylist, i), now)
    BY <1>1, <2>1, BatchedSound
  <2>3. Batched(ledger, seen, reason, denylist, i) \in Record \cup {NoRecord}
    BY <1>1, BatchedType
  <2>4. Sound(Swept(Batched(ledger, seen, reason, denylist, i), i \in denylist), now)
    BY <2>2, <2>3, SweptSound
  <2> QED BY <1>2, <2>4
<1> HIDE DEF next
<1>4. CheckLedgerInvariants(next)
  BY <1>3 DEF CheckLedgerInvariants, Sound
<1> QED BY <1>2, <1>3, <1>4 DEF next

\* What a Harvest step is, one record at a time.
LEMMA HarvestStep ==
  ASSUME TypeOK, NEW seen \in Observations, NEW reason \in Stops,
         NEW denylist, Harvest(seen, reason, denylist)
  PROVE  /\ reason \in StopReasons
         /\ now' = now
         /\ ledger' = Merge(ledger, seen, reason, denylist)
         /\ \A i \in Ids :
              /\ ledger'.records[i] =
                   Swept(Batched(ledger, seen, reason, denylist, i), i \in denylist)
              /\ absentAt'[i] = Witnessed(absentAt[i], seen, reason, i)
<1>1. reason \in StopReasons
  BY StopsAssumption
<1>2. ledger' = Merge(ledger, seen, reason, denylist) /\ now' = now
  BY DEF Harvest
<1>3. \A i \in Ids : ledger'.records[i] =
        Swept(Batched(ledger, seen, reason, denylist, i), i \in denylist)
  BY <1>1, <1>2, MergeRecord, TypeFacts
<1>4. \A i \in Ids : absentAt'[i] = Witnessed(absentAt[i], seen, reason, i)
  BY DEF Harvest, Witness, Witnessed
<1> QED BY <1>1, <1>2, <1>3, <1>4

\* An empty ledger (createLedger) satisfies the invariant.
LEMMA InitIInv == Init => IInv
<1> SUFFICES ASSUME Init PROVE IInv
  OBVIOUS
<1>1. \A i \in Ids : ledger.records[i] = NoRecord /\ absentAt[i] = {}
  BY DEF Init, CreateLedger
<1>2. TypeOK
  BY DEF Init, CreateLedger, TypeOK, LedgerType, Never
<1>3. ledger.last_full_harvest_at <= now
  BY DEF Init, CreateLedger, Never
<1>4. \A i \in Ids : Sound(ledger.records[i], now)
  BY <1>1 DEF Sound, Exists, NoRecord
<1>5. ASSUME NEW i \in Ids
      PROVE  Evidence(ledger.records[i], absentAt[i], ledger.last_full_harvest_at)
  <2>1. ledger.records[i] = NoRecord /\ absentAt[i] = {}
    BY <1>1
  <2>2. ~Live(ledger.records[i])
    BY <2>1 DEF Live, Exists, NoRecord
  <2>3. IsFiniteSet(absentAt[i])
    BY <2>1, FS_EmptySet
  <2> QED BY <2>1, <2>2, <2>3 DEF Evidence
<1> QED BY <1>2, <1>3, <1>4, <1>5 DEF IInv

\* Every merge, and every tick of the clock between merges, preserves it.
LEMMA StepIInv == IInv /\ [Next]_vars => IInv'
<1> SUFFICES ASSUME IInv, [Next]_vars PROVE IInv'
  OBVIOUS
<1>t. /\ ledger \in LedgerType
      /\ now \in Nat \ {0} /\ now \in Nat
      /\ ledger.last_full_harvest_at \in Nat
      /\ \A i \in Ids : /\ ledger.records[i] \in Record \cup {NoRecord}
                        /\ absentAt[i] \in SUBSET Nat
  BY TypeFacts DEF IInv
<1>1. CASE UNCHANGED vars
  BY <1>1 DEF IInv, vars, TypeOK
<1>2. CASE Tick
  <2>1. ledger' = ledger /\ absentAt' = absentAt /\ now' = now + 1
    BY <1>2 DEF Tick
  <2>2. TypeOK'
    BY <1>t, <2>1 DEF IInv, TypeOK
  <2>3. ASSUME NEW i \in Ids PROVE Sound(ledger.records[i], now + 1)
    <3>1. Sound(ledger.records[i], now)
      BY DEF IInv
    <3>2. Exists(ledger.records[i]) => ledger.records[i].last_seen_at \in Nat
      BY <1>t, Slots DEF Record
    <3> QED BY <1>t, <3>1, <3>2 DEF Sound
  <2> QED BY <1>t, <2>1, <2>2, <2>3 DEF IInv
<1>3. CASE \E seen \in Observations, reason \in Stops, denylist \in SUBSET Ids :
             Harvest(seen, reason, denylist)
  <2> PICK seen \in Observations, reason \in Stops, denylist \in SUBSET Ids :
             Harvest(seen, reason, denylist)
    BY <1>3
  <2>0. TypeOK
    BY DEF IInv
  <2>1. /\ reason \in StopReasons
        /\ now' = now
        /\ ledger' = Merge(ledger, seen, reason, denylist)
        /\ \A i \in Ids : absentAt'[i] = Witnessed(absentAt[i], seen, reason, i)
    BY <2>0, HarvestStep
  <2>2. /\ ledger' \in LedgerType
        /\ ledger'.last_full_harvest_at =
             IF Looked(reason) THEN now ELSE ledger.last_full_harvest_at
    BY <1>t, <2>1, MergeRecord
  <2>3. absentAt' \in [Ids -> SUBSET Nat]
    BY <1>t DEF Harvest, Witness
  <2>4. TypeOK'
    BY <1>t, <2>1, <2>2, <2>3 DEF TypeOK
  <2>5. (ledger.last_full_harvest_at <= now)'
    BY <1>t, <2>1, <2>2 DEF IInv
  <2>6. ASSUME NEW i \in Ids PROVE Sound(ledger.records[i], now)'
    BY <2>1, MergeIsSound
  <2>7. ASSUME NEW i \in Ids
        PROVE  Evidence(ledger.records[i], absentAt[i], ledger.last_full_harvest_at)'
    <3>1. Evidence(ledger.records[i], absentAt[i], ledger.last_full_harvest_at)
      BY DEF IInv
    <3>2. ledger.last_full_harvest_at <= now
      BY DEF IInv
    <3> QED BY <1>t, <2>1, <3>1, <3>2, MergedEvidence
  <2> QED BY <2>4, <2>5, <2>6, <2>7 DEF IInv
<1> QED BY <1>1, <1>2, <1>3 DEF Next

\* The invariant the theorems below rest on.
THEOREM Invariance == Spec => []IInv
BY InitIInv, StepIInv, PTL DEF Spec

\* Every field keeps its type.
THEOREM TypeCorrect == Spec => []TypeOK
<1>1. IInv => TypeOK
  BY DEF IInv
<1> QED BY <1>1, Invariance, PTL

\* reconcile never returns a ledger that checkLedgerInvariants refuses.
THEOREM SelfCheckNeverFails == Spec => []LedgerSound
<1>1. IInv => LedgerSound
  <2> SUFFICES ASSUME IInv PROVE LedgerSound
    OBVIOUS
  <2>1. CheckLedgerInvariants(ledger)
    BY DEF IInv, CheckLedgerInvariants, Sound
  <2> QED BY <2>1 DEF IInv, LedgerSound, Sound
<1> QED BY <1>1, Invariance, PTL

\* A streak never counts more than the instants that missed the review.
THEOREM StreaksAreEvidence == Spec => []StreakIsEvidence
<1>1. IInv => StreakIsEvidence
  BY DEF IInv, StreakIsEvidence, Evidence, Live
<1> QED BY <1>1, Invariance, PTL

-----------------------------------------------------------------------------
(* What every merge promises of the ledger it is given.                    *)

\* A record that is suppressed already is what the sweep makes of it.
LEMMA SweptSuppressed ==
  ASSUME NEW b \in Record \cup {NoRecord}, NEW denylist, NEW i,
         i \in denylist /\ Exists(b) => b.state = "suppressed"
  PROVE  Swept(b, i \in denylist) = b
<1>1. CASE i \in denylist /\ Exists(b)
  <2>1. b \in Record /\ b.state = "suppressed"
    BY <1>1, Slots
  <2> QED BY <1>1, <2>1 DEF Swept, Record
<1>2. CASE ~(i \in denylist /\ Exists(b))
  BY <1>2 DEF Swept
<1> QED BY <1>1, <1>2

\* The sweep erases whatever record it finds under a denied identity.
LEMMA SweptDenied ==
  ASSUME NEW b \in Record \cup {NoRecord}, NEW denylist, NEW i \in denylist
  PROVE  LET s == Swept(b, i \in denylist)
         IN  Exists(s) => s.state = "suppressed"
<1>1. CASE b = NoRecord
  BY <1>1 DEF Swept, Exists, NoRecord
<1>2. CASE b \in Record
  BY <1>2, SweptFields
<1> QED BY <1>1, <1>2

\* No denylisted review is publishable after a merge.
THEOREM ErasureHolds == Spec => []ErasedIsUnpublished
<1>1. TypeOK => ErasedIsUnpublished
  <2> SUFFICES ASSUME TypeOK, NEW seen \in Observations, NEW reason \in Stops,
                      NEW i \in Ids
               PROVE  i \notin PublishableRecords(Merge(ledger, seen, reason, {i}))
    BY DEF ErasedIsUnpublished
  <2> DEFINE b == Batched(ledger, seen, reason, {i}, i)
             s == Swept(b, i \in {i})
  <2>1. reason \in StopReasons
    BY StopsAssumption
  <2>2. Merge(ledger, seen, reason, {i}).records[i] = s
    BY <2>1, TypeFacts, MergeRecord
  <2>3. b \in Record \cup {NoRecord}
    BY <2>1, TypeFacts, BatchedType
  <2>4. Exists(s) => s.state = "suppressed"
    BY <2>3, SweptDenied
  <2> QED BY <2>2, <2>4 DEF PublishableRecords, IsTerminal, Terminal
<1> QED BY <1>1, TypeCorrect, PTL

\* A harvest that did not look changes nothing of what it did not see.
THEOREM PartialIsHarmless == Spec => []PartialLeavesAbsentAlone
<1>1. TypeOK => PartialLeavesAbsentAlone
  <2> SUFFICES ASSUME TypeOK, NEW seen \in Observations, NEW reason \in Stops,
                      ~Looked(reason)
               PROVE  LET next == Merge(ledger, seen, reason, {})
                      IN  /\ next.last_full_harvest_at = ledger.last_full_harvest_at
                          /\ \A i \in Ids \ DOMAIN seen :
                               next.records[i] = ledger.records[i]
    BY DEF PartialLeavesAbsentAlone
  <2>1. reason \in StopReasons
    BY StopsAssumption
  <2>2. ASSUME NEW i \in Ids \ DOMAIN seen
        PROVE  Merge(ledger, seen, reason, {}).records[i] = ledger.records[i]
    <3>1. Batched(ledger, seen, reason, {}, i) = ledger.records[i]
      BY <2>1, TypeFacts, BatchCases
    <3>2. Swept(ledger.records[i], i \in {}) = ledger.records[i]
      BY DEF Swept
    <3> QED BY <2>1, <3>1, <3>2, TypeFacts, MergeRecord
  <2>3. Merge(ledger, seen, reason, {}).last_full_harvest_at
          = ledger.last_full_harvest_at
    BY <2>1, TypeFacts, MergeRecord
  <2> QED BY <2>2, <2>3
<1> QED BY <1>1, TypeCorrect, PTL

\* Touching a record that was inserted, updated or touched at this instant
\* changes nothing.
LEMMA TouchAgain ==
  ASSUME NEW r \in Record, ~IsTerminal(r), NEW t,
         r.last_seen_at = t, r.missing_streak = 0, r.state = "active"
  PROVE  NextTouch(r, t) = r
<1>1. Exists(r)
  BY DEF Record, Exists, Terminal
<1> QED BY <1>1 DEF NextTouch, Record

\* Merging the same harvest again at its own instant changes nothing.
LEMMA ReplayRecord ==
  ASSUME TypeOK, NEW seen \in Observations, NEW reason \in StopReasons,
         NEW denylist, NEW i \in Ids
  PROVE  LET once == Merge(ledger, seen, reason, denylist)
         IN  Merge(once, seen, reason, denylist).records[i] = once.records[i]
<1> DEFINE once == Merge(ledger, seen, reason, denylist)
           r  == ledger.records[i]
           b  == Batched(ledger, seen, reason, denylist, i)
           s  == Swept(b, i \in denylist)
           b2 == Batched(once, seen, reason, denylist, i)
           rv == Delivered(seen)[i]
           c  == ClassifyCompleteness(reason)
<1> SUFFICES Merge(once, seen, reason, denylist).records[i] = once.records[i]
  OBVIOUS
<1>n. now \in Nat /\ ledger \in LedgerType /\ r \in Record \cup {NoRecord}
  BY TypeFacts
<1>m. /\ once \in LedgerType
      /\ once.last_full_harvest_at =
           IF Looked(reason) THEN now ELSE ledger.last_full_harvest_at
      /\ once.records[i] = s
  BY <1>n, MergeRecord
<1>o. Merge(once, seen, reason, denylist).records[i] = Swept(b2, i \in denylist)
  BY <1>n, <1>m, MergeRecord
<1>t. /\ b \in Record \cup {NoRecord}
      /\ s \in Record \cup {NoRecord}
  BY <1>n, BatchedType, SweptType
<1>d. Swept(s, i \in denylist) = s
  BY <1>t, SweptDenied, SweptSuppressed
<1>e. i \notin denylist => s = b
  BY DEF Swept
<1>f. i \in DOMAIN seen => rv.content = seen[i] /\ rv \in Review
  <2>1. i \in DOMAIN seen => rv = [content |-> seen[i], date |-> now]
    BY <1>n, DeliveredReview
  <2> QED BY <1>n, <2>1, DeliveredReview
<1>l. Live(r) => r \in Record /\ ~IsTerminal(r) /\ Exists(r)
  BY <1>n, Slots DEF Live
\* An observed review that is not denied: fresh after the first merge, or
\* removed before it.
<1>1. i \in DOMAIN seen /\ i \notin denylist =>
        \/ IsTerminal(b)
        \/ /\ b \in Record /\ ~IsTerminal(b) /\ b.content = seen[i]
           /\ b.last_seen_at = now /\ b.missing_streak = 0 /\ b.state = "active"
  <2> SUFFICES ASSUME i \in DOMAIN seen, i \notin denylist
               PROVE \/ IsTerminal(b)
                     \/ /\ b \in Record /\ ~IsTerminal(b) /\ b.content = seen[i]
                        /\ b.last_seen_at = now /\ b.missing_streak = 0
                        /\ b.state = "active"
    OBVIOUS
  <2>1. CASE b = r /\ IsTerminal(r)
    BY <2>1
  <2>2. CASE b = NextInsert(NoRecord, rv, now)
    <3>1. b \in Record
      BY <1>n, <1>f, <2>2, InsertType
    <3> QED BY <1>f, <2>2, <3>1 DEF NextInsert, NoRecord, IsTerminal, Terminal
  <2>3. CASE Live(r) /\ b = NextUpdate(r, rv, now)
    <3>1. b \in Record
      BY <1>n, <1>f, <1>l, <2>3, UpdateType
    <3> QED BY <1>f, <1>l, <2>3, <3>1 DEF NextUpdate, IsTerminal, Terminal
  <2>4. CASE Live(r) /\ r.content = seen[i] /\ b = NextTouch(r, now)
    <3>1. b \in Record
      BY <1>n, <1>l, <2>4, TouchType
    <3> QED BY <1>l, <2>4, <3>1 DEF NextTouch, Record, IsTerminal, Terminal
  <2> QED BY <1>n, <2>1, <2>2, <2>3, <2>4, BatchCases
<1>2. CASE b2 = s
  BY <1>d, <1>m, <1>o, <1>2
<1>3. CASE i \in DOMAIN seen /\ i \notin denylist /\ s = NoRecord
  BY <1>1, <1>3, <1>e, <1>t, Slots
<1>4. CASE i \in DOMAIN seen /\ i \notin denylist /\ Live(s) /\ s.content # seen[i]
  BY <1>1, <1>4, <1>e DEF Live
<1>5. CASE i \in DOMAIN seen /\ i \notin denylist /\ Live(s) /\ b2 = NextTouch(s, now)
  <2>1. NextTouch(s, now) = s
    BY <1>1, <1>5, <1>e, TouchAgain DEF Live
  <2> QED BY <1>2, <1>5, <2>1
<1>6. CASE Looked(reason) /\ once.last_full_harvest_at # now
  BY <1>6, <1>m
<1> HIDE DEF once, b, s, b2, r
<1>7. \/ b2 = s
      \/ i \in DOMAIN seen /\ i \notin denylist /\ s = NoRecord
      \/ i \in DOMAIN seen /\ i \notin denylist /\ Live(s) /\ s.content # seen[i]
      \/ i \in DOMAIN seen /\ i \notin denylist /\ Live(s) /\ b2 = NextTouch(s, now)
      \/ Looked(reason) /\ once.last_full_harvest_at # now
  BY <1>n, <1>m, BatchCases DEF b2
<1> QED BY <1>2, <1>3, <1>4, <1>5, <1>6, <1>7

\* A shard that crashed before it could commit may simply re-run.
THEOREM ReplayIsHarmless == Spec => []ReplayIsNoOp
<1>1. TypeOK => ReplayIsNoOp
  <2> SUFFICES ASSUME TypeOK, NEW seen \in Observations, NEW reason \in Stops,
                      NEW denylist \in SUBSET Ids
               PROVE  LET once == Merge(ledger, seen, reason, denylist)
                      IN  Merge(once, seen, reason, denylist) = once
    BY DEF ReplayIsNoOp
  <2> DEFINE once  == Merge(ledger, seen, reason, denylist)
             twice == Merge(once, seen, reason, denylist)
  <2>1. reason \in StopReasons /\ now \in Nat /\ ledger \in LedgerType
    BY StopsAssumption, TypeFacts
  <2>2. once \in LedgerType /\ once.last_full_harvest_at =
          IF Looked(reason) THEN now ELSE ledger.last_full_harvest_at
    BY <2>1, MergeRecord
  <2>3. twice \in LedgerType /\ twice.last_full_harvest_at =
          IF Looked(reason) THEN now ELSE once.last_full_harvest_at
    BY <2>1, <2>2, MergeRecord
  <2>4. \A i \in Ids : twice.records[i] = once.records[i]
    BY <2>1, ReplayRecord
  <2> HIDE DEF once, twice
  <2>5. twice.records = once.records
    BY <2>2, <2>3, <2>4 DEF LedgerType
  <2>6. twice = once
    BY <2>2, <2>3, <2>5 DEF LedgerType
  <2> QED BY <2>6 DEF once, twice
<1> QED BY <1>1, TypeCorrect, PTL

-----------------------------------------------------------------------------
(* What a step may never do.                                               *)

\* How a Harvest step moves one record: it keeps it, or what stands for it
\* becomes a fresh record, a refreshed one or a missed one; and then the
\* sweep may erase what is there.
LEMMA HarvestCases ==
  ASSUME TypeOK, NEW seen \in Observations, NEW reason \in Stops,
         NEW denylist \in SUBSET Ids, Harvest(seen, reason, denylist), NEW i \in Ids
  PROVE  \E b \in Record \cup {NoRecord} :
           LET r == ledger.records[i]
               c == ClassifyCompleteness(reason)
           IN  /\ ledger'.records[i] = Swept(b, i \in denylist)
               /\ \/ b = r
                  \/ /\ r = NoRecord /\ i \in DOMAIN seen
                     /\ b = NextInsert(NoRecord, Delivered(seen)[i], now)
                  \/ /\ r \in Record /\ Live(r) /\ i \in DOMAIN seen
                     /\ b = NextUpdate(r, Delivered(seen)[i], now)
                  \/ /\ r \in Record /\ Live(r)
                     /\ b = NextTouch(r, now)
                  \/ /\ r \in Record /\ Live(r) /\ i \notin DOMAIN seen
                     /\ Looked(reason) /\ AbsenceIsMeaningful(c)
                     /\ ledger.last_full_harvest_at # now
                     /\ b = NextMissing(r, c, RemovalConfirmations, now)
<1> DEFINE b == Batched(ledger, seen, reason, denylist, i)
           r == ledger.records[i]
<1>1. /\ reason \in StopReasons
      /\ ledger'.records[i] = Swept(b, i \in denylist)
  BY HarvestStep
<1>2. b \in Record \cup {NoRecord} /\ r \in Record \cup {NoRecord}
  BY <1>1, TypeFacts, BatchedType
<1>3. Live(r) => r \in Record
  BY <1>2, Slots DEF Live
<1>4. AbsenceIsMeaningful(ClassifyCompleteness(reason)) <=> Looked(reason)
  BY <1>1, LookedMeaning
<1>5. \/ b = r
      \/ r = NoRecord /\ i \in DOMAIN seen
         /\ b = NextInsert(NoRecord, Delivered(seen)[i], now)
      \/ Live(r) /\ i \in DOMAIN seen /\ b = NextUpdate(r, Delivered(seen)[i], now)
      \/ Live(r) /\ b = NextTouch(r, now)
      \/ /\ Live(r) /\ i \notin DOMAIN seen /\ Looked(reason)
         /\ ledger.last_full_harvest_at # now
         /\ b = NextMissing(r, ClassifyCompleteness(reason), RemovalConfirmations, now)
  BY <1>1, TypeFacts, BatchCases
<1> HIDE DEF b
<1> USE <1>2
<1> WITNESS b \in Record \cup {NoRecord}
<1> QED BY <1>1, <1>3, <1>4, <1>5

\* PT-03 and PT-04, of one step.
LEMMA StepTerminal ==
  ASSUME TypeOK, [Next]_vars, NEW i \in Ids
  PROVE  /\ ledger.records[i].state = "suppressed" =>
              ledger'.records[i] = ledger.records[i]
         /\ ledger.records[i].state = "tombstoned" =>
              /\ IsTerminal(ledger'.records[i])
              /\ ledger'.records[i].content = ledger.records[i].content
              /\ ledger'.records[i].tombstoned_at = ledger.records[i].tombstoned_at
<1> DEFINE r == ledger.records[i]
<1>1. CASE UNCHANGED vars \/ Tick
  BY <1>1 DEF vars, Tick, IsTerminal, Terminal
<1>2. CASE \E seen \in Observations, reason \in Stops, denylist \in SUBSET Ids :
             Harvest(seen, reason, denylist)
  <2> PICK seen \in Observations, reason \in Stops, denylist \in SUBSET Ids :
             Harvest(seen, reason, denylist)
    BY <1>2
  <2>0. r \in Record \cup {NoRecord}
    BY TypeFacts
  <2>1. IsTerminal(r) => /\ ledger'.records[i] = Swept(r, i \in denylist)
                         /\ r \in Record
    BY <2>0, Slots, HarvestCases DEF Live, Exists, NoRecord
  <2>2. r.state = "suppressed" => ledger'.records[i] = r
    BY <2>0, <2>1, SweptSuppressed DEF IsTerminal, Terminal
  <2>3. r.state = "tombstoned" =>
          /\ IsTerminal(ledger'.records[i])
          /\ ledger'.records[i].content = r.content
          /\ ledger'.records[i].tombstoned_at = r.tombstoned_at
    <3> DEFINE s == Swept(r, i \in denylist)
    <3> SUFFICES ASSUME r.state = "tombstoned"
                 PROVE  /\ IsTerminal(ledger'.records[i])
                        /\ ledger'.records[i].content = r.content
                        /\ ledger'.records[i].tombstoned_at = r.tombstoned_at
      OBVIOUS
    <3>1. r \in Record /\ ledger'.records[i] = s
      BY <2>1 DEF IsTerminal, Terminal
    <3>2. /\ s.state = IF i \in denylist THEN "suppressed" ELSE r.state
          /\ s.content = r.content
          /\ s.tombstoned_at = r.tombstoned_at
      <4>1. r \in Record
        BY <3>1
      <4> HIDE DEF r
      <4> QED BY <4>1 DEF Swept, Record, Exists, Terminal
    <3> QED BY <3>1, <3>2 DEF IsTerminal, Terminal
  <2> QED BY <2>2, <2>3
<1> QED BY <1>1, <1>2 DEF Next

\* Nothing brings a removed or an erased review back.
THEOREM TerminalHolds == Spec => TerminalIsForever
<1>1. TypeOK /\ [Next]_vars =>
        [\A i \in Ids :
           /\ ledger.records[i].state = "suppressed" =>
                ledger'.records[i] = ledger.records[i]
           /\ ledger.records[i].state = "tombstoned" =>
                /\ IsTerminal(ledger'.records[i])
                /\ ledger'.records[i].content = ledger.records[i].content
                /\ ledger'.records[i].tombstoned_at = ledger.records[i].tombstoned_at]_vars
  BY StepTerminal
<1> QED BY <1>1, TypeCorrect, PTL DEF Spec, TerminalIsForever

\* PT-05 and PT-06, of one step.
LEMMA StepFirstSight ==
  ASSUME TypeOK, [Next]_vars, NEW i \in Ids, Exists(ledger.records[i])
  PROVE  /\ Exists(ledger'.records[i])
         /\ ledger'.records[i].first_seen_at = ledger.records[i].first_seen_at
         /\ ledger'.records[i].date = ledger.records[i].date
         /\ ledger'.records[i].revision >= ledger.records[i].revision
         /\ \A k \in 1 .. Len(ledger.records[i].history) :
              ledger'.records[i].history[k] = ledger.records[i].history[k]
<1> DEFINE r == ledger.records[i]
<1>0. r \in Record /\ r.revision \in Nat /\ r.history \in Seq(Contents)
  BY TypeFacts, Slots DEF Record
<1>1. CASE UNCHANGED vars \/ Tick
  BY <1>0, <1>1 DEF vars, Tick
<1>2. CASE \E seen \in Observations, reason \in Stops, denylist \in SUBSET Ids :
             Harvest(seen, reason, denylist)
  <2> PICK seen \in Observations, reason \in Stops, denylist \in SUBSET Ids :
             Harvest(seen, reason, denylist)
    BY <1>2
  <2> PICK b \in Record \cup {NoRecord} :
        /\ ledger'.records[i] = Swept(b, i \in denylist)
        /\ \/ b = r
           \/ Live(r) /\ i \in DOMAIN seen /\ b = NextUpdate(r, Delivered(seen)[i], now)
           \/ Live(r) /\ b = NextTouch(r, now)
           \/ /\ Live(r) /\ AbsenceIsMeaningful(ClassifyCompleteness(reason))
              /\ b = NextMissing(r, ClassifyCompleteness(reason),
                                 RemovalConfirmations, now)
    <3>1. r # NoRecord
      BY DEF Exists, NoRecord
    <3> QED BY <3>1, HarvestCases
  <2>n. now \in Nat
    BY TypeFacts
  <2>k. b \in Record /\ b.first_seen_at = r.first_seen_at /\ b.date = r.date
        /\ b.revision >= r.revision
        /\ \A k \in 1 .. Len(r.history) : b.history[k] = r.history[k]
    <3>1. CASE b = r
      BY <1>0, <3>1
    <3>2. CASE Live(r) /\ i \in DOMAIN seen /\ b = NextUpdate(r, Delivered(seen)[i], now)
      <4>1. b.history = Append(r.history, r.content) /\ r.content \in Contents
        BY <1>0, <3>2 DEF Live, NextUpdate, Record
      <4>2. \A k \in 1 .. Len(r.history) : b.history[k] = r.history[k]
        BY <1>0, <4>1, AppendProperties
      <4>3. Delivered(seen)[i] \in Review
        BY <2>n, <3>2, DeliveredReview
      <4>4. b \in Record
        BY <1>0, <2>n, <3>2, <4>3, UpdateType DEF Live
      <4>5. b.first_seen_at = r.first_seen_at /\ b.date = r.date
            /\ b.revision = r.revision + 1
        BY <1>0, <3>2 DEF Live, NextUpdate
      <4> QED BY <1>0, <4>2, <4>4, <4>5
    <3>3. CASE Live(r) /\ b = NextTouch(r, now)
      <4>1. b \in Record
        BY <1>0, <2>n, <3>3, TouchType DEF Live
      <4> QED BY <1>0, <3>3, <4>1 DEF Live, NextTouch, Record
    <3>4. CASE /\ Live(r) /\ AbsenceIsMeaningful(ClassifyCompleteness(reason))
               /\ b = NextMissing(r, ClassifyCompleteness(reason),
                                  RemovalConfirmations, now)
      <4>1. b \in Record
        BY <1>0, <2>n, <3>4, MissingType, RemovalConfirmationsAssumption DEF Live
      <4>2. /\ b.first_seen_at = r.first_seen_at /\ b.date = r.date
            /\ b.revision = r.revision /\ b.history = r.history
        BY <1>0, <2>n, <3>4, MissingFields DEF Live
      <4> QED BY <1>0, <4>1, <4>2
    <3> QED BY <3>1, <3>2, <3>3, <3>4
  <2> DEFINE s == Swept(b, i \in denylist)
  <2>1. /\ s.state = IF i \in denylist THEN "suppressed" ELSE b.state
        /\ s.first_seen_at = b.first_seen_at /\ s.date = b.date
        /\ s.revision = b.revision /\ s.history = b.history
    BY <2>k, SweptFields
  <2>2. b.state # "none"
    BY <2>k DEF Record, Terminal
  <2> QED BY <2>k, <2>1, <2>2 DEF Exists
<1> QED BY <1>1, <1>2 DEF Next

\* The first sighting and the date estimate are those of the insertion.
THEOREM FirstSightHolds == Spec => FirstSightPinned
<1>1. TypeOK /\ [Next]_vars =>
        [\A i \in Ids : Exists(ledger.records[i]) =>
           /\ Exists(ledger'.records[i])
           /\ ledger'.records[i].first_seen_at = ledger.records[i].first_seen_at
           /\ ledger'.records[i].date = ledger.records[i].date
           /\ ledger'.records[i].revision >= ledger.records[i].revision
           /\ \A k \in 1 .. Len(ledger.records[i].history) :
                ledger'.records[i].history[k] = ledger.records[i].history[k]]_vars
  BY StepFirstSight
<1> QED BY <1>1, TypeCorrect, PTL DEF Spec, FirstSightPinned

\* What a batch and a sweep that leave a tombstone have done.
LEMMA StepRemoval ==
  ASSUME IInv, [Next]_vars, NEW i \in Ids,
         ledger'.records[i].state = "tombstoned", ledger.records[i].state # "tombstoned"
  PROVE  /\ now \in absentAt'[i]
         /\ Cardinality(absentAt'[i]) >= RemovalConfirmations
<1> DEFINE r == ledger.records[i]
           A == absentAt[i]
<1>0. TypeOK
  BY DEF IInv
<1>t. /\ r \in Record \cup {NoRecord}
      /\ ledger.last_full_harvest_at \in Nat
      /\ now \in Nat /\ A \in SUBSET Nat
  BY <1>0, TypeFacts
<1>1. CASE UNCHANGED vars \/ Tick
  BY <1>1 DEF vars, Tick
<1>2. CASE \E seen \in Observations, reason \in Stops, denylist \in SUBSET Ids :
             Harvest(seen, reason, denylist)
  <2> PICK seen \in Observations, reason \in Stops, denylist \in SUBSET Ids :
             Harvest(seen, reason, denylist)
    BY <1>2
  <2> DEFINE c == ClassifyCompleteness(reason)
  <2> PICK b \in Record \cup {NoRecord} :
        /\ ledger'.records[i] = Swept(b, i \in denylist)
        /\ \/ b = r
           \/ i \in DOMAIN seen /\ b = NextInsert(NoRecord, Delivered(seen)[i], now)
           \/ r \in Record /\ Live(r) /\ b = NextUpdate(r, Delivered(seen)[i], now)
           \/ r \in Record /\ Live(r) /\ b = NextTouch(r, now)
           \/ /\ r \in Record /\ Live(r) /\ i \notin DOMAIN seen
              /\ Looked(reason) /\ AbsenceIsMeaningful(c)
              /\ ledger.last_full_harvest_at # now
              /\ b = NextMissing(r, c, RemovalConfirmations, now)
    BY <1>0, HarvestCases
  <2>1. b.state = "tombstoned"
    <3>1. CASE b = NoRecord
      <4>1. Swept(b, i \in denylist) = NoRecord
        BY <3>1 DEF Swept, Exists, NoRecord
      <4> QED BY <4>1 DEF NoRecord
    <3>2. CASE b \in Record
      <4>1. Swept(b, i \in denylist).state =
              IF i \in denylist THEN "suppressed" ELSE b.state
        BY <3>2, SweptFields
      <4> QED BY <4>1
    <3> QED BY <3>1, <3>2
  <2>2. CASE b = r
    BY <2>1, <2>2
  <2>3. CASE b = NextInsert(NoRecord, Delivered(seen)[i], now)
    BY <2>1, <2>3 DEF NextInsert, NoRecord, IsTerminal, Terminal
  <2>4. CASE r \in Record /\ Live(r) /\ b = NextUpdate(r, Delivered(seen)[i], now)
    BY <2>1, <2>4 DEF Live, NextUpdate
  <2>5. CASE r \in Record /\ Live(r) /\ b = NextTouch(r, now)
    BY <2>1, <2>5 DEF Live, NextTouch, Record
  <2>6. CASE /\ r \in Record /\ Live(r) /\ i \notin DOMAIN seen
             /\ Looked(reason) /\ AbsenceIsMeaningful(c)
             /\ ledger.last_full_harvest_at # now
             /\ b = NextMissing(r, c, RemovalConfirmations, now)
    <3>1. b.state = IF r.missing_streak + 1 >= RemovalConfirmations
                    THEN "tombstoned" ELSE "unconfirmed"
      BY <1>t, <2>6, MissingFields DEF Live
    <3>2. r.missing_streak + 1 >= RemovalConfirmations
      BY <2>1, <3>1
    <3>3. /\ IsFiniteSet(A)
          /\ \A t \in A : t <= ledger.last_full_harvest_at
          /\ r.missing_streak <= Cardinality(A)
          /\ ledger.last_full_harvest_at <= now
      BY <2>6 DEF IInv, Evidence
    <3>4. now \notin A
      BY <1>t, <2>6, <3>3
    <3>5. absentAt'[i] = A \cup {now}
      <4>1. absentAt'[i] = Witnessed(A, seen, reason, i)
        BY <1>0, HarvestStep
      <4> QED BY <2>6, <4>1 DEF Witnessed
    <3>6. Cardinality(A \cup {now}) = Cardinality(A) + 1 /\ Cardinality(A) \in Nat
      BY <3>3, <3>4, FS_AddElement, FS_CardinalityType
    <3>7. RemovalConfirmations \in Nat /\ r.missing_streak \in Nat
      BY <2>6, RemovalConfirmationsAssumption DEF Record
    <3> QED BY <3>2, <3>3, <3>5, <3>6, <3>7
  <2> QED BY <2>2, <2>3, <2>4, <2>5, <2>6
<1> QED BY <1>1, <1>2 DEF Next

\* A review becomes a tombstone only in a harvest that looked and did not
\* see it, as the last of RemovalConfirmations such instants.
THEOREM RemovalIsConfirmed == Spec => RemovalNeedsConfirmation
<1>1. IInv /\ [Next]_vars =>
        [\A i \in Ids :
           (/\ ledger'.records[i].state = "tombstoned"
            /\ ledger.records[i].state # "tombstoned")
           => /\ now \in absentAt'[i]
              /\ Cardinality(absentAt'[i]) >= RemovalConfirmations]_vars
  BY StepRemoval
<1> QED BY <1>1, Invariance, PTL DEF Spec, RemovalNeedsConfirmation

-----------------------------------------------------------------------------
(* The ledger implements ReviewLifecycle.                                  *)

\* The mapped state of a sound live record and of the others.
LEMMA Mapped ==
  ASSUME NEW r \in Record \cup {NoRecord}
  PROVE  /\ ~Exists(r) => LifecycleStatus(r) = "unknown" /\ LifecycleMisses(r) = 0
         /\ Live(r) => LifecycleStatus(r) = "published"
                       /\ LifecycleMisses(r) = r.missing_streak
         /\ r.state = "tombstoned" => LifecycleStatus(r) = "removed"
                                      /\ LifecycleMisses(r) = 0
         /\ r.state = "suppressed" => LifecycleStatus(r) = "erased"
                                      /\ LifecycleMisses(r) = 0
BY DEF LifecycleStatus, LifecycleMisses, Live, Exists, IsTerminal, Terminal

\* One arrow of the lifecycle, from a record to the one that replaces it.
Arrow(r, s) ==
  \/ /\ LifecycleStatus(s) = LifecycleStatus(r)
     /\ LifecycleMisses(s) = LifecycleMisses(r)
  \/ /\ LifecycleStatus(r) \in {"unknown", "published"}
     /\ LifecycleStatus(s) = "published"
     /\ LifecycleMisses(s) = 0
  \/ /\ LifecycleStatus(r) = "published"
     /\ LifecycleMisses(r) + 1 < RemovalConfirmations
     /\ LifecycleStatus(s) = "published"
     /\ LifecycleMisses(s) = LifecycleMisses(r) + 1
  \/ /\ LifecycleStatus(r) = "published"
     /\ LifecycleMisses(r) + 1 = RemovalConfirmations
     /\ LifecycleStatus(s) = "removed"
     /\ LifecycleMisses(s) = 0
  \/ /\ LifecycleStatus(r) \in {"published", "removed"}
     /\ LifecycleStatus(s) = "erased"
     /\ LifecycleMisses(s) = 0

\* Every case of a merge is one arrow.  The sweep makes of any case the
\* erasure of what was there; a fresh record is never swept.
LEMMA StepArrow ==
  ASSUME IInv, [Next]_vars, NEW i \in Ids
  PROVE  Arrow(ledger.records[i], ledger'.records[i])
<1> DEFINE r == ledger.records[i]
           s == ledger'.records[i]
<1>0. TypeOK
  BY DEF IInv
<1>t. r \in Record \cup {NoRecord} /\ now \in Nat
  BY <1>0, TypeFacts
<1>1. CASE UNCHANGED vars \/ Tick
  BY <1>1 DEF vars, Tick, Arrow
<1>2. CASE \E seen \in Observations, reason \in Stops, denylist \in SUBSET Ids :
             Harvest(seen, reason, denylist)
  <2> PICK seen \in Observations, reason \in Stops, denylist \in SUBSET Ids :
             Harvest(seen, reason, denylist)
    BY <1>2
  <2> DEFINE c == ClassifyCompleteness(reason)
             b == Batched(ledger, seen, reason, denylist, i)
  <2>s. reason \in StopReasons /\ s = Swept(b, i \in denylist)
    BY <1>0, HarvestStep
  <2>b. b \in Record \cup {NoRecord}
    BY <1>0, <2>s, TypeFacts, BatchedType
  <2>f. i \in DOMAIN seen => Delivered(seen)[i] \in Review
    BY <1>t, DeliveredReview
  <2>l. Live(r) => r \in Record /\ ~IsTerminal(r) /\ Exists(r)
    BY <1>t, Slots DEF Live
  <2>e. i \notin denylist => s = b
    BY <2>s DEF Swept
  <2>d. i \in denylist => s = NoRecord \/ (s \in Record /\ s.state = "suppressed")
    <3>1. s \in Record \cup {NoRecord}
      BY <2>s, <2>b, SweptType
    <3>2. i \in denylist /\ Exists(s) => s.state = "suppressed"
      BY <2>s, <2>b, SweptDenied
    <3> QED BY <3>1, <3>2, Slots
  <2>k. /\ Live(r) => r.missing_streak < RemovalConfirmations /\ r.missing_streak \in Nat
        /\ RemovalConfirmations \in Nat
    BY <2>l, RemovalConfirmationsAssumption DEF IInv, Evidence, Record
  <2>n. s = NoRecord => b = NoRecord
    <3>1. ASSUME b \in Record PROVE Swept(b, i \in denylist) # NoRecord
      <4> HIDE DEF b
      <4>1. Swept(b, i \in denylist).state =
              IF i \in denylist THEN "suppressed" ELSE b.state
        BY <3>1, SweptFields
      <4>2. b.state # "none"
        BY <3>1 DEF Record, Terminal
      <4> QED BY <4>1, <4>2 DEF NoRecord
    <3> QED BY <2>s, <2>b, <3>1
  \* Kept, and perhaps erased.
  <2>1. CASE b = r
    <3>1. CASE i \notin denylist
      BY <2>e, <2>1, <3>1 DEF Arrow
    <3>2. CASE i \in denylist /\ s = NoRecord
      BY <2>n, <2>1, <3>2 DEF Arrow
    <3>3. CASE s \in Record /\ s.state = "suppressed"
      <4>1. r \in Record
        <5>1. Swept(NoRecord, i \in denylist) = NoRecord
          BY DEF Swept, Exists, NoRecord
        <5>2. NoRecord \notin Record
          BY DEF NoRecord, Record
        <5> QED BY <1>t, <2>s, <2>1, <3>3, <5>1, <5>2
      <4>2. Live(r) \/ r.state = "tombstoned" \/ r.state = "suppressed"
        BY <4>1, Slots DEF Live, IsTerminal, Terminal
      <4> QED BY <1>t, <3>3, <4>2, Mapped DEF Arrow
    <3> QED BY <2>d, <3>1, <3>2, <3>3
  <2>2. CASE /\ i \in DOMAIN seen /\ i \notin denylist /\ r = NoRecord
             /\ b = NextInsert(NoRecord, Delivered(seen)[i], now)
    <3>1. s \in Record
      BY <1>t, <2>e, <2>f, <2>2, InsertType
    <3>2. Live(s) /\ s.missing_streak = 0
      BY <2>e, <2>2 DEF NextInsert, NoRecord, Live, Exists, IsTerminal, Terminal
    <3>3. ~Exists(r)
      BY <2>2 DEF Exists, NoRecord
    <3> QED BY <1>t, <3>1, <3>2, <3>3, Mapped DEF Arrow
  <2>3. CASE /\ i \in DOMAIN seen /\ i \notin denylist /\ Live(r)
             /\ b = NextUpdate(r, Delivered(seen)[i], now)
    <3>1. s \in Record
      BY <1>t, <2>e, <2>f, <2>l, <2>3, UpdateType
    <3>2. Live(s) /\ s.missing_streak = 0
      BY <2>e, <2>l, <2>3 DEF NextUpdate, Live, Exists, IsTerminal, Terminal
    <3> QED BY <1>t, <2>3, <3>1, <3>2, Mapped DEF Arrow
  <2>4. CASE i \notin denylist /\ Live(r) /\ b = NextTouch(r, now)
    <3>1. s \in Record
      BY <1>t, <2>e, <2>l, <2>4, TouchType
    <3>2. Live(s) /\ s.missing_streak = 0
      BY <2>e, <2>l, <2>4 DEF NextTouch, Record, Live, Exists, IsTerminal, Terminal
    <3> QED BY <1>t, <2>4, <3>1, <3>2, Mapped DEF Arrow
  <2>5. CASE Live(r) /\ Looked(reason) /\ b = NextMissing(r, c, RemovalConfirmations, now)
    <3>1. AbsenceIsMeaningful(c)
      BY <2>5, <2>s, LookedMeaning
    <3>2. /\ b.state = IF r.missing_streak + 1 >= RemovalConfirmations
                       THEN "tombstoned" ELSE "unconfirmed"
          /\ b.missing_streak = r.missing_streak + 1
      BY <1>t, <2>l, <2>5, <3>1, MissingFields
    <3>3. b \in Record
      BY <1>t, <2>l, <2>k, <2>5, <3>1, MissingType
    <3>4. CASE i \in denylist
      <4>1. s \in Record /\ s.state = "suppressed"
        BY <2>d, <2>n, <3>3, <3>4 DEF NoRecord, Record
      <4> QED BY <1>t, <2>5, <4>1, Mapped DEF Arrow
    <3>5. CASE i \notin denylist /\ r.missing_streak + 1 >= RemovalConfirmations
      <4>1. s = b /\ s.state = "tombstoned"
        BY <2>e, <3>2, <3>5
      <4>2. r.missing_streak + 1 = RemovalConfirmations
        BY <2>k, <2>5, <3>5
      <4> QED BY <1>t, <2>5, <3>3, <4>1, <4>2, Mapped DEF Arrow
    <3>6. CASE i \notin denylist /\ ~(r.missing_streak + 1 >= RemovalConfirmations)
      <4>1. s = b /\ s.state = "unconfirmed" /\ s.missing_streak = r.missing_streak + 1
        BY <2>e, <3>2, <3>6
      <4>2. Live(s)
        BY <4>1 DEF Live, Exists, IsTerminal, Terminal
      <4>3. r.missing_streak + 1 < RemovalConfirmations
        BY <2>k, <2>5, <3>6
      <4> QED BY <1>t, <2>5, <3>3, <4>1, <4>2, <4>3, Mapped DEF Arrow
    <3> QED BY <3>4, <3>5, <3>6
  <2> QED BY <1>0, <1>t, <2>s, <2>1, <2>2, <2>3, <2>4, <2>5, TypeFacts, BatchCases
<1> QED BY <1>1, <1>2 DEF Next

\* The ledger keeps the promise of the abstract lifecycle.
THEOREM ImplementsLifecycle == Spec => KeepsLifecycle
<1>1. Init => Lifecycle!LifecycleInit
  <2> SUFFICES ASSUME Init PROVE Lifecycle!LifecycleInit
    OBVIOUS
  <2>1. \A i \in Ids : ledger.records[i] = NoRecord
    BY DEF Init, CreateLedger
  <2>2. LifecycleStatus(NoRecord) = "unknown" /\ LifecycleMisses(NoRecord) = 0
    BY DEF LifecycleStatus, LifecycleMisses, Exists, NoRecord, IsTerminal, Terminal
  <2> QED BY <2>1, <2>2 DEF Lifecycle!LifecycleInit
<1>2. IInv /\ [Next]_vars => [Lifecycle!LifecycleNext]_(Lifecycle!lifecycleVars)
  <2> SUFFICES ASSUME IInv, [Next]_vars PROVE Lifecycle!LifecycleNext
    OBVIOUS
  <2>1. ASSUME NEW i \in Ids
        PROVE  \/ Lifecycle!Stay(i) \/ Lifecycle!See(i) \/ Lifecycle!Miss(i)
               \/ Lifecycle!Remove(i) \/ Lifecycle!Erase(i)
    <3>1. Arrow(ledger.records[i], ledger'.records[i])
      BY StepArrow
    <3> QED BY <3>1 DEF Arrow, Lifecycle!Stay, Lifecycle!See, Lifecycle!Miss,
                        Lifecycle!Remove, Lifecycle!Erase
  <2> QED BY <2>1 DEF Lifecycle!LifecycleNext
<1> QED BY <1>1, <1>2, Invariance, PTL DEF Spec, KeepsLifecycle, Lifecycle!LifecycleSpec
=============================================================================
