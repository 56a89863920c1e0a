--------------------------- MODULE PipelineProofs ---------------------------
(***************************************************************************)
(* What the ten stages keep for any source, any publisher, any thresholds, *)
(* any denylist and any number of runs and crashes: the ledger is never    *)
(* ahead of the artifacts, what it removed stays off the site, a run with  *)
(* nothing new to show rewrites nothing, and the gate holds to the last    *)
(* write.                                                                  *)
(*                                                                         *)
(* The argument: the artifacts that are no longer to do are those of the   *)
(* run's ledger, and that ledger has removed whatever the durable one has. *)
(***************************************************************************)
EXTENDS Pipeline, FoldLemmas

Names == {"reviews", "latest", "stats", "index"}

\* How far stage 10 may be.
Remainders == {<<"reviews", "latest", "stats", "index">>, <<"latest", "stats", "index">>,
             <<"stats", "index">>, <<"index">>, << >>}
Written(todo) ==
  CASE todo = <<"reviews", "latest", "stats", "index">> -> {}
    [] todo = <<"latest", "stats", "index">> -> {"reviews"}
    [] todo = <<"stats", "index">> -> {"reviews", "latest"}
    [] todo = <<"index">> -> {"reviews", "latest", "stats"}
    [] OTHER -> Names

\* A slot of a ledger holds a record or NoRecord: it has a state.
Slotted(l) ==
  /\ \A i \in Ids : /\ "state" \in DOMAIN l.records[i]
                    /\ Exists(l.records[i]) \/ l.records[i] = NoRecord
  /\ l = [records |-> [i \in Ids |-> l.records[i]],
          last_full_harvest_at |-> l.last_full_harvest_at]

\* A ledger is read back from its file as it was written.
LEMMA ReadBack == ASSUME NEW l, Slotted(l) PROVE FromJSON(ToJSON(l)) = l
<1> DEFINE there == {j \in Ids : Exists(l.records[j])}
           json == ToJSON(l)
<1>1. /\ json.records = [i \in there |-> l.records[i]]
      /\ json.last_full_harvest_at = l.last_full_harvest_at
  BY DEF ToJSON
<1>2. ASSUME NEW i \in Ids
      PROVE  (IF i \in DOMAIN json.records THEN json.records[i] ELSE NoRecord) = l.records[i]
  BY <1>1, <1>2 DEF Slotted
<1> HIDE DEF json
<1>3. FromJSON(json) = [records |-> [i \in Ids |-> l.records[i]],
                       last_full_harvest_at |-> l.last_full_harvest_at]
  BY <1>1, <1>2 DEF FromJSON
<1> QED BY <1>3 DEF Slotted, json

PipelineInv ==
  /\ disk = [name \in Names |-> disk[name]]
  /\ Slotted(state)
  /\ RemovedStaysDown
  /\ DOMAIN Published \subseteq Ids
  /\ run = Idle \/ run.pc = "publishing"
  /\ run.pc = "publishing" =>
       /\ {"pc", "todo", "ledger"} \subseteq DOMAIN run
       /\ run.todo \in Remainders
       /\ Slotted(run.ledger)
       /\ \A i \in Ids : IsTerminal(state.records[i]) => IsTerminal(run.ledger.records[i])
       /\ \A name \in Written(run.todo) :
            OnDisk(name) /\ disk[name].hashed = Hashed(name, run.ledger)

LEMMA ArtifactNames == Range(Artifacts) = Names
<1>1. DOMAIN Artifacts = {1, 2, 3, 4}
  BY DEF Artifacts
<1>2. /\ Artifacts[1] = "reviews" /\ Artifacts[2] = "latest"
      /\ Artifacts[3] = "stats" /\ Artifacts[4] = "index"
  BY DEF Artifacts
<1> QED BY <1>1, <1>2 DEF Range, Names
-----------------------------------------------------------------------------
\* Reconciliation never brings back what is terminal (decide.mjs, the guards
\* of the transitions, and the sweep).

LEMMA ChangeHasState ==
  ASSUME NEW prior, NEW observed, NEW i, NEW erased, NEW ctx, NEW t,
         "state" \in DOMAIN prior.records[i]
  PROVE  /\ "state" \in DOMAIN Change(prior, observed, i, erased, ctx, t)
         /\ IsTerminal(prior.records[i]) =>
              Change(prior, observed, i, erased, ctx, t) = NoRecord
<1> DEFINE r == prior.records[i]
<1>1. \A review : /\ "state" \in DOMAIN NextInsert(r, review, t)
                  /\ "state" \in DOMAIN NextUpdate(r, review, t)
  BY DEF NextInsert, NextUpdate, NoRecord
<1>2. "state" \in DOMAIN NextTouch(r, t)
  BY DEF NextTouch, NoRecord
<1>3. \A c, n : "state" \in DOMAIN NextMissing(r, c, n, t)
  BY DEF NextMissing, NoRecord
<1>4. "state" \in DOMAIN NoRecord
  BY DEF NoRecord
<1>5. \A review, denied :
        /\ "state" \in DOMAIN ObservedChange(r, review, denied, t)
        /\ denied \in BOOLEAN /\ IsTerminal(r) => ObservedChange(r, review, denied, t) = NoRecord
  <2> TAKE review, denied
  <2>1. "state" \in DOMAIN ObservedChange(r, review, denied, t)
    BY <1>1, <1>2, <1>4 DEF ObservedChange
  <2>2. denied \in BOOLEAN /\ IsTerminal(r) =>
          DecideObserved(r, review, denied) \in {"SUPPRESSED", "IGNORED_TERMINAL"}
    <3>1. DecideObserved(r, review, TRUE) = "SUPPRESSED"
      BY DEF DecideObserved
    <3>2. IsTerminal(r) => DecideObserved(r, review, FALSE) = "IGNORED_TERMINAL"
      BY DEF DecideObserved, IsTerminal, Terminal, Exists
    <3> QED BY <3>1, <3>2
  <2> QED BY <2>1, <2>2 DEF ObservedChange
<1>6. /\ "state" \in DOMAIN AbsentChange(r, ctx, t)
      /\ IsTerminal(r) => AbsentChange(r, ctx, t) = NoRecord
  BY <1>3, <1>4 DEF AbsentChange, DecideAbsent
<1>7. (i \in erased) \in BOOLEAN
  OBVIOUS
<1> HIDE DEF r
<1> QED BY <1>4, <1>5, <1>6, <1>7 DEF Change, r

LEMMA ReconcileKeepsTerminal ==
  ASSUME NEW prior, Slotted(prior), NEW observed, NEW reason, NEW denied, NEW n, NEW t
  PROVE  LET next == ReconcileLedger(prior, observed, reason, denied, n, t)
         IN  /\ Slotted(next)
             /\ \A i \in Ids : IsTerminal(prior.records[i]) => IsTerminal(next.records[i])
<1> DEFINE ctx == Context(prior, reason, n, t)
           changes == [i \in Ids |-> Change(prior, observed, i, denied, ctx, t)]
           batched == ApplyBatch(prior.records, changes)
           swept == SweepSuppressions(batched, denied)
           next == ReconcileLedger(prior, observed, reason, denied, n, t)
<1>1. next.records = swept
  BY DEF ReconcileLedger, RecordHarvest
<1> HIDE DEF next
<1>2. ASSUME NEW i \in Ids
      PROVE  /\ "state" \in DOMAIN batched[i]
             /\ Exists(batched[i]) \/ batched[i] = NoRecord
             /\ IsTerminal(prior.records[i]) => IsTerminal(batched[i])
  <2>1. /\ "state" \in DOMAIN prior.records[i]
        /\ Exists(prior.records[i]) \/ prior.records[i] = NoRecord
        /\ changes[i] = Change(prior, observed, i, denied, ctx, t)
    BY DEF Slotted
  <2>2. /\ "state" \in DOMAIN changes[i]
        /\ IsTerminal(prior.records[i]) => changes[i] = NoRecord
    BY <2>1, ChangeHasState
  <2> HIDE DEF ctx, changes
  <2>3. batched[i] = IF Exists(changes[i]) THEN changes[i] ELSE prior.records[i]
    BY DEF ApplyBatch
  <2> HIDE DEF batched
  <2> QED BY <2>1, <2>2, <2>3 DEF Exists, NoRecord
<1> HIDE DEF batched
<1>3. ASSUME NEW i \in Ids
      PROVE  /\ "state" \in DOMAIN swept[i]
             /\ Exists(swept[i]) \/ swept[i] = NoRecord
             /\ IsTerminal(batched[i]) => IsTerminal(swept[i])
  <2> DEFINE c == IF i \in denied /\ batched[i].state # "suppressed"
                  THEN NextSuppress(batched[i]) ELSE NoRecord
  <2>1. swept[i] = IF Exists(c) THEN c ELSE batched[i]
    BY DEF SweepSuppressions, ApplyBatch
  <2>2. \/ c = NoRecord
        \/ c = [batched[i] EXCEPT !.state = "suppressed"]
    BY DEF NextSuppress
  <2>3. c = NoRecord => ~Exists(c)
    BY DEF Exists, NoRecord
  <2>4. c = [batched[i] EXCEPT !.state = "suppressed"] =>
          "state" \in DOMAIN c /\ IsTerminal(c)
    BY <1>2 DEF IsTerminal, Terminal
  <2> HIDE DEF c, swept
  <2> QED BY <1>2, <2>1, <2>2, <2>3, <2>4
<1>4. /\ swept = [i \in Ids |-> swept[i]]
      /\ next = [records |-> next.records, last_full_harvest_at |-> next.last_full_harvest_at]
  BY DEF SweepSuppressions, ApplyBatch, next, ReconcileLedger, RecordHarvest
<1> HIDE DEF swept
<1>5. Slotted(next) /\ \A i \in Ids : IsTerminal(prior.records[i]) => IsTerminal(next.records[i])
  BY <1>1, <1>2, <1>3, <1>4 DEF Slotted
<1> QED BY <1>5 DEF next
-----------------------------------------------------------------------------
LEMMA TodoShrinks ==
  ASSUME NEW todo \in Remainders, todo # << >>
  PROVE  /\ Tail(todo) \in Remainders /\ Head(todo) \in Names
         /\ Written(Tail(todo)) = Written(todo) \cup {Head(todo)}
<1>1. CASE todo = <<"reviews", "latest", "stats", "index">>
  BY <1>1 DEF Remainders, Written, Names
<1>2. CASE todo = <<"latest", "stats", "index">>
  BY <1>2 DEF Remainders, Written, Names
<1>3. CASE todo = <<"stats", "index">>
  BY <1>3 DEF Remainders, Written, Names
<1>4. CASE todo = <<"index">>
  BY <1>4 DEF Remainders, Written, Names
<1> QED BY <1>1, <1>2, <1>3, <1>4 DEF Remainders

LEMMA PipelineStarts == ASSUME Init PROVE PipelineInv
<1>1. disk = [name \in Names |-> Missing]
  BY ArtifactNames DEF Init
<1>2. ~OnDisk("reviews") /\ DOMAIN Published = {}
  BY <1>1 DEF OnDisk, Published, Names
<1>3. Slotted(state)
  BY DEF Init, CreateLedger, Slotted, NoRecord
<1>4. run = Idle /\ run.pc # "publishing"
  BY DEF Init, Idle
<1> QED BY <1>1, <1>2, <1>3, <1>4 DEF PipelineInv, RemovedStaysDown

\* What the reviews artifact of a ledger publishes is live in it.
LEMMA SealedReviews ==
  ASSUME NEW l, NEW t, NEW name \in Names
  PROVE  /\ Seal(name, l, t) # Missing /\ Seal(name, l, t).hashed = Hashed(name, l)
         /\ DOMAIN Hashed("reviews", l).reviews \subseteq Ids
         /\ \A i \in DOMAIN Hashed("reviews", l).reviews : ~IsTerminal(l.records[i])
<1>1. Seal(name, l, t) # Missing /\ Seal(name, l, t).hashed = Hashed(name, l)
  BY DEF Seal, Missing
<1>2. Hashed("reviews", l).reviews = Reviews(l)
  BY DEF Hashed
<1>3. DOMAIN Reviews(l) = PublishableRecords(l)
  BY DEF Reviews
<1> QED BY <1>1, <1>2, <1>3 DEF PublishableRecords

LEMMA StageArtifactKept == ASSUME PipelineInv, StageArtifact PROVE PipelineInv'
<1> DEFINE name == Head(run.todo)
           new == Seal(name, run.ledger, now)
<1>1. /\ run.pc = "publishing" /\ run.todo # << >> /\ state' = state
      /\ \/ disk' = disk /\ ArtifactUnchanged(name, new)
         \/ disk' = [disk EXCEPT ![name] = new]
      /\ run' = [run EXCEPT !.todo = Tail(@)]
  BY DEF StageArtifact
<1>2. name \in Names /\ disk = [n \in Names |-> disk[n]]
  BY <1>1, TodoShrinks DEF PipelineInv
<1>3. new # Missing /\ new.hashed = Hashed(name, run.ledger)
  BY <1>2, SealedReviews
<1> HIDE DEF name, new
<1>4. /\ run'.pc = "publishing" /\ run'.todo = Tail(run.todo) /\ run'.ledger = run.ledger
      /\ {"pc", "todo", "ledger"} \subseteq DOMAIN run'
  BY <1>1 DEF PipelineInv
<1>5. /\ disk' = [n \in Names |-> disk'[n]]
      /\ \A n \in Names \ {name} : disk'[n] = disk[n]
      /\ disk'[name] # Missing /\ disk'[name].hashed = Hashed(name, run.ledger)
      /\ disk'[name] = disk[name] \/ disk'[name] = new
  BY <1>1, <1>2, <1>3 DEF ArtifactUnchanged, OnDisk
<1>6. Tail(run.todo) \in Remainders /\ Written(Tail(run.todo)) = Written(run.todo) \cup {name}
  BY <1>1, TodoShrinks DEF PipelineInv, name
<1>7. ASSUME NEW n \in Written(run'.todo)
      PROVE  disk'[n] # Missing /\ disk'[n].hashed = Hashed(n, run.ledger)
  <2>1. CASE n = name
    BY <1>5, <2>1
  <2>2. CASE n # name
    <3>1. n \in Written(run.todo) /\ n \in Names
      BY <1>1, <1>4, <1>6, <2>2 DEF PipelineInv, Remainders, Written, Names
    <3> QED BY <1>1, <1>5, <2>2, <3>1 DEF PipelineInv, OnDisk
  <2> QED BY <2>1, <2>2
<1>8. DOMAIN Published' \subseteq Ids /\ \A i \in DOMAIN Published' : ~IsTerminal(state.records[i])
  <2>1. CASE name = "reviews"
    <3>1. Published' = Hashed("reviews", run.ledger).reviews
      BY <1>5, <2>1 DEF Published, OnDisk
    <3>2. /\ DOMAIN Published' \subseteq Ids
          /\ \A i \in DOMAIN Published' : ~IsTerminal(run.ledger.records[i])
      BY <1>2, <3>1, SealedReviews
    <3> QED BY <1>1, <3>2 DEF PipelineInv
  <2>2. CASE name # "reviews"
    <3>1. disk'["reviews"] = disk["reviews"]
      BY <1>5, <2>2 DEF Names
    <3>2. Published' = Published
      BY <3>1 DEF Published, OnDisk
    <3> QED BY <3>2 DEF PipelineInv, RemovedStaysDown
  <2> QED BY <2>1, <2>2
<1> QED BY <1>1, <1>4, <1>5, <1>6, <1>7, <1>8
        DEF PipelineInv, RemovedStaysDown, Slotted, OnDisk

LEMMA WriteLedgerKept == ASSUME PipelineInv, WriteLedger PROVE PipelineInv'
<1>1. /\ run.pc = "publishing" /\ run.todo = << >> /\ state' = run.ledger
      /\ run' = Idle /\ disk' = disk
  BY ReadBack DEF WriteLedger, PipelineInv
<1>2. Written(run.todo) = Names
  BY <1>1 DEF Written
<1>3. OnDisk("reviews") /\ disk["reviews"].hashed = Hashed("reviews", run.ledger)
  BY <1>1, <1>2 DEF PipelineInv, Names
<1>4. \A i \in DOMAIN Published : ~IsTerminal(run.ledger.records[i])
  BY <1>3, SealedReviews DEF Published, Names
<1>5. Published' = Published
  BY <1>1 DEF Published, OnDisk
<1>6. Slotted(state)'
  BY <1>1 DEF PipelineInv, Slotted
<1>7. run'.pc # "publishing"
  BY <1>1 DEF Idle
<1> QED BY <1>1, <1>4, <1>5, <1>6, <1>7 DEF PipelineInv, RemovedStaysDown

LEMMA RunStagesKept ==
  ASSUME PipelineInv, NEW look, NEW quarantined, NEW force, NEW read, RunStages(look, quarantined, force, read)
  PROVE  PipelineInv'
<1> DEFINE l == StageReconcile(look, quarantined, now + 1)
<1>1. UNCHANGED <<state, disk>>
  BY DEF RunStages
<1>2. Slotted(l) /\ \A i \in Ids : IsTerminal(state.records[i]) => IsTerminal(l.records[i])
  BY ReconcileKeepsTerminal DEF PipelineInv, StageReconcile
<1>3. CASE run' = run
  BY <1>1, <1>3
     DEF PipelineInv, RemovedStaysDown, Published, OnDisk, Slotted
<1>4. CASE run' = [ pc |-> "publishing", todo |-> Artifacts, ledger |-> l, force |-> force,
                    seen |-> {IdentityHash(source[k]) : k \in 1 .. look.seen},
                    quarantined |-> Cardinality(quarantined),
                    observed |-> DOMAIN Observed(look, quarantined, now + 1),
                    finished |-> look.reason \in {"target_reached", "exhausted"},
                    counts |-> AbsenceIsMeaningful(ClassifyCompleteness(look.reason)),
                    read |-> read ]
  <2> HIDE DEF l
  <2>1. /\ run'.pc = "publishing" /\ run'.todo = Artifacts /\ run'.ledger = l
        /\ {"pc", "todo", "ledger"} \subseteq DOMAIN run'
    BY <1>4
  <2>2. Artifacts \in Remainders /\ Written(Artifacts) = {}
    BY DEF Artifacts, Remainders, Written
  <2> QED BY <1>1, <1>2, <2>1, <2>2
          DEF PipelineInv, RemovedStaysDown, Published, OnDisk, Slotted
<1> HIDE DEF l
<1>5. \/ run' = run
      \/ run' = [ pc |-> "publishing", todo |-> Artifacts, ledger |-> l, force |-> force,
                  seen |-> {IdentityHash(source[k]) : k \in 1 .. look.seen},
                  quarantined |-> Cardinality(quarantined),
                  observed |-> DOMAIN Observed(look, quarantined, now + 1),
                  finished |-> look.reason \in {"target_reached", "exhausted"},
                  counts |-> AbsenceIsMeaningful(ClassifyCompleteness(look.reason)),
                  read |-> read ]
  BY DEF RunStages, l
<1> QED BY <1>3, <1>4, <1>5

LEMMA PipelineKept == PipelineInv /\ [Next]_vars => PipelineInv'
<1> SUFFICES ASSUME PipelineInv, [Next]_vars PROVE PipelineInv'
  OBVIOUS
<1>1. ASSUME UNCHANGED <<state, disk, run>> PROVE PipelineInv'
  BY <1>1 DEF PipelineInv, RemovedStaysDown, Published, OnDisk, Slotted
<1>2. ASSUME NEW r \in OnSource, Post(r) PROVE PipelineInv'
  BY <1>1, <1>2 DEF Post, SourceMoves
<1>3. ASSUME NEW k \in DOMAIN source, Withdraw(k) PROVE PipelineInv'
  BY <1>1, <1>3 DEF Withdraw, SourceMoves
<1>4. ASSUME NEW k \in DOMAIN source, NEW r \in OnSource, Edit(k, r) PROVE PipelineInv'
  BY <1>1, <1>4 DEF Edit, SourceMoves
<1>5. ASSUME NEW i \in Ids, Erase(i) PROVE PipelineInv'
  BY <1>1, <1>5 DEF Erase
<1>6. CASE Harvest
  BY <1>6, RunStagesKept DEF Harvest
<1>7. CASE StageArtifact
  BY <1>7, StageArtifactKept
<1>8. CASE WriteLedger
  BY <1>8, WriteLedgerKept
<1>9. CASE Crash
  BY <1>9 DEF Crash, Idle, PipelineInv, RemovedStaysDown, Published, OnDisk, Slotted
<1>10. CASE UNCHANGED vars
  BY <1>1, <1>10 DEF vars
<1> QED BY <1>2, <1>3, <1>4, <1>5, <1>6, <1>7, <1>8, <1>9, <1>10 DEF Next

LEMMA PipelineHolds == Spec => []PipelineInv
  BY PipelineStarts, PipelineKept, PTL DEF Spec

\* What the ledger has removed or erased is not on the site, whatever crashed
\* or was rejected since (the artifacts go first, the ledger last).
THEOREM RemovedIsDown == Spec => []RemovedStaysDown
<1>1. PipelineInv => RemovedStaysDown
  BY DEF PipelineInv
<1> QED BY <1>1, PipelineHolds, PTL

\* PUB-01: a ledger is written only when every artifact of it is on disk.
THEOREM LedgerGoesLast == Spec => StateNeverAhead
<1> DEFINE Behind == state' # state =>
             \A name \in Range(Artifacts) : OnDisk(name) /\ disk[name].hashed = Hashed(name, state')
<1>1. PipelineInv /\ [Next]_vars => [Behind]_vars
  <2> SUFFICES ASSUME PipelineInv, Next, state' # state, NEW name \in Names
               PROVE  OnDisk(name) /\ disk[name].hashed = Hashed(name, state')
    BY ArtifactNames
  <2>1. WriteLedger
    BY DEF Next, Post, Withdraw, Edit, SourceMoves, Erase, Harvest, RunStages, StageArtifact, Crash
  <2>2. run.pc = "publishing" /\ run.todo = << >> /\ state' = run.ledger
    BY <2>1, ReadBack DEF WriteLedger, PipelineInv
  <2>3. name \in Written(run.todo)
    BY <2>2 DEF Written
  <2> QED BY <2>2, <2>3 DEF PipelineInv
<1> QED BY <1>1, PipelineHolds, PTL DEF Spec, StateNeverAhead

-----------------------------------------------------------------------------
(* The durable ledger is a ledger of Harvests: every write of stage 10 is  *)
(* one harvest of it, every other step leaves it alone or lets time pass.  *)
(* Harvests starts its clock at 1, the runs are counted from 1.            *)

Instant == IF now = 0 THEN 1 ELSE now

H == INSTANCE HarvestsProofs WITH
  ledger <- state, now <- Instant, absentAt <- absentAt,
  RemovalConfirmations <- DefaultRemovalConfirmations, Stops <- StopReasons

LEMMA HarvestsAssumptions ==
  /\ DefaultRemovalConfirmations \in Nat /\ DefaultRemovalConfirmations >= 2
  /\ StopReasons \subseteq H!StopReasons
  /\ MaxTime \in Nat /\ MaxRevision \in Nat
BY LimitsAssumption DEF DefaultRemovalConfirmations, StopReasons, H!StopReasons

\* The definitions an instance brings with it are those of Ledger and
\* Reconcile: they have another name, and the same body.
LEMMA SameRecords ==
  /\ H!NoRecord = NoRecord /\ H!CreateLedger = CreateLedger
  /\ \A r : (H!Exists(r) <=> Exists(r)) /\ (H!IsTerminal(r) <=> IsTerminal(r))
  /\ \A r, review, t : H!NextInsert(r, review, t) = NextInsert(r, review, t)
  /\ \A r, review, t : H!NextUpdate(r, review, t) = NextUpdate(r, review, t)
  /\ \A r, t : H!NextTouch(r, t) = NextTouch(r, t)
  /\ \A c : H!AbsenceIsMeaningful(c) <=> AbsenceIsMeaningful(c)
  /\ \A r, c, n, t : H!NextMissing(r, c, n, t) = NextMissing(r, c, n, t)
  /\ \A r : H!NextSuppress(r) = NextSuppress(r)
<1>1. H!NoRecord = NoRecord /\ H!CreateLedger = CreateLedger
  BY DEF H!NoRecord, NoRecord, H!CreateLedger, CreateLedger, H!Never, Never
<1>2. \A r : (H!Exists(r) <=> Exists(r)) /\ (H!IsTerminal(r) <=> IsTerminal(r))
  BY DEF H!Exists, Exists, H!IsTerminal, IsTerminal, H!Terminal, Terminal
<1>3. \A c : H!AbsenceIsMeaningful(c) <=> AbsenceIsMeaningful(c)
  BY DEF H!AbsenceIsMeaningful, AbsenceIsMeaningful
<1>4. H!Never = Never
  BY DEF H!Never, Never
<1>5. ASSUME NEW r, NEW review, NEW t
      PROVE  /\ H!NextInsert(r, review, t) = NextInsert(r, review, t)
             /\ H!NextUpdate(r, review, t) = NextUpdate(r, review, t)
             /\ H!NextTouch(r, t) = NextTouch(r, t)
             /\ H!NextSuppress(r) = NextSuppress(r)
  BY <1>1, <1>2, <1>4 DEF H!NextInsert, NextInsert, H!NextUpdate, NextUpdate,
     H!NextTouch, NextTouch, H!NextSuppress, NextSuppress
<1>6. ASSUME NEW r, NEW c, NEW n, NEW t
      PROVE  H!NextMissing(r, c, n, t) = NextMissing(r, c, n, t)
  BY <1>1, <1>2, <1>3, <1>4 DEF H!NextMissing, NextMissing
<1> QED BY <1>1, <1>2, <1>3, <1>5, <1>6

LEMMA SameReconciler ==
  ASSUME NEW l, NEW observed, NEW reason, NEW denied, NEW n, NEW t
  PROVE  H!ReconcileLedger(l, observed, reason, denied, n, t)
           = ReconcileLedger(l, observed, reason, denied, n, t)
<1>1. H!ClassifyCompleteness(reason) = ClassifyCompleteness(reason)
  BY Zenon DEF H!ClassifyCompleteness, ClassifyCompleteness
<1>2. H!Context(l, reason, n, t) = Context(l, reason, n, t)
  BY <1>1, SameRecords DEF H!Context, Context
<1>3. ASSUME NEW r, NEW review, NEW erased, NEW ctx
      PROVE  /\ H!DecideObserved(r, review, erased) = DecideObserved(r, review, erased)
             /\ H!DecideAbsent(r, ctx) = DecideAbsent(r, ctx)
  BY SameRecords, Zenon DEF H!DecideObserved, DecideObserved, H!DecideAbsent, DecideAbsent
<1>4. ASSUME NEW i, NEW ctx
      PROVE  H!Change(l, observed, i, denied, ctx, t) = Change(l, observed, i, denied, ctx, t)
  <2>1. ASSUME NEW r, NEW review, NEW erased
        PROVE  H!ObservedChange(r, review, erased, t) = ObservedChange(r, review, erased, t)
    <3> DEFINE d == DecideObserved(r, review, erased)
    <3>1. H!DecideObserved(r, review, erased) = d
      BY <1>3
    <3> HIDE DEF d
    <3>2. CASE d = "INSERTED"
      BY <3>1, <3>2, SameRecords DEF H!ObservedChange, ObservedChange, d
    <3>3. CASE d = "UPDATED"
      BY <3>1, <3>3, SameRecords DEF H!ObservedChange, ObservedChange, d
    <3>4. CASE d = "UNCHANGED"
      BY <3>1, <3>4, SameRecords DEF H!ObservedChange, ObservedChange, d
    <3>5. CASE d \notin {"INSERTED", "UPDATED", "UNCHANGED"}
      BY <3>1, <3>5, SameRecords DEF H!ObservedChange, ObservedChange, d
    <3> QED BY <3>2, <3>3, <3>4, <3>5
  <2>2. \A r : H!AbsentChange(r, ctx, t) = AbsentChange(r, ctx, t)
    BY <1>3, SameRecords DEF H!AbsentChange, AbsentChange
  <2> QED BY <2>1, <2>2, SameRecords DEF H!Change, Change
<1>5. \A records, changes : H!ApplyBatch(records, changes) = ApplyBatch(records, changes)
  BY SameRecords DEF H!ApplyBatch, ApplyBatch
<1>6. \A records : H!SweepSuppressions(records, denied) = SweepSuppressions(records, denied)
  BY <1>5, SameRecords DEF H!SweepSuppressions, SweepSuppressions
<1>7. \A records, c : H!RecordHarvest(records, l, c, t) = RecordHarvest(records, l, c, t)
  BY SameRecords DEF H!RecordHarvest, RecordHarvest
<1> QED BY <1>2, <1>4, <1>5, <1>6, <1>7 DEF H!ReconcileLedger, ReconcileLedger

LEMMA MergeOf ==
  ASSUME NEW l, NEW seen, NEW reason, NEW denied, NEW t, Instant = t
  PROVE  H!Merge(l, seen, reason, denied) =
           ReconcileLedger(l, [i \in DOMAIN seen |-> [content |-> seen[i], date |-> t]],
                           reason, denied, DefaultRemovalConfirmations, t)
BY SameReconciler DEF H!Merge, H!Delivered

\* The ledger in hand is the durable one with a harvest of the source merged.
RunInv ==
  /\ now # 0
  /\ {"pc", "todo", "ledger", "seen", "observed", "counts"} \subseteq DOMAIN run
  /\ WithinBounds(run.ledger)
  /\ \E seen \in H!Observations, reason \in StopReasons, denied \in SUBSET Ids :
       /\ DOMAIN seen = run.observed
       /\ run.counts = AbsenceIsMeaningful(ClassifyCompleteness(reason))
       /\ run.ledger = H!Merge(state, seen, reason, denied)

HarvestInv ==
  /\ source \in Seq(OnSource)
  /\ denylist \subseteq Ids
  /\ now \in Nat
  /\ run.pc = "publishing" => RunInv

LEMMA SourceMovesKept ==
  ASSUME HarvestInv, source' \in Seq(OnSource), UNCHANGED <<denylist, state, now, run>>
  PROVE  HarvestInv'
BY DEF HarvestInv, RunInv, WithinBounds, H!Merge, H!Delivered, H!Observations, Instant

LEMMA SourceStaysASequence ==
  ASSUME source \in Seq(OnSource)
  PROVE  /\ \A r \in OnSource : Post(r) => source' \in Seq(OnSource)
         /\ \A k \in DOMAIN source : Withdraw(k) => source' \in Seq(OnSource)
         /\ \A k \in DOMAIN source, r \in OnSource : Edit(k, r) => source' \in Seq(OnSource)
<1>1. ASSUME NEW r \in OnSource, Post(r) PROVE source' \in Seq(OnSource)
  BY <1>1 DEF Post
<1>2. ASSUME NEW k \in DOMAIN source, Withdraw(k) PROVE source' \in Seq(OnSource)
  <2>1. source' = SubSeq(source, 1, k - 1) \o SubSeq(source, k + 1, Len(source))
    BY <1>2 DEF Withdraw, RemoveAt
  <2>2. SubSeq(source, 1, k - 1) \in Seq(OnSource) /\ SubSeq(source, k + 1, Len(source)) \in Seq(OnSource)
    OBVIOUS
  <2> QED BY <2>1, <2>2
<1>3. ASSUME NEW k \in DOMAIN source, NEW r \in OnSource, Edit(k, r)
      PROVE  source' \in Seq(OnSource)
  BY <1>3 DEF Edit
<1> QED BY <1>1, <1>2, <1>3

\* What a run tells the reconciler is an observation of Harvests.
LEMMA HarvestIsObservation ==
  ASSUME source \in Seq(OnSource), NEW look \in Looks, NEW quarantined, NEW t
  PROVE  /\ look.reason \in StopReasons /\ look.seen \in 0 .. Len(source)
         /\ \E seen \in H!Observations :
              /\ DOMAIN seen = DOMAIN Observed(look, quarantined, t)
              /\ Observed(look, quarantined, t) =
                   [i \in DOMAIN seen |-> [content |-> seen[i], date |-> t]]
<1>1. look.reason \in StopReasons /\ look.seen \in 0 .. Len(source)
  BY CapAssumption DEF Looks, StopReason, StopReasons
<1> DEFINE kept == {k \in 1 .. look.seen : k \notin quarantined}
           of(i) == CHOOSE k \in kept : IdentityHash(source[k]) = i
           ids == {IdentityHash(source[k]) : k \in kept}
           seen == [i \in ids |-> ContentHash(source[of(i)])]
<1>2. Observed(look, quarantined, t) = [i \in ids |-> [content |-> seen[i], date |-> t]]
  BY DEF Observed
<1>3. \A k \in kept : source[k] \in OnSource
  BY <1>1
<1>4. ids \subseteq Ids
  BY <1>3, IdsAssumption DEF IdentityHash, OnSource
<1>5. ASSUME NEW i \in ids PROVE ContentHash(source[of(i)]) \in Contents
  <2>1. of(i) \in kept
    OBVIOUS
  <2> QED BY <1>3, <2>1, ContentsAssumption DEF ContentHash, OnSource
<1> HIDE DEF of, kept
<1>6. seen \in [ids -> Contents]
  BY <1>5
<1>7. seen \in H!Observations
  BY <1>4, <1>6 DEF H!Observations
<1>8. DOMAIN seen = ids
  OBVIOUS
<1> HIDE DEF seen, ids
<1> QED BY <1>1, <1>2, <1>7, <1>8

LEMMA RunStagesHarvests ==
  ASSUME HarvestInv, NEW look \in Looks, NEW quarantined, NEW force, NEW read,
         RunStages(look, quarantined, force, read)
  PROVE  HarvestInv'
<1> DEFINE t == now + 1
           l == StageReconcile(look, quarantined, t)
           observed == DOMAIN Observed(look, quarantined, t)
<1>1. /\ UNCHANGED <<source, denylist, state>> /\ run.pc = "idle"
      /\ WithinBounds(l) /\ now' = t /\ t \in Nat /\ t # 0
  BY DEF RunStages, HarvestInv
<1>2. \/ run' = run
      \/ run' = [ pc |-> "publishing", todo |-> Artifacts, ledger |-> l, force |-> force,
                  seen |-> {IdentityHash(source[k]) : k \in 1 .. look.seen},
                  quarantined |-> Cardinality(quarantined), observed |-> observed,
                  finished |-> look.reason \in {"target_reached", "exhausted"},
                  counts |-> AbsenceIsMeaningful(ClassifyCompleteness(look.reason)),
                  read |-> read ]
  BY DEF RunStages
<1>3. PICK seen \in H!Observations :
        /\ DOMAIN seen = observed
        /\ Observed(look, quarantined, t) = [i \in DOMAIN seen |-> [content |-> seen[i], date |-> t]]
  BY HarvestIsObservation DEF HarvestInv
<1>4. look.reason \in StopReasons
  BY HarvestIsObservation DEF HarvestInv
<1>5. Instant' = t
  BY <1>1 DEF Instant
<1>6. l = ReconcileLedger(state, [i \in DOMAIN seen |-> [content |-> seen[i], date |-> t]],
                          look.reason, denylist, DefaultRemovalConfirmations, t)
  BY <1>3 DEF StageReconcile
<1> HIDE DEF l, t, observed
<1>7. l = H!Merge(state, seen, look.reason, denylist)'
  <2> DEFINE merged == H!Merge(state, seen, look.reason, denylist)
  <2>1. Instant' = t => merged' =
          ReconcileLedger(state, [i \in DOMAIN seen |-> [content |-> seen[i], date |-> t]],
                          look.reason, denylist, DefaultRemovalConfirmations, t)
    BY <1>1, SameReconciler DEF H!Merge, H!Delivered
  <2> QED BY <1>5, <1>6, <2>1
<1>8. CASE run' = run
  BY <1>1, <1>8 DEF HarvestInv
<1>9. CASE run' # run
  <2>1. /\ run'.pc = "publishing" /\ run'.ledger = l /\ run'.observed = observed
        /\ run'.counts = AbsenceIsMeaningful(ClassifyCompleteness(look.reason))
        /\ {"pc", "todo", "ledger", "seen", "observed", "counts"} \subseteq DOMAIN run'
    BY <1>2, <1>9
  <2>2. WithinBounds(run'.ledger)
    BY <1>1, <2>1
  <2>3. WithinBounds(run.ledger)'
    BY <2>2 DEF WithinBounds
  <2>4. \E s \in H!Observations, denied \in SUBSET Ids :
          /\ DOMAIN s = run'.observed
          /\ run'.ledger = H!Merge(state, s, look.reason, denied)'
    <3>1. denylist \in SUBSET Ids
      BY DEF HarvestInv
    <3> QED BY <1>1, <1>3, <1>7, <2>1, <3>1 DEF H!Merge, H!Delivered
  <2>5. H!Observations' = H!Observations
    BY DEF H!Observations
  <2>6. RunInv'
    BY <1>1, <1>4, <2>1, <2>3, <2>4, <2>5 DEF RunInv, H!Merge, H!Delivered
  <2> QED BY <1>1, <2>6 DEF HarvestInv
<1> QED BY <1>8, <1>9

LEMMA HarvestInvKept == HarvestInv /\ PipelineInv /\ [Next]_vars => HarvestInv'
<1> SUFFICES ASSUME HarvestInv, PipelineInv, [Next]_vars PROVE HarvestInv'
  OBVIOUS
<1>1. source \in Seq(OnSource)
  BY DEF HarvestInv
<1>2. ASSUME NEW r \in OnSource, Post(r) PROVE HarvestInv'
  BY <1>1, <1>2, SourceStaysASequence, SourceMovesKept DEF Post, SourceMoves
<1>3. ASSUME NEW k \in DOMAIN source, Withdraw(k) PROVE HarvestInv'
  BY <1>1, <1>3, SourceStaysASequence, SourceMovesKept DEF Withdraw, SourceMoves
<1>4. ASSUME NEW k \in DOMAIN source, NEW r \in OnSource, Edit(k, r) PROVE HarvestInv'
  BY <1>1, <1>4, SourceStaysASequence, SourceMovesKept DEF Edit, SourceMoves
<1>5. ASSUME NEW i \in Ids, Erase(i) PROVE HarvestInv'
  BY <1>5 DEF Erase, HarvestInv
<1>6. CASE Harvest
  BY <1>6, RunStagesHarvests DEF Harvest
<1>7. CASE StageArtifact
  <2>1. /\ UNCHANGED <<source, denylist, state, now>> /\ run.pc = "publishing"
        /\ run' = [run EXCEPT !.todo = Tail(@)]
    BY <1>7 DEF StageArtifact
  <2>2. /\ run'.ledger = run.ledger /\ run'.counts = run.counts /\ run'.observed = run.observed
        /\ DOMAIN run' = DOMAIN run
    BY <2>1
  <2> QED BY <2>1, <2>2 DEF HarvestInv, RunInv, WithinBounds, H!Merge, H!Delivered, H!Observations, Instant
<1>8. CASE WriteLedger
  BY <1>8 DEF WriteLedger, HarvestInv, Idle
<1>9. CASE Crash
  BY <1>9 DEF Crash, HarvestInv, Idle
<1>10. CASE UNCHANGED vars
  BY <1>1, <1>10, SourceMovesKept DEF vars
<1> QED BY <1>2, <1>3, <1>4, <1>5, <1>6, <1>7, <1>8, <1>9, <1>10 DEF Next

LEMMA HarvestInvHolds == Spec => []HarvestInv
<1>1. Init => HarvestInv
  BY DEF Init, HarvestInv, Idle
<1> QED BY <1>1, HarvestInvKept, PipelineHolds, PTL DEF Spec

\* run-stages.mjs writes a ledger, and only in stage 10: what it writes is the
\* merge of one harvest into the ledger it read, whatever was published,
\* rejected or lost in a crash between.
THEOREM ImplementsHarvests == Spec => H!Spec
<1>1. Init => H!Init
  BY SameRecords DEF Init, H!Init, Instant
<1>2. HarvestInv /\ PipelineInv /\ [Next]_vars => [H!Next]_(H!vars)
  <2> SUFFICES ASSUME HarvestInv, PipelineInv, [Next]_vars PROVE [H!Next]_(H!vars)
    OBVIOUS
  <2>1. CASE UNCHANGED <<state, now, absentAt>>
    BY <2>1 DEF H!vars, Instant
  <2>2. CASE Harvest
    <3>1. UNCHANGED <<state, histories>> /\ now' = now + 1 /\ now < MaxTime
      BY <2>2 DEF Harvest, RunStages
    <3>2. CASE now = 0
      BY <3>1, <3>2 DEF H!vars, Instant, histories
    <3>3. CASE now # 0
      <4>1. H!Tick
        BY <3>1, <3>3 DEF H!Tick, Instant, histories, HarvestInv
      <4> QED BY <4>1 DEF H!Next
    <3> QED BY <3>2, <3>3
  <2>3. CASE WriteLedger
    <3>1. /\ run.pc = "publishing" /\ state' = run.ledger /\ now' = now /\ Recorded
      BY <2>3, ReadBack DEF WriteLedger, PipelineInv
    <3>2. RunInv
      BY <3>1 DEF HarvestInv
    <3>3. PICK seen \in H!Observations, reason \in StopReasons, denied \in SUBSET Ids :
            /\ DOMAIN seen = run.observed
            /\ run.counts = AbsenceIsMeaningful(ClassifyCompleteness(reason))
            /\ run.ledger = H!Merge(state, seen, reason, denied)
      BY <3>2 DEF RunInv
    <3>4. Instant = now /\ Instant' = Instant
      BY <3>1, <3>2 DEF RunInv, Instant
    <3>5. H!WithinBounds(state')
      BY <3>1, <3>2, SameRecords DEF RunInv, WithinBounds, H!WithinBounds
    <3>6. H!Looked(reason) <=> run.counts
      BY <3>3 DEF H!Looked, AbsenceIsMeaningful, ClassifyCompleteness, StopReasons
    <3>7. H!Witness(seen, reason)
      BY <3>1, <3>3, <3>4, <3>6 DEF Recorded, H!Witness
    <3>8. H!Harvest(seen, reason, denied)
      BY <3>1, <3>3, <3>4, <3>5, <3>7 DEF H!Harvest
    <3> QED BY <3>8 DEF H!Next
  <2> QED BY <2>1, <2>2, <2>3 DEF Next, Post, Withdraw, Edit, SourceMoves, Erase, StageArtifact, Crash, vars, histories
<1> QED BY <1>1, <1>2, HarvestInvHolds, PipelineHolds, PTL DEF Spec, H!Spec

\* Whatever a harvest delivered at the instant of the last run, merging it into
\* the durable ledger gives one that passes the self-check.
MergesAreSound ==
  \A seen \in H!Observations, reason \in StopReasons, denied \in SUBSET Ids :
    LET next == H!Merge(state, seen, reason, denied)
    IN  /\ next \in H!LedgerType
        /\ \A i \in Ids : H!Sound(next.records[i], Instant)
        /\ H!CheckLedgerInvariants(next)

LEMMA MergesStaySound == Spec => []MergesAreSound
<1>1. H!IInv => MergesAreSound
  BY HarvestsAssumptions, H!MergeIsSound DEF MergesAreSound
<1>2. H!Spec => []H!IInv
  BY HarvestsAssumptions, H!Invariance
<1> QED BY <1>1, <1>2, ImplementsHarvests, PTL

\* The self-check of stage 6 (ERR-INTERNAL-INVARIANT) never ends a run: every
\* ledger a run reconciles passes it, whether the gate then lets it publish or
\* not.  RunStages leaves that error path out for this reason.
THEOREM SelfCheckNeverEndsARun ==
  Spec => [][\A look \in Looks, quarantined \in SUBSET Nat, force \in Forces, read \in Reads :
               RunStages(look, quarantined, force, read)
                 => CheckLedgerInvariants(StageReconcile(look, quarantined, now'))]_vars
<1> DEFINE Passes == \A look \in Looks, quarantined \in SUBSET Nat, force \in Forces, read \in Reads :
             RunStages(look, quarantined, force, read)
               => CheckLedgerInvariants(StageReconcile(look, quarantined, now'))
<1>1. HarvestInv /\ MergesAreSound' => Passes
  <2> SUFFICES ASSUME HarvestInv, MergesAreSound', NEW look \in Looks,
                      NEW quarantined \in SUBSET Nat, NEW force \in Forces, NEW read \in Reads,
                      RunStages(look, quarantined, force, read)
               PROVE  CheckLedgerInvariants(StageReconcile(look, quarantined, now'))
    OBVIOUS
  <2> DEFINE t == now + 1
             l == StageReconcile(look, quarantined, t)
  <2>1. UNCHANGED <<source, denylist, state>> /\ now' = t /\ Instant' = t
    BY DEF RunStages, HarvestInv, Instant
  <2> HIDE DEF t
  <2>2. look.reason \in StopReasons
    BY HarvestIsObservation DEF HarvestInv
  <2>3. PICK seen \in H!Observations :
          /\ DOMAIN seen = DOMAIN Observed(look, quarantined, t)
          /\ Observed(look, quarantined, t) = [i \in DOMAIN seen |-> [content |-> seen[i], date |-> t]]
    BY HarvestIsObservation DEF HarvestInv
  <2>4. l = H!ReconcileLedger(state', [i \in DOMAIN seen |-> [content |-> seen[i], date |-> Instant']],
                              look.reason, denylist, DefaultRemovalConfirmations, Instant')
    BY <2>1, <2>3, SameReconciler DEF StageReconcile
  <2>5. denylist \in SUBSET Ids
    BY DEF HarvestInv
  <2> HIDE DEF l
  <2>6. H!CheckLedgerInvariants(l)
    BY <2>2, <2>4, <2>5 DEF MergesAreSound, H!Merge, H!Delivered, H!Observations
  <2>7. CheckLedgerInvariants(l)
    BY <2>6, SameRecords
       DEF H!CheckLedgerInvariants, CheckLedgerInvariants, H!CheckRecord, CheckRecord,
           H!Never, Never
  <2> QED BY <2>1, <2>7 DEF l
<1> HIDE DEF Passes
<1>2. Spec => [][Passes]_vars
  BY <1>1, HarvestInvHolds, MergesStaySound, PTL DEF Spec
<1> QED BY <1>2 DEF Passes

\* What Harvests keeps, the durable ledger keeps: it passes the self-check and
\* has no stamp of the future, a streak never counts more than the harvests
\* that looked, and each review has the life ReviewLifecycle promises.
THEOREM DurableLedgerLaws ==
  Spec => /\ []H!LedgerSound
          /\ []H!StreakIsEvidence
          /\ H!TerminalIsForever
          /\ H!FirstSightPinned
          /\ H!RemovalNeedsConfirmation
          /\ H!KeepsLifecycle
<1>1. H!Spec => []H!LedgerSound
  BY HarvestsAssumptions, H!SelfCheckNeverFails
<1>2. H!Spec => []H!StreakIsEvidence
  BY HarvestsAssumptions, H!StreaksAreEvidence
<1>3. H!Spec => H!TerminalIsForever
  BY HarvestsAssumptions, H!TerminalHolds
<1>4. H!Spec => H!FirstSightPinned
  BY HarvestsAssumptions, H!FirstSightHolds
<1>5. H!Spec => H!RemovalNeedsConfirmation
  BY HarvestsAssumptions, H!RemovalIsConfirmed
<1>6. H!Spec => H!KeepsLifecycle
  BY HarvestsAssumptions, H!ImplementsLifecycle
<1> QED BY <1>1, <1>2, <1>3, <1>4, <1>5, <1>6, ImplementsHarvests, PTL

-----------------------------------------------------------------------------
(* FR-055, end to end.  The reconciler counts the harvests that did not    *)
(* OBSERVE a review and whose reason counts, the requirement means those   *)
(* that looked to the end and did not FIND it.  The two part at the cap (a *)
(* capped harvest counts) and at a quarantined record (which was found and *)
(* not observed), and nowhere else: without either the histories agree.    *)

HistoriesAgree ==
  /\ goneAt = absentAt
  /\ run.pc = "publishing" =>
       run.seen = run.observed /\ run.finished = run.counts

LEMMA RunsAgree ==
  ASSUME MaxQuarantined = 0, HarvestInv, Len(source) < Cap, HistoriesAgree, Harvest
  PROVE  HistoriesAgree'
<1>0. PICK look \in Looks, force \in Forces, read \in Reads :
        \E q \in {q \in SUBSET (1 .. look.seen) : Cardinality(q) <= MaxQuarantined} :
          RunStages(look, q, force, read)
  BY DEF Harvest
<1>1. PICK quarantined \in {q \in SUBSET (1 .. look.seen) : Cardinality(q) <= MaxQuarantined} :
        RunStages(look, quarantined, force, read)
  BY <1>0
<1>2. /\ look.seen \in 0 .. Len(source)
      /\ (look.reason \in {"target_reached", "exhausted"}) =
           AbsenceIsMeaningful(ClassifyCompleteness(look.reason))
  BY CapAssumption
     DEF Looks, StopReason, HarvestInv, AbsenceIsMeaningful, ClassifyCompleteness
<1>3. quarantined = {}
  <2>1. quarantined \subseteq 1 .. look.seen /\ Cardinality(quarantined) <= 0
    OBVIOUS
  <2>2. IsFiniteSet(quarantined)
    <3>1. Len(source) \in Nat /\ look.seen \in Int
      BY <1>2 DEF HarvestInv
    <3>2. IsFiniteSet(1 .. look.seen)
      BY <3>1, FS_Interval
    <3> QED BY <2>1, <3>2, FS_Subset
  <2>3. Cardinality(quarantined) = 0
    BY <2>1, <2>2, FS_CardinalityType
  <2> QED BY <2>2, <2>3, FS_EmptySet
<1>4. DOMAIN Observed(look, {}, now + 1) = {IdentityHash(source[k]) : k \in 1 .. look.seen}
  BY DEF Observed
<1>5. UNCHANGED histories
  BY <1>1 DEF RunStages
<1>6. CASE run' = run
  BY <1>5, <1>6 DEF HistoriesAgree, histories
<1>7. CASE run' # run
  <2>1. run' = [ pc |-> "publishing", todo |-> Artifacts,
                 ledger |-> StageReconcile(look, quarantined, now + 1), force |-> force,
                 seen |-> {IdentityHash(source[k]) : k \in 1 .. look.seen},
                 quarantined |-> Cardinality(quarantined),
                 observed |-> DOMAIN Observed(look, quarantined, now + 1),
                 finished |-> look.reason \in {"target_reached", "exhausted"},
                 counts |-> AbsenceIsMeaningful(ClassifyCompleteness(look.reason)),
                 read |-> read ]
    BY <1>1, <1>7 DEF RunStages
  <2>2. run'.seen = run'.observed
    BY <1>3, <1>4, <2>1
  <2>3. run'.finished = run'.counts
    BY <1>2, <2>1
  <2> QED BY <1>5, <2>2, <2>3 DEF HistoriesAgree, histories
<1> QED BY <1>6, <1>7

LEMMA HistoriesAgreeKept ==
  ASSUME MaxQuarantined = 0
  PROVE  HarvestInv /\ Len(source) < Cap /\ HistoriesAgree /\ [Next]_vars => HistoriesAgree'
<1> SUFFICES ASSUME HarvestInv, Len(source) < Cap, HistoriesAgree, [Next]_vars
             PROVE  HistoriesAgree'
  OBVIOUS
<1>1. ASSUME UNCHANGED <<run, histories>> PROVE HistoriesAgree'
  BY <1>1 DEF HistoriesAgree, histories
<1>2. CASE Harvest
  BY <1>2, RunsAgree
<1>3. CASE StageArtifact
  <2>1. /\ run.pc = "publishing" /\ UNCHANGED histories
        /\ run' = [run EXCEPT !.todo = Tail(@)]
    BY <1>3 DEF StageArtifact
  <2>2. /\ run'.seen = run.seen /\ run'.observed = run.observed
        /\ run'.finished = run.finished /\ run'.counts = run.counts
    BY <2>1
  <2> QED BY <2>1, <2>2 DEF HistoriesAgree, histories
<1>4. CASE WriteLedger
  <2>1. run.pc = "publishing" /\ run' = Idle /\ Recorded
    BY <1>4 DEF WriteLedger
  <2>2. goneAt' = absentAt'
    BY <2>1 DEF HistoriesAgree, Recorded
  <2> QED BY <2>1, <2>2 DEF HistoriesAgree, Idle
<1>5. CASE Crash
  BY <1>5 DEF Crash, HistoriesAgree, Idle, histories
<1> QED BY <1>1, <1>2, <1>3, <1>4, <1>5
        DEF Next, Post, Withdraw, Edit, SourceMoves, Erase, vars

LEMMA SameSizes ==
  ASSUME NEW S
  PROVE  /\ H!IsFiniteSet(S) <=> IsFiniteSet(S)
         /\ H!Cardinality(S) = Cardinality(S)
<1>1. H!IsFiniteSet(S) <=> IsFiniteSet(S)
  BY Zenon DEF H!IsFiniteSet, IsFiniteSet
<1>2. H!Cardinality(S) = Cardinality(S)
  BY Zenon DEF H!Cardinality, Cardinality
<1> QED BY <1>1, <1>2

\* A review leaves the live records for good only as the last of
\* ConfiguredConfirmations recorded full looks without it, whatever crashed or
\* was rejected between, as long as the listing stays below the cap, nothing is
\* quarantined, and no more confirmations are configured than the default the
\* reconciler falls back on.
THEOREM TombstonesAreGone ==
  ASSUME MaxQuarantined = 0, ConfiguredConfirmations \in Nat,
         ConfiguredConfirmations <= DefaultRemovalConfirmations
  PROVE  Spec /\ [](Len(source) < Cap) => TombstoneMeansGone
<1> DEFINE Gone == \A i \in Ids : Buried(i) =>
             /\ Cardinality(goneAt'[i]) >= ConfiguredConfirmations
             /\ now \in goneAt'[i]
           Confirmed == \A i \in Ids :
             (/\ state'.records[i].state = "tombstoned"
              /\ state.records[i].state # "tombstoned")
             => /\ Instant \in absentAt'[i]
                /\ H!Cardinality(absentAt'[i]) >= DefaultRemovalConfirmations
<1>1. Init => HistoriesAgree
  BY DEF Init, HistoriesAgree, Idle
<1>2. Spec /\ [](Len(source) < Cap) => []HistoriesAgree
  BY <1>1, HistoriesAgreeKept, HarvestInvHolds, PTL DEF Spec
<1>3. Spec => [][Confirmed]_(H!vars)
  BY DurableLedgerLaws, PTL DEF H!RemovalNeedsConfirmation
<1>a. Spec => []H!IInv
  BY HarvestsAssumptions, H!Invariance, ImplementsHarvests, PTL
<1>4. HarvestInv /\ PipelineInv /\ HistoriesAgree' /\ H!IInv' /\ [Next]_vars /\ [Confirmed]_(H!vars) => [Gone]_vars
  <2> SUFFICES ASSUME HarvestInv, PipelineInv, HistoriesAgree', H!IInv', [Next]_vars,
                      [Confirmed]_(H!vars), NEW i \in Ids, Buried(i)
               PROVE  Cardinality(goneAt'[i]) >= ConfiguredConfirmations /\ now \in goneAt'[i]
    OBVIOUS
  <2>1. state' # state
    BY DEF Buried
  <2>2. Confirmed
    BY <2>1 DEF H!vars
  <2>3. WriteLedger
    BY <2>1 DEF Next, Post, Withdraw, Edit, SourceMoves, Erase, Harvest, RunStages, StageArtifact, Crash, vars
  <2>4. Instant = now
    BY <2>3 DEF WriteLedger, HarvestInv, RunInv, Instant
  <2>5. goneAt'[i] = absentAt'[i]
    BY DEF HistoriesAgree
  <2>6. now \in goneAt'[i] /\ Cardinality(goneAt'[i]) >= DefaultRemovalConfirmations
    BY <2>2, <2>4, <2>5, SameSizes DEF Buried
  <2>7. Cardinality(goneAt'[i]) \in Nat
    <3>1. IsFiniteSet(absentAt'[i])
      BY SameSizes DEF H!IInv, H!Evidence
    <3> QED BY <2>5, <3>1, FS_CardinalityType
  <2> QED BY <2>6, <2>7 DEF DefaultRemovalConfirmations
<1> QED BY <1>2, <1>3, <1>4, <1>a, HarvestInvHolds, PipelineHolds, PTL
        DEF Spec, TombstoneMeansGone

-----------------------------------------------------------------------------
(* A run with nothing new to show writes nothing (IR-06).  While no run has *)
(* died since the ledger was written, what is on disk is what that ledger  *)
(* projects to, but for the artifacts the current run has written already; *)
(* and the projection of the next ledger is the same unless a visitor sees *)
(* a difference, for a review keeps its date and its first sighting.       *)

LEMMA ReconcileKeepsSight ==
  ASSUME NEW prior, NEW observed, NEW reason, NEW denied, NEW n, NEW t,
         NEW i \in Ids, prior.records[i] \in Record
  PROVE  LET next == ReconcileLedger(prior, observed, reason, denied, n, t)
         IN  /\ next.records[i].date = prior.records[i].date
             /\ next.records[i].first_seen_at = prior.records[i].first_seen_at
<1> DEFINE ctx == Context(prior, reason, n, t)
           changes == [j \in Ids |-> Change(prior, observed, j, denied, ctx, t)]
           batched == ApplyBatch(prior.records, changes)
           swept == SweepSuppressions(batched, denied)
           r == prior.records[i]
           Sight(s) == /\ s.date = r.date /\ s.first_seen_at = r.first_seen_at
                       /\ {"state", "date", "first_seen_at"} \subseteq DOMAIN s
<1>1. r \in Record /\ Exists(r) /\ Sight(r)
  BY DEF Record, Exists, Terminal
<1>2. ReconcileLedger(prior, observed, reason, denied, n, t).records = swept
  BY DEF ReconcileLedger, RecordHarvest
<1>3. changes[i] = NoRecord \/ Sight(changes[i])
  <2>1. changes[i] = Change(prior, observed, i, denied, ctx, t)
    OBVIOUS
  <2> HIDE DEF changes, ctx
  <2>2. ASSUME NEW review
        PROVE  Sight(NextUpdate(r, review, t)) \/ NextUpdate(r, review, t) = NoRecord
    BY DEF NextUpdate
  <2>3. Sight(NextTouch(r, t)) \/ NextTouch(r, t) = NoRecord
    BY <1>1 DEF NextTouch, Record
  <2>4. ASSUME NEW c, NEW m
        PROVE  Sight(NextMissing(r, c, m, t)) \/ NextMissing(r, c, m, t) = NoRecord
    BY <1>1 DEF NextMissing, Record
  <2>5. ASSUME NEW review, NEW erased \in BOOLEAN
        PROVE  \/ Sight(ObservedChange(r, review, erased, t))
               \/ ObservedChange(r, review, erased, t) = NoRecord
    <3>1. DecideObserved(r, review, erased) # "INSERTED"
      <4>1. DecideObserved(r, review, TRUE) = "SUPPRESSED"
        BY DEF DecideObserved
      <4>2. IsTerminal(r) => DecideObserved(r, review, FALSE) = "IGNORED_TERMINAL"
        BY DEF DecideObserved, IsTerminal, Terminal, Exists
      <4>3. ~IsTerminal(r) =>
              DecideObserved(r, review, FALSE) \in {"UNCHANGED", "UPDATED"}
        BY <1>1 DEF DecideObserved, IsTerminal, Terminal, Exists
      <4> QED BY <4>1, <4>2, <4>3
    <3> HIDE DEF Sight, r
    <3> QED BY <2>2, <2>3, <3>1 DEF ObservedChange
  <2>6. Sight(AbsentChange(r, ctx, t)) \/ AbsentChange(r, ctx, t) = NoRecord
    <3> HIDE DEF Sight, r
    <3> QED BY <2>4 DEF AbsentChange
  <2>7. (i \in denied) \in BOOLEAN
    OBVIOUS
  <2>8. Change(prior, observed, i, denied, ctx, t) \in
          {ObservedChange(r, observed[i], i \in denied, t), AbsentChange(r, ctx, t), NoRecord}
    BY DEF Change
  <2> HIDE DEF Sight, r
  <2> QED BY <2>1, <2>5, <2>6, <2>7, <2>8
<1>4. Sight(batched[i])
  <2>1. batched[i] = IF Exists(changes[i]) THEN changes[i] ELSE r
    BY DEF ApplyBatch
  <2> HIDE DEF batched, changes, Sight, r
  <2> QED BY <1>1, <1>3, <2>1 DEF Exists, NoRecord
<1>5. Sight(swept[i])
  <2> DEFINE c == IF i \in denied /\ batched[i].state # "suppressed"
                  THEN NextSuppress(batched[i]) ELSE NoRecord
  <2>1. swept[i] = IF Exists(c) THEN c ELSE batched[i]
    BY DEF SweepSuppressions, ApplyBatch
  <2>2. c = NoRecord \/ c = [batched[i] EXCEPT !.state = "suppressed"]
    BY DEF NextSuppress
  <2>3. Sight([batched[i] EXCEPT !.state = "suppressed"])
    <3> HIDE DEF batched
    <3> QED BY <1>4
  <2> HIDE DEF c, swept, batched, Sight
  <2> QED BY <1>4, <2>1, <2>2, <2>3 DEF Exists, NoRecord
<1> HIDE DEF swept
<1> QED BY <1>2, <1>5

\* What stays of the state the run started from in the ledger it publishes.
Continues(old, new) ==
  /\ AwaitsFirstLook(new) => AwaitsFirstLook(old)
  /\ \A i \in PublishableRecords(old) :
       /\ new.records[i].date = old.records[i].date
       /\ new.records[i].first_seen_at = old.records[i].first_seen_at

\* To a visitor who sees no difference there is none in the hashes either.
LEMMA SameToAVisitor ==
  ASSUME NEW old, NEW new, Continues(old, new), Visible(new) = Visible(old),
         ~(AwaitsFirstLook(old) /\ ~AwaitsFirstLook(new)), NEW name
  PROVE  Hashed(name, new) = Hashed(name, old)
<1> DEFINE P == PublishableRecords(old)
<1>1. PublishableRecords(new) = P
  <2>1. DOMAIN Visible(new) = PublishableRecords(new) /\ DOMAIN Visible(old) = P
    BY DEF Visible
  <2> QED BY <2>1
<1>2. ASSUME NEW i \in P
      PROVE  ProjectReview(new.records[i]) = ProjectReview(old.records[i])
  <2>1. /\ Visible(new)[i] = <<new.records[i].content, new.records[i].revision>>
        /\ Visible(old)[i] = <<old.records[i].content, old.records[i].revision>>
    BY <1>1 DEF Visible
  <2>2. /\ new.records[i].content = old.records[i].content
        /\ new.records[i].revision = old.records[i].revision
    BY <2>1
  <2> QED BY <2>2 DEF ProjectReview, Continues
<1>3. Reviews(new) = Reviews(old)
  <2> HIDE DEF P
  <2>1. /\ Reviews(new) = [i \in P |-> ProjectReview(new.records[i])]
        /\ Reviews(old) = [i \in P |-> ProjectReview(old.records[i])]
    BY <1>1 DEF Reviews, P
  <2> QED BY <1>2, <2>1
<1>4. ComputeStats(new) = ComputeStats(old)
  BY <1>1 DEF ComputeStats
<1>5. AwaitsFirstLook(new) = AwaitsFirstLook(old)
  BY DEF Continues, AwaitsFirstLook
<1>6. Base(new) = Base(old)
  BY <1>4, <1>5 DEF Base, AwaitsFirstLook
<1> QED BY <1>3, <1>6 DEF Hashed

Rewritten == IF run.pc = "publishing" THEN Written(run.todo) ELSE {}

TidyInv ==
  /\ ~torn => \A name \in Names \ Rewritten :
                OnDisk(name) => disk[name].hashed = Hashed(name, state)
  /\ run.pc = "publishing" => Continues(state, run.ledger)

\* The ledger keeps its type: every publishable record is a record.
LEMMA RecordsAreTyped ==
  ASSUME H!IInv, NEW i \in PublishableRecords(state)
  PROVE  i \in Ids /\ state.records[i] \in Record
<1>1. i \in Ids /\ Exists(state.records[i])
  BY DEF PublishableRecords
<1>2. state.records[i] \in H!Record \cup {H!NoRecord}
  BY <1>1 DEF H!IInv, H!TypeOK, H!LedgerType
<1>3. H!Record = Record
  BY DEF H!Record, Record, H!Terminal, Terminal
<1>4. ~Exists(NoRecord)
  BY DEF Exists, NoRecord
<1> QED BY <1>1, <1>2, <1>3, <1>4, SameRecords

LEMMA TidyUnmoved ==
  ASSUME TidyInv, UNCHANGED <<torn, disk, state, run>> PROVE TidyInv'
BY DEF TidyInv, Rewritten, OnDisk, Continues, PublishableRecords, AwaitsFirstLook

LEMMA RunStagesTidy ==
  ASSUME HarvestInv, H!IInv, TidyInv, NEW look, NEW quarantined, NEW force, NEW read,
         RunStages(look, quarantined, force, read)
  PROVE  TidyInv'
<1> DEFINE l == StageReconcile(look, quarantined, now + 1)
<1>1. UNCHANGED <<torn, disk, state>> /\ run.pc = "idle"
  BY DEF RunStages, histories
<1>2. CASE run' = run
  BY <1>1, <1>2, TidyUnmoved
<1>3. CASE run' # run
  <2>1. run'.pc = "publishing" /\ run'.todo = Artifacts /\ run'.ledger = l
    BY <1>3 DEF RunStages
  <2>2. Rewritten' = {} /\ Rewritten = {}
    <3>1. Written(Artifacts) = {}
      BY DEF Written, Artifacts
    <3> QED BY <1>1, <2>1, <3>1 DEF Rewritten
  <2>3. Continues(state, l)
    <3>1. AwaitsFirstLook(l) => AwaitsFirstLook(state)
      BY DEF AwaitsFirstLook, StageReconcile, ReconcileLedger, RecordHarvest, HarvestInv, Never
    <3>2. ASSUME NEW i \in PublishableRecords(state)
          PROVE  /\ l.records[i].date = state.records[i].date
                 /\ l.records[i].first_seen_at = state.records[i].first_seen_at
      BY RecordsAreTyped, ReconcileKeepsSight DEF StageReconcile
    <3> HIDE DEF l
    <3> QED BY <3>1, <3>2 DEF Continues
  <2> HIDE DEF l
  <2>4. Continues(state, run.ledger)'
    BY <1>1, <2>1, <2>3 DEF Continues, PublishableRecords, AwaitsFirstLook
  <2> QED BY <1>1, <2>2, <2>4 DEF TidyInv, OnDisk
<1> QED BY <1>2, <1>3

\* What StageArtifact may do when every read succeeds.
LEMMA WrittenForAReason ==
  ASSUME Reads = {"text"}, PipelineInv, TidyInv, StageArtifact, NEW name \in Names
  PROVE  /\ disk'[name] # disk[name] => name = Head(run.todo)
         /\ disk'[name] # disk[name] /\ OnDisk(name) /\ ~torn =>
              Hashed(name, run.ledger) # Hashed(name, state)
<1> DEFINE head == Head(run.todo)
           new == Seal(head, run.ledger, now)
<1>1. /\ run.pc = "publishing" /\ run.todo # << >>
      /\ disk' = IF ArtifactUnchanged(head, new) THEN disk ELSE [disk EXCEPT ![head] = new]
  BY DEF StageArtifact
<1>2. disk = [x \in Names |-> disk[x]] /\ run.todo \in Remainders
  BY <1>1 DEF PipelineInv
<1>3. head \in Names /\ head \notin Written(run.todo)
  <2>1. CASE run.todo = <<"reviews", "latest", "stats", "index">>
    BY <2>1 DEF Written, Names
  <2>2. CASE run.todo = <<"latest", "stats", "index">>
    BY <2>2 DEF Written, Names
  <2>3. CASE run.todo = <<"stats", "index">>
    BY <2>3 DEF Written, Names
  <2>4. CASE run.todo = <<"index">>
    BY <2>4 DEF Written, Names
  <2> QED BY <1>1, <1>2, <2>1, <2>2, <2>3, <2>4 DEF Remainders
<1>4. new.hashed = Hashed(head, run.ledger)
  BY DEF Seal
<1> HIDE DEF head, new
<1>5. disk'[name] # disk[name] => name = head /\ ~ArtifactUnchanged(head, new)
  BY <1>1, <1>2
<1>6. ~torn /\ OnDisk(head) => disk[head].hashed = Hashed(head, state)
  BY <1>1, <1>3 DEF TidyInv, Rewritten
<1> QED BY <1>4, <1>5, <1>6 DEF ArtifactUnchanged, head

LEMMA StageArtifactTidy ==
  ASSUME Reads = {"text"}, PipelineInv, TidyInv, StageArtifact PROVE TidyInv'
<1>1. /\ run.pc = "publishing" /\ run.todo # << >> /\ UNCHANGED <<state, torn>>
      /\ run' = [run EXCEPT !.todo = Tail(@)]
  BY DEF StageArtifact, histories
<1>2. /\ {"pc", "todo", "ledger"} \subseteq DOMAIN run /\ run.todo \in Remainders
  BY <1>1 DEF PipelineInv
<1>3. run'.pc = "publishing" /\ run'.ledger = run.ledger /\ run'.todo = Tail(run.todo)
  BY <1>1, <1>2
<1>4. Rewritten' = Rewritten \cup {Head(run.todo)}
  BY <1>1, <1>2, <1>3, TodoShrinks DEF Rewritten
<1>5. ASSUME ~torn, NEW name \in Names \ Rewritten', OnDisk(name)'
      PROVE  disk'[name].hashed = Hashed(name, state)
  <2>1. disk'[name] = disk[name]
    BY <1>4, <1>5, WrittenForAReason
  <2> QED BY <1>4, <1>5, <2>1 DEF TidyInv, OnDisk
<1>6. Continues(state, run.ledger)'
  BY <1>1, <1>3 DEF TidyInv, Continues, PublishableRecords, AwaitsFirstLook
<1> QED BY <1>1, <1>5, <1>6 DEF TidyInv

LEMMA TidyKept ==
  ASSUME Reads = {"text"}
  PROVE  HarvestInv /\ H!IInv /\ PipelineInv /\ TidyInv /\ [Next]_vars => TidyInv'
<1> SUFFICES ASSUME HarvestInv, H!IInv, PipelineInv, TidyInv, [Next]_vars PROVE TidyInv'
  OBVIOUS
<1>1. CASE UNCHANGED <<torn, disk, state, run>>
  BY <1>1, TidyUnmoved
<1>2. CASE Harvest
  BY <1>2, RunStagesTidy DEF Harvest
<1>3. CASE StageArtifact
  BY <1>3, StageArtifactTidy
<1>4. CASE WriteLedger
  <2>1. /\ run.pc = "publishing" /\ run.todo = << >> /\ state' = run.ledger
        /\ run' = Idle /\ disk' = disk
    BY <1>4, ReadBack DEF WriteLedger, PipelineInv
  <2>2. \A name \in Names : disk[name].hashed = Hashed(name, run.ledger)
    BY <2>1 DEF PipelineInv, Written
  <2> QED BY <2>1, <2>2 DEF TidyInv, Idle
<1>5. CASE Crash
  BY <1>5 DEF Crash, TidyInv, Idle
<1> QED BY <1>1, <1>2, <1>3, <1>4, <1>5
        DEF Next, Post, Withdraw, Edit, SourceMoves, Erase, vars, histories

\* IR-06: as long as what is published can be read, a run writes an artifact
\* again only if a visitor has something new to see since the last recorded
\* run, or a run died since.  Instants, streaks and sightings move with every
\* run; none of them reaches a hash.
THEOREM QuietRunsRewriteNothing ==
  ASSUME Reads = {"text"} PROVE Spec => SameReviewsSameFiles
<1> DEFINE Quiet == \A name \in Range(Artifacts) :
             OnDisk(name) /\ disk'[name] # disk[name]
               => \/ torn
                  \/ Visible(run.ledger) # Visible(state)
                  \/ AwaitsFirstLook(state) /\ ~AwaitsFirstLook(run.ledger)
<1>1. Init => TidyInv
  <2> SUFFICES ASSUME Init PROVE TidyInv
    OBVIOUS
  <2>1. \A name \in Names : ~OnDisk(name)
    BY ArtifactNames DEF Init, OnDisk
  <2> QED BY <2>1 DEF Init, TidyInv, Idle
<1>2. Spec => []H!IInv
  BY HarvestsAssumptions, H!Invariance, ImplementsHarvests, PTL
<1>3. Spec => []TidyInv
  BY <1>1, <1>2, TidyKept, HarvestInvHolds, PipelineHolds, PTL DEF Spec
<1>4. PipelineInv /\ TidyInv /\ [Next]_vars => [Quiet]_vars
  <2> SUFFICES ASSUME PipelineInv, TidyInv, Next, NEW name \in Names, OnDisk(name),
                      disk'[name] # disk[name], ~torn, Visible(run.ledger) = Visible(state),
                      ~(AwaitsFirstLook(state) /\ ~AwaitsFirstLook(run.ledger))
               PROVE  FALSE
    BY ArtifactNames
  <2>1. StageArtifact
    BY DEF Next, Post, Withdraw, Edit, SourceMoves, Erase, Harvest, RunStages, WriteLedger, Crash
  <2>2. Hashed(name, run.ledger) # Hashed(name, state)
    BY <2>1, WrittenForAReason
  <2>3. Continues(state, run.ledger)
    BY <2>1 DEF StageArtifact, TidyInv
  <2> QED BY <2>2, <2>3, SameToAVisitor
<1> QED BY <1>3, <1>4, PipelineHolds, PTL DEF Spec, SameReviewsSameFiles

-----------------------------------------------------------------------------
(* The gate, end to end.  What it compares are numbers: a published review *)
(* is one of finitely many, and the mean of finitely many ratings is a     *)
(* natural number.                                                         *)

There(l) == {i \in Ids : Exists(l.records[i])}

LEMMA MeanIsNatural ==
  ASSUME NEW ids \in SUBSET Ids, IsFiniteSet(ids)
  PROVE  MeanRating(ids) \in Nat
<1> DEFINE n   == Cardinality(ids)
           w   == [i \in ids |-> RatingOf[i[2]]]
           sum == FoldSet(LAMBDA i, acc : RatingOf[i[2]] + acc, 0, ids)
<1>1. n \in Nat
  BY FS_CardinalityType
<1>2. w \in [ids -> Nat]
  BY IdsAssumption, RatingAssumption
<1> DEFINE Folds(f) == f = [s \in SUBSET ids |-> IF s = {} THEN 0
                              ELSE RatingOf[Pick(s)[2]] + f[s \ {Pick(s)}]]
<1>3. sum = (CHOOSE f : Folds(f))[ids]
  BY Zenon DEF FoldSet, MapThenFoldSet, Pick
<1>4. ASSUME NEW f PROVE Folds(f) <=> Adds(f, ids, w)
  <2>1. \A s \in SUBSET ids : s # {} => w[Pick(s)] = RatingOf[Pick(s)[2]]
    BY DEF Pick
  <2> QED BY <2>1 DEF Adds
<1> HIDE DEF w, Folds
<1>5. \E f : Folds(f)
  BY <1>2, <1>4, AddingIsDefined
<1>6. sum \in Nat
  <2>1. Folds(CHOOSE f : Folds(f))
    BY <1>5
  <2> QED BY <1>2, <1>3, <1>4, <2>1, AddingIsNatural
<1> HIDE DEF sum, n
<1>7. n # 0 => (2 * sum + n) \div (2 * n) \in Nat
  BY <1>1, <1>6
<1> QED BY <1>7 DEF MeanRating, sum, n

LEMMA StatsAreNumbers ==
  ASSUME NEW l, IsFiniteSet(There(l))
  PROVE  ComputeStats(l).total_count \in Nat /\ ComputeStats(l).mean_rating \in Nat
<1>1. PublishableRecords(l) \in SUBSET There(l) /\ PublishableRecords(l) \in SUBSET Ids
  BY DEF PublishableRecords, There
<1>2. IsFiniteSet(PublishableRecords(l))
  BY <1>1, FS_Subset
<1>3. Cardinality(PublishableRecords(l)) \in Nat /\ MeanRating(PublishableRecords(l)) \in Nat
  BY <1>1, <1>2, FS_CardinalityType, MeanIsNatural
<1>4. /\ ComputeStats(l).total_count = Cardinality(PublishableRecords(l))
      /\ ComputeStats(l).mean_rating = MeanRating(PublishableRecords(l))
  BY DEF ComputeStats, NoStats
<1> QED BY <1>3, <1>4

\* A harvest observes finitely many reviews, and only an observed one is new.
LEMMA ObservedFinite ==
  ASSUME source \in Seq(OnSource), NEW look \in Looks, NEW quarantined, NEW t
  PROVE  IsFiniteSet(DOMAIN Observed(look, quarantined, t))
<1> DEFINE kept == {k \in 1 .. look.seen : k \notin quarantined}
           f == [k \in kept |-> IdentityHash(source[k])]
           ids == {IdentityHash(source[k]) : k \in kept}
<1>1. look.seen \in Int
  BY HarvestIsObservation
<1>2. IsFiniteSet(kept)
  <2>1. IsFiniteSet(1 .. look.seen)
    BY <1>1, FS_Interval
  <2>2. kept \in SUBSET (1 .. look.seen)
    OBVIOUS
  <2> QED BY <2>1, <2>2, FS_Subset
<1>3. f \in Surjection(kept, ids)
  BY DEF Surjection
<1>4. IsFiniteSet(ids)
  BY <1>2, <1>3, FS_Surjection
<1> QED BY <1>4 DEF Observed

LEMMA ReconcileStaysFinite ==
  ASSUME NEW prior, IsFiniteSet(There(prior)), NEW observed, IsFiniteSet(DOMAIN observed),
         NEW reason, NEW denied, NEW n, NEW t
  PROVE  IsFiniteSet(There(ReconcileLedger(prior, observed, reason, denied, n, t)))
<1> DEFINE ctx == Context(prior, reason, n, t)
           changes == [i \in Ids |-> Change(prior, observed, i, denied, ctx, t)]
           batched == ApplyBatch(prior.records, changes)
           swept == SweepSuppressions(batched, denied)
           next == ReconcileLedger(prior, observed, reason, denied, n, t)
<1>1. next.records = swept
  BY DEF ReconcileLedger, RecordHarvest
<1> HIDE DEF next
<1>2. ~Exists(NoRecord)
  BY DEF Exists, NoRecord
<1>3. ASSUME NEW i \in Ids, Exists(batched[i])
      PROVE  i \in There(prior) \cup DOMAIN observed
  <2>1. CASE Exists(changes[i])
    <3>1. changes[i] = Change(prior, observed, i, denied, ctx, t)
      OBVIOUS
    <3> HIDE DEF changes, ctx
    <3> QED BY <1>2, <2>1, <3>1 DEF Change, There
  <2>2. CASE ~Exists(changes[i])
    <3> HIDE DEF changes
    <3>1. batched[i] = prior.records[i]
      BY <2>2 DEF ApplyBatch
    <3> QED BY <1>3, <3>1 DEF There
  <2> QED BY <2>1, <2>2
<1> HIDE DEF batched
<1>4. ASSUME NEW i \in Ids, Exists(swept[i])
      PROVE  Exists(batched[i])
  BY <1>2, <1>4 DEF SweepSuppressions, ApplyBatch, NextSuppress
<1> HIDE DEF swept
<1>5. There(next) \subseteq There(prior) \cup DOMAIN observed
  BY <1>1, <1>3, <1>4 DEF There
<1>6. IsFiniteSet(There(prior) \cup DOMAIN observed)
  BY FS_Union
<1>7. IsFiniteSet(There(next))
  BY <1>5, <1>6, FS_Subset
<1> QED BY <1>7 DEF next

\* What the gate let through does not collapse what it read back: the rules it
\* enforces (G-02, G-03, G-04), what a force can downgrade, and when.
LEMMA AcceptedDoesNotCollapse ==
  ASSUME NEW l, NEW force, NEW read, publisher = "git", OnDisk("reviews"), read = "text",
         LET old == disk["reviews"].hashed.base.stats
         IN  old.total_count \in Nat /\ old.mean_rating \in Nat,
         IsFiniteSet(There(l)),
         EvaluateGate(GateContext(l, force, read)) # "REJECT"
  PROVE  ~Collapses(disk["reviews"].hashed.base.stats, ComputeStats(l), force)
<1> DEFINE ctx == GateContext(l, force, read)
           old == disk["reviews"].hashed.base.stats
           new == ComputeStats(l)
           drop == Thresholds.max_count_drop
           shift == Thresholds.max_rating_shift
<1>1. /\ ctx.prior = old /\ ctx.candidate = new /\ ctx.thresholds = Thresholds
      /\ ctx.priorAbsent = FALSE /\ ctx.force = force
  BY DEF GateContext, ReadsBack, ReadsNull
<1>2. /\ old.total_count \in Nat /\ old.mean_rating \in Nat
      /\ new.total_count \in Nat /\ new.mean_rating \in Nat
      /\ drop \in Nat /\ shift \in Nat
  BY StatsAreNumbers, ThresholdsAssumption
<1>3. Rejections(ctx) = {}
  BY DEF EvaluateGate
<1> HIDE DEF ctx, new, old
<1>4. Evaluated(ctx) = Rules
  BY <1>1 DEF Evaluated, FirstPublish
<1>5. \A rule \in {"G-02", "G-03", "G-04"} :
        Fires(rule, ctx) => rule \in Downgraded(ctx)
  BY <1>3, <1>4 DEF Rejections, Reasons, Rules, WarnOnly
<1>6. ~(new.total_count = 0 /\ old.total_count # 0)
  <2>1. "G-02" \notin Downgraded(ctx)
    BY DEF Downgraded, ForceDowngradable, Overridable
  <2> QED BY <1>1, <1>5, <2>1 DEF Fires
<1>7. ASSUME ~ForceIsEffective(force), old.total_count > 0
      PROVE  /\ ~(100 * new.total_count < (100 - drop) * old.total_count)
             /\ new.mean_rating - old.mean_rating \in -shift .. shift
  <2>1. Downgraded(ctx) = {}
    BY <1>1, <1>7 DEF Downgraded
  <2>2. ~Exceeds(old.total_count - new.total_count, old.total_count, drop)
    BY <1>1, <1>5, <2>1 DEF Fires
  <2>3. ~((old.total_count - new.total_count) * 100 > drop * old.total_count)
    BY <1>2, <1>7, <2>2 DEF Exceeds
  <2>4. ~(100 * new.total_count < (100 - drop) * old.total_count)
    BY <1>2, <2>3
  <2>5. ~(Distance(new.mean_rating, old.mean_rating) > shift)
    BY <1>1, <1>2, <1>5, <1>7, <2>1 DEF Fires, NotANumber
  <2> QED BY <1>2, <2>4, <2>5 DEF Distance
<1> QED BY <1>2, <1>6, <1>7 DEF Collapses, ForceIsEffective, new, old

\* Between the gate and the first artifact nothing moves the published payload.
GateInv ==
  /\ IsFiniteSet(There(state))
  /\ OnDisk("reviews") =>
       /\ disk["reviews"].hashed.base.stats.total_count \in Nat
       /\ disk["reviews"].hashed.base.stats.mean_rating \in Nat
  /\ run.pc = "publishing" =>
       /\ {"force", "read"} \subseteq DOMAIN run
       /\ IsFiniteSet(There(run.ledger))
       /\ run.todo = Artifacts => EvaluateGate(GateContext(run.ledger, run.force, run.read)) # "REJECT"

LEMMA GateInvUnmoved ==
  ASSUME GateInv, UNCHANGED <<publisher, disk, state, run>> PROVE GateInv'
BY DEF GateInv, There, OnDisk, GateContext, ReadsBack, ReadsNull

LEMMA RunStagesGated ==
  ASSUME HarvestInv, PipelineInv, GateInv, NEW look \in Looks, NEW quarantined, NEW force, NEW read,
         RunStages(look, quarantined, force, read)
  PROVE  GateInv'
<1> DEFINE t == now + 1
           l == StageReconcile(look, quarantined, t)
<1>1. UNCHANGED <<publisher, state, disk>>
  BY DEF RunStages
<1>2. IsFiniteSet(There(l))
  BY ObservedFinite, ReconcileStaysFinite DEF HarvestInv, GateInv, StageReconcile
<1>3. CASE run' = run
  BY <1>1, <1>3, GateInvUnmoved
<1>4. CASE run' # run
  <2>1. /\ EvaluateGate(GateContext(l, force, read)) # "REJECT"
        /\ run' = [ pc |-> "publishing", todo |-> Artifacts, ledger |-> l, force |-> force,
                    seen |-> {IdentityHash(source[k]) : k \in 1 .. look.seen},
                    quarantined |-> Cardinality(quarantined),
                    observed |-> DOMAIN Observed(look, quarantined, t),
                    finished |-> look.reason \in {"target_reached", "exhausted"},
                    counts |-> AbsenceIsMeaningful(ClassifyCompleteness(look.reason)),
                    read |-> read ]
    BY <1>4 DEF RunStages
  <2> HIDE DEF l, t
  <2>2. /\ run'.ledger = l /\ run'.force = force /\ run'.read = read
        /\ {"force", "read"} \subseteq DOMAIN run'
    BY <2>1
  <2>3. (EvaluateGate(GateContext(run.ledger, run.force, run.read)) # "REJECT")'
    BY <1>1, <2>1, <2>2 DEF GateContext, ReadsBack, ReadsNull, OnDisk
  <2> QED BY <1>1, <1>2, <2>2, <2>3 DEF GateInv, There, OnDisk
<1> QED BY <1>3, <1>4

\* The first artifact of a run is the payload, and is written once.
LEMMA PayloadGoesFirst ==
  ASSUME PipelineInv, StageArtifact
  PROVE  /\ Tail(run.todo) # Artifacts
         /\ Head(run.todo) = "reviews" => run.todo = Artifacts
         /\ disk'["reviews"] # disk["reviews"] =>
              /\ Head(run.todo) = "reviews"
              /\ disk'["reviews"] = Seal("reviews", run.ledger, now)
<1>1. run.todo \in Remainders \ {<< >>}
  BY DEF StageArtifact, PipelineInv
<1>2. /\ Tail(run.todo) # Artifacts
      /\ Head(run.todo) = "reviews" => run.todo = Artifacts
  <2>1. CASE run.todo = <<"reviews", "latest", "stats", "index">>
    BY <2>1 DEF Artifacts
  <2>2. CASE run.todo = <<"latest", "stats", "index">>
    BY <2>2 DEF Artifacts
  <2>3. CASE run.todo = <<"stats", "index">>
    BY <2>3 DEF Artifacts
  <2>4. CASE run.todo = <<"index">>
    BY <2>4 DEF Artifacts
  <2> QED BY <1>1, <2>1, <2>2, <2>3, <2>4 DEF Remainders
<1> DEFINE name == Head(run.todo)
           new == Seal(name, run.ledger, now)
<1>3. /\ disk' = disk \/ disk' = [disk EXCEPT ![name] = new]
      /\ disk = [n \in Names |-> disk[n]] /\ "reviews" \in Names
  BY DEF StageArtifact, PipelineInv, Names
<1> HIDE DEF new
<1>4. disk'["reviews"] # disk["reviews"] => name = "reviews" /\ disk'["reviews"] = new
  BY <1>3
<1> QED BY <1>2, <1>4 DEF new

LEMMA SealedStats ==
  ASSUME NEW l, NEW t
  PROVE  Seal("reviews", l, t).hashed.base.stats = ComputeStats(l)
BY DEF Seal, Hashed, Base

LEMMA StageArtifactGated ==
  ASSUME PipelineInv, GateInv, StageArtifact PROVE GateInv'
<1>1. /\ UNCHANGED <<publisher, state, now>> /\ run.pc = "publishing"
      /\ run' = [run EXCEPT !.todo = Tail(@)]
  BY DEF StageArtifact
<1>2. /\ run'.ledger = run.ledger /\ run'.todo = Tail(run.todo) /\ DOMAIN run' = DOMAIN run
      /\ "todo" \in DOMAIN run
  BY <1>1 DEF PipelineInv
<1>3. run'.todo # Artifacts
  BY <1>2, PayloadGoesFirst
<1>4. \/ disk'["reviews"] = disk["reviews"]
      \/ disk'["reviews"] = Seal("reviews", run.ledger, now)
  BY PayloadGoesFirst
<1>5. disk'["reviews"] = Seal("reviews", run.ledger, now) =>
        disk'["reviews"].hashed.base.stats.total_count \in Nat
        /\ disk'["reviews"].hashed.base.stats.mean_rating \in Nat
  BY <1>1, SealedStats, StatsAreNumbers DEF GateInv
<1> QED BY <1>1, <1>2, <1>3, <1>4, <1>5 DEF GateInv, There, OnDisk

LEMMA GateInvKept == HarvestInv /\ PipelineInv /\ GateInv /\ [Next]_vars => GateInv'
<1> SUFFICES ASSUME HarvestInv, PipelineInv, GateInv, [Next]_vars PROVE GateInv'
  OBVIOUS
<1>1. CASE UNCHANGED <<publisher, disk, state, run>>
  BY <1>1, GateInvUnmoved
<1>2. CASE Harvest
  BY <1>2, RunStagesGated DEF Harvest
<1>3. CASE StageArtifact
  BY <1>3, StageArtifactGated
<1>4. CASE WriteLedger
  <2>1. run.pc = "publishing" /\ state' = run.ledger /\ run' = Idle /\ disk' = disk
    BY <1>4, ReadBack DEF WriteLedger, PipelineInv
  <2> QED BY <2>1 DEF GateInv, There, OnDisk, Idle
<1>5. CASE Crash
  BY <1>5 DEF Crash, GateInv, There, OnDisk, Idle
<1> QED BY <1>1, <1>2, <1>3, <1>4, <1>5 DEF Next, Post, Withdraw, Edit, SourceMoves, Erase, vars

LEMMA GateInvHolds == Spec => []GateInv
<1>1. Init => GateInv
  <2> SUFFICES ASSUME Init PROVE GateInv
    OBVIOUS
  <2>1. There(state) = {}
    BY DEF Init, CreateLedger, There, Exists, NoRecord
  <2>2. ~OnDisk("reviews")
    BY ArtifactNames DEF Init, OnDisk, Names
  <2> QED BY <2>1, <2>2, FS_EmptySet DEF Init, GateInv, Idle
<1> QED BY <1>1, GateInvKept, HarvestInvHolds, PipelineHolds, PTL DEF Spec

\* Over the git publisher, no run that could read the published payload empties
\* the site, and none shrinks it or moves its mean beyond the limits unless an
\* operator, not a schedule, gave a reason: not after a crash between the gate
\* and the last write either.
THEOREM GateHoldsOverGit == Spec => NoCollapseOverGit
<1> DEFINE Safe == publisher = "git" /\ run.pc = "publishing" /\ run.read = "text"
                     => ~PublicationCollapses
<1>1. PipelineInv /\ GateInv /\ [Next]_vars => [Safe]_vars
  <2> SUFFICES ASSUME PipelineInv, GateInv, Next, publisher = "git",
                      run.pc = "publishing", run.read = "text", OnDisk("reviews"),
                      disk'["reviews"] # disk["reviews"]
               PROVE  ~Collapses(disk["reviews"].hashed.base.stats,
                                 disk'["reviews"].hashed.base.stats, run.force)
    BY DEF PublicationCollapses
  <2>1. StageArtifact
    BY DEF Next, Post, Withdraw, Edit, SourceMoves, Erase, Harvest, RunStages, WriteLedger, Crash
  <2>2. run.todo = Artifacts /\ disk'["reviews"] = Seal("reviews", run.ledger, now)
    BY <2>1, PayloadGoesFirst
  <2>3. disk'["reviews"].hashed.base.stats = ComputeStats(run.ledger)
    BY <2>2, SealedStats
  <2>4. /\ IsFiniteSet(There(run.ledger))
        /\ EvaluateGate(GateContext(run.ledger, run.force, run.read)) # "REJECT"
    BY <2>1, <2>2 DEF GateInv, StageArtifact
  <2> QED BY <2>3, <2>4, AcceptedDoesNotCollapse DEF GateInv
<1> QED BY <1>1, GateInvHolds, PipelineHolds, PTL DEF Spec, NoCollapseOverGit
=============================================================================
