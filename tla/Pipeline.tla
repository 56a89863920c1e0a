------------------------------ MODULE Pipeline ------------------------------
(***************************************************************************)
(* One listing, harvested again and again: the source its reviews are on,  *)
(* the ten stages of app/stages/run-stages.mjs, the artifacts on disk and  *)
(* the durable ledger, with a process that may die between any two writes. *)
(*                                                                         *)
(* Stages 1 to 9 (resolve ... gate) only read: the source, the ledger and  *)
(* the published payload.  Nothing else writes the last two in a checkout  *)
(* (harvests run one at a time, and each shard has a checkout of its own), *)
(* so they are one step here.  Stage 10 writes, one step per write.        *)
(*                                                                         *)
(* A review on the source has an author, a head and a rest.  The head is   *)
(* what core/identity/identity-hash.mjs hashes (the rating and the first   *)
(* 512 graphemes of the text), the rest is what only the content hash      *)
(* covers (later text, likes, photos, the owner's reply).                  *)
(***************************************************************************)
EXTENDS Reconcile, Gate, FiniteSets, SequencesExt

CONSTANTS
  Authors, Heads, Rests,
  RatingOf,                \* the rating, hundredths, of each head
  Publishers,              \* the publishers the composition root may wire
  Forces,                  \* the force requests an operator may configure
  Thresholds,              \* config.gate over the gate's defaults
  ConfiguredConfirmations, \* config.reconcile.removal_confirmations
  Cap,                     \* config.max_reviews
  Lags,                    \* how far an advertised total may be off the source
  ExhaustedPercent,        \* of the total, from where a quiet list is finished
  Reads,                   \* how a read of a published file may end
  MaxQuarantined,          \* bound on the records one harvest quarantines
  MaxCrashes,              \* bound on the crashes
  MaxErasures,             \* bound on the denylist
  MaxRevision,             \* bound on the edits of one review
  MaxTime                  \* bound on the runs

ASSUME IdsAssumption      == Ids = Authors \X Heads
ASSUME ContentsAssumption == Contents = Heads \X Rests
ASSUME PublishersAssumption == Publishers \subseteq {"git", "filesystem"}
ASSUME RatingAssumption   == RatingOf \in [Heads -> 100 .. 500]
ASSUME CapAssumption      == Cap \in Nat \ {0} /\ MaxQuarantined \in Nat
ASSUME TotalsAssumption   == Lags \subseteq Int /\ ExhaustedPercent \in 1 .. 100
ASSUME ReadsAssumption    == Reads \subseteq {"text", "error", "garbled"}
ASSUME ThresholdsAssumption ==
  Thresholds.max_count_drop \in Nat /\ Thresholds.max_rating_shift \in Nat
ASSUME LimitsAssumption   == MaxTime \in Nat /\ MaxRevision \in Nat

VARIABLES
  publisher,            \* the wired publisher
  source,               \* the reviews on the source, newest first
  denylist,             \* the erasure requests on file
  state,                \* the durable ledger, as it is read back
  disk,                 \* the artifacts on disk
  now,                  \* the instant of the last run
  run,                  \* the run that is publishing, or Idle
  crashes,
  goneAt,               \* history: the instants of the recorded full looks
                        \* without each review, since a recorded one with it
  torn,                 \* history: a run died since the last ledger was written
  absentAt              \* history: the instants of the recorded harvests that
                        \* counted as evidence against each review, since a
                        \* recorded one that observed it

histories == <<goneAt, absentAt, torn>>

vars == <<publisher, source, denylist, state, disk, now, run, crashes, histories>>

(***************************************************************************)
(* The source                                                              *)
(***************************************************************************)

OnSource == [author : Authors, head : Heads, rest : Rests]

\* core/identity/: what the two hashes are computed over.
IdentityHash(r) == <<r.author, r.head>>
ContentHash(r)  == <<r.head, r.rest>>

\* While a run publishes, what the source and the denylist do is not read, so
\* it is as good as done after.
SourceMoves ==
  UNCHANGED <<publisher, denylist, state, disk, now, run, crashes, histories>>

Post(r) ==
  /\ run.pc = "idle"
  /\ \A k \in DOMAIN source : source[k].author # r.author
  /\ source' = <<r>> \o source
  /\ SourceMoves

Withdraw(k) ==
  /\ run.pc = "idle"
  /\ source' = RemoveAt(source, k)
  /\ SourceMoves

\* The author or the owner edits a review where it stands.
Edit(k, r) ==
  /\ run.pc = "idle"
  /\ r.author = source[k].author /\ r # source[k]
  /\ source' = [source EXCEPT ![k] = r]
  /\ SourceMoves

\* A person asks for a review that is or was published to be erased.
Erase(i) ==
  /\ run.pc = "idle"
  /\ i \notin denylist /\ Cardinality(denylist) < MaxErasures
  /\ denylist' = denylist \cup {i}
  /\ UNCHANGED <<publisher, source, state, disk, now, run, crashes, histories>>

(***************************************************************************)
(* Stages 1 to 5: what a harvest sees (adapters/acquisition/google-dom/    *)
(* pagination.mjs, evaluateStop) and what normalisation leaves of it.      *)
(***************************************************************************)

\* The total the source advertises, 0 if there is none: it may be stale.
AdvertisedTotals == {0} \cup ({Len(source) + lag : lag \in Lags} \cap Nat)

\* Why a harvest with k reviews ends, which of the conditions it meets being
\* tested first: the cap, the advertised total, a list that no longer grows
\* (which is finished if it is near the total, and stuck if not), the time.
StopReason(k, advertised, quiet) ==
  CASE k >= Cap -> "cap_reached"
    [] k < Cap /\ advertised > 0 /\ k >= advertised -> "target_reached"
    [] OTHER -> IF ~quiet THEN "budget_exhausted"
                ELSE IF advertised > 0 /\ 100 * k >= ExhaustedPercent * advertised
                     THEN "exhausted" ELSE "stalled"

\* A harvest sees the newest reviews, up to where it ends: the cap, the total,
\* or anywhere, quiet or out of time.
Looks ==
  {[seen |-> k, reason |-> StopReason(k, advertised, quiet)] :
     k \in {n \in 0 .. Len(source) : n <= Cap}, advertised \in AdvertisedTotals, quiet \in BOOLEAN}

\* A quarantined record is not among the observed.
Observed(look, quarantined, t) ==
  LET kept == {k \in 1 .. look.seen : k \notin quarantined}
  IN  [i \in {IdentityHash(source[k]) : k \in kept} |->
         LET k == CHOOSE k \in kept : IdentityHash(source[k]) = i
         IN  [content |-> ContentHash(source[k]), date |-> t]]

(***************************************************************************)
(* Stage 6: reconcileConfig reads config.reconcile.removalConfirmations,   *)
(* a key no configuration has (the schema's is removal_confirmations), and *)
(* falls back on its default.                                              *)
(***************************************************************************)
DefaultRemovalConfirmations == 2

StageReconcile(look, quarantined, t) ==
  ReconcileLedger(state, Observed(look, quarantined, t), look.reason,
                  denylist, DefaultRemovalConfirmations, t)

(***************************************************************************)
(* Stages 7 and 8: the artifacts (core/project/).  An artifact is what its *)
(* content hash covers, and the instant it was generated at, which the     *)
(* hash leaves out.  `latest` is the first latest_count reviews: all of    *)
(* them here.  Of the aggregates only the two the gate compares are kept.  *)
(* The index holds the hashes of the others, that is, what they hash.      *)
(***************************************************************************)
Artifacts == <<"reviews", "latest", "stats", "index">>

Missing == [absent |-> TRUE]

ProjectReview(r) ==
  [ content |-> r.content, date |-> r.date,
    first_seen_at |-> r.first_seen_at, revision |-> r.revision ]

Reviews(l) == [i \in PublishableRecords(l) |-> ProjectReview(l.records[i])]

\* stats.mjs: the mean has two decimals, and is 0 of nothing.
MeanRating(ids) ==
  LET n   == Cardinality(ids)
      sum == FoldSet(LAMBDA i, acc : RatingOf[i[2]] + acc, 0, ids)
  IN  IF n = 0 THEN 0 ELSE (2 * sum + n) \div (2 * n)

\* The completeness the projector looks for in `meta` is not there: run-stages
\* hands it over inside the report.  No total is configured for the listing.
ComputeStats(l) ==
  [NoStats EXCEPT !.total_count = Cardinality(PublishableRecords(l)),
                  !.mean_rating = MeanRating(PublishableRecords(l))]

Base(l) ==
  [ stats |-> ComputeStats(l), awaiting |-> l.last_full_harvest_at = Never ]

Hashed(name, l) ==
  IF name = "stats" THEN [base |-> Base(l)]
  ELSE [base |-> Base(l), reviews |-> Reviews(l)]

Seal(name, l, t) == [hashed |-> Hashed(name, l), generated_at |-> t]

OnDisk(name) == disk[name] # Missing

\* Mutant: the bytes are compared.
ArtifactUnchanged_Bytes(name, new) == OnDisk(name) /\ disk[name] = new

\* unchanged.mjs: the sealed hashes are compared, not the bytes.
ArtifactUnchanged(name, new) == OnDisk(name) /\ disk[name].hashed = new.hashed

Published == IF OnDisk("reviews") THEN disk["reviews"].hashed.reviews ELSE << >>

(***************************************************************************)
(* Stage 9.  publisherPort.read (cli/composition.mjs) parses the BYTES it  *)
(* expects of readCurrent.  The git publisher returns bytes, or null where *)
(* there is no file, and where the read failed (readOrNull).  Text that is *)
(* not JSON is answered with { __unreadable: true }, which is not null and *)
(* has no stats.  The filesystem publisher returns an outcome object, which*)
(* never parses.  priorReadable is not passed, and defaults to true.       *)
(***************************************************************************)

\* Mutant: what is published is never read.
ReadsBack_Never(read) == FALSE
ReadsBack(read) == publisher = "git" /\ OnDisk("reviews") /\ read = "text"

ReadsNull(read) == publisher = "git" /\ (~OnDisk("reviews") \/ read = "error")

\* The validation handed over is the report: it has no `considered` and no
\* `findings`, so the rules on it see zero of nothing.  No schema errors, no
\* size and no near-duplicates are handed over at all.
GateContext(l, force, read) ==
  [ candidate      |-> ComputeStats(l),
    prior          |-> IF ReadsBack(read) THEN disk["reviews"].hashed.base.stats ELSE NoStats,
    priorAbsent    |-> ReadsNull(read),
    priorReadable  |-> TRUE,
    schemaValid    |-> TRUE,
    validation     |-> [considered |-> 0, quarantined |-> 0, fatal |-> 0],
    thresholds     |-> Thresholds,
    candidateBytes |-> 0,
    largestCluster |-> 0,
    force          |-> force ]

(***************************************************************************)
(* The runs                                                                *)
(***************************************************************************)

Idle == [pc |-> "idle"]

WithinBounds(l) ==
  \A i \in Ids : Exists(l.records[i]) => l.records[i].revision <= MaxRevision

\* Stages 1 to 9.  Two records of one listing never have the same instant.  A
\* ledger that fails the self-check would end the run here: none does
\* (PipelineProofs, SelfCheckNeverEndsARun).
RunStages(look, quarantined, force, read) ==
  LET t == now + 1
      l == StageReconcile(look, quarantined, t)
      seen == {IdentityHash(source[k]) : k \in 1 .. look.seen}
  IN  /\ run.pc = "idle" /\ now < MaxTime
      /\ WithinBounds(l)
      /\ now' = t
      /\ IF EvaluateGate(GateContext(l, force, read)) = "REJECT"
         THEN UNCHANGED run
         ELSE run' = [ pc |-> "publishing", todo |-> Artifacts, ledger |-> l, force |-> force,
                       seen |-> seen, quarantined |-> Cardinality(quarantined),
                       observed |-> DOMAIN Observed(look, quarantined, t),
                       finished |-> look.reason \in {"target_reached", "exhausted"},
                       counts |-> AbsenceIsMeaningful(ClassifyCompleteness(look.reason)),
                       read |-> read ]
      /\ UNCHANGED <<publisher, source, denylist, state, disk, crashes, histories>>

\* Stage 10, one artifact: written unless what is on disk can be read, and has
\* the same hash.
StageArtifact ==
  /\ run.pc = "publishing" /\ run.todo # << >>
  /\ LET name == Head(run.todo)
         new  == Seal(name, run.ledger, now)
     IN  \E read \in Reads :
           disk' = IF read = "text" /\ ArtifactUnchanged(name, new)
                   THEN disk ELSE [disk EXCEPT ![name] = new]
  /\ run' = [run EXCEPT !.todo = Tail(@)]
  /\ UNCHANGED <<publisher, source, denylist, state, now, crashes, histories>>

\* What the source showed, and what the reconciler was told of it.
Recorded ==
  /\ goneAt' = [i \in Ids |-> IF i \in run.seen THEN {}
                             ELSE IF run.finished THEN goneAt[i] \cup {now}
                             ELSE goneAt[i]]
  /\ absentAt' = [i \in Ids |->
       IF i \in run.observed THEN {}
       ELSE IF run.counts THEN absentAt[i] \cup {now}
       ELSE absentAt[i]]
  /\ torn' = FALSE

\* Mutant: the ledger does not wait for the artifacts.
WriteLedger_Eager ==
  /\ run.pc = "publishing"
  /\ state' = FromJSON(ToJSON(run.ledger))
  /\ run' = Idle
  /\ Recorded
  /\ UNCHANGED <<publisher, source, denylist, disk, now, crashes>>

\* The ledger goes last.
WriteLedger ==
  /\ run.pc = "publishing" /\ run.todo = << >>
  /\ state' = FromJSON(ToJSON(run.ledger))
  /\ run' = Idle
  /\ Recorded
  /\ UNCHANGED <<publisher, source, denylist, disk, now, crashes>>

\* The process dies between two writes; each write is atomic (infra/fs-atomic).
Crash ==
  /\ run.pc = "publishing"
  /\ crashes < MaxCrashes
  /\ crashes' = crashes + 1
  /\ run' = Idle
  /\ torn' = TRUE
  /\ UNCHANGED <<publisher, source, denylist, state, disk, now, goneAt, absentAt>>

Init ==
  /\ publisher \in Publishers
  /\ source   = << >>
  /\ denylist = {}
  /\ state    = CreateLedger
  /\ disk     = [name \in Range(Artifacts) |-> Missing]
  /\ now      = 0
  /\ run      = Idle
  /\ crashes  = 0
  /\ goneAt   = [i \in Ids |-> {}]
  /\ absentAt = [i \in Ids |-> {}]
  /\ torn     = FALSE

Harvest ==
  \E look \in Looks, force \in Forces, read \in Reads :
    \E quarantined \in {q \in SUBSET (1 .. look.seen) : Cardinality(q) <= MaxQuarantined} :
      RunStages(look, quarantined, force, read)

Next ==
  \/ \E r \in OnSource : Post(r)
  \/ \E k \in DOMAIN source : Withdraw(k)
  \/ \E k \in DOMAIN source, r \in OnSource : Edit(k, r)
  \/ \E i \in Ids : Erase(i)
  \/ Harvest
  \/ StageArtifact
  \/ WriteLedger
  \/ Crash

Spec == Init /\ [][Next]_vars

(***************************************************************************)
(* Safety                                                                  *)
(***************************************************************************)

\* Every variable has its type; no artifact is from the future.
TypeOK ==
  /\ publisher \in Publishers
  /\ \A k \in DOMAIN source : source[k] \in OnSource
  /\ denylist \subseteq Ids
  /\ state \in LedgerType
  /\ DOMAIN disk = Range(Artifacts)
  /\ \A name \in DOMAIN disk : OnDisk(name) => disk[name].generated_at \in 1 .. now
  /\ DOMAIN Published \subseteq Ids
  /\ now \in 0 .. MaxTime
  /\ run.pc \in {"idle", "publishing"}
  /\ run.pc = "publishing" => run.ledger \in LedgerType
  /\ crashes \in 0 .. MaxCrashes
  /\ goneAt \in [Ids -> SUBSET (1 .. now)]
  /\ absentAt \in [Ids -> SUBSET (1 .. now)]
  /\ torn \in BOOLEAN

\* PUB-01, EDR-025: whatever the ledger is moved to has been published, every
\* artifact of it, and the artifacts agree with each other.
StateNeverAhead ==
  [][state' # state =>
       \A name \in Range(Artifacts) : OnDisk(name) /\ disk[name].hashed = Hashed(name, state')]_vars

\* What the durable ledger has removed or erased is not on the site, whatever
\* crashed or was rejected since.
RemovedStaysDown ==
  \A i \in DOMAIN Published : ~IsTerminal(state.records[i])

\* What a visitor of the site can tell two ledgers apart by.
Visible(l) ==
  [i \in PublishableRecords(l) |-> <<l.records[i].content, l.records[i].revision>>]

AwaitsFirstLook(l) == l.last_full_harvest_at = Never

\* IR-06, "a second identical run produces zero commits": an artifact that is
\* there is written again only because a visitor has something new to see
\* since the last recorded run, or because a run died since and left the site
\* in between; not for what every run moves (instants, streaks, sightings).
SameReviewsSameFiles ==
  [][\A name \in Range(Artifacts) :
       OnDisk(name) /\ disk'[name] # disk[name]
         => \/ torn
            \/ Visible(run.ledger) # Visible(state)
            \/ AwaitsFirstLook(state) /\ ~AwaitsFirstLook(run.ledger)]_vars

Buried(i) == state'.records[i].state = "tombstoned" /\ state.records[i].state # "tombstoned"

\* FR-055: a review leaves the live records for good only as the last of
\* ConfiguredConfirmations recorded looks that took the list for finished and
\* did not show it, none that showed it between.  Whether the list was finished
\* is another question (TombstonedIsWithdrawn).
TombstoneMeansGone ==
  [][\A i \in Ids : Buried(i) => /\ Cardinality(goneAt'[i]) >= ConfiguredConfirmations
                                 /\ now \in goneAt'[i]]_vars

\* What a publication may do to the site: never blank it, and shrink it or
\* move its mean beyond the limits only when an operator, not a schedule,
\* said why.
Collapses(old, new, force) ==
  \/ new.total_count = 0 /\ old.total_count > 0
  \/ /\ ~(force.enabled /\ force.reasoned) \/ force.scheduled
     /\ old.total_count > 0
     /\ \/ 100 * new.total_count < (100 - Thresholds.max_count_drop) * old.total_count
        \/ ~(new.mean_rating - old.mean_rating \in
               -Thresholds.max_rating_shift .. Thresholds.max_rating_shift)

PublicationCollapses ==
  /\ OnDisk("reviews") /\ disk'["reviews"] # disk["reviews"]
  /\ Collapses(disk["reviews"].hashed.base.stats,
               disk'["reviews"].hashed.base.stats, run.force)

\* The gate, end to end, for every run that could read the published payload.
NoCollapseOverGit ==
  [][publisher = "git" /\ run.pc = "publishing" /\ run.read = "text"
       => ~PublicationCollapses]_vars

(***************************************************************************)
(* What the repository says and the code does not do.                      *)
(***************************************************************************)

\* pagination.mjs: a list that is quiet near its advertised total, or has
\* reached it, is finished, not stuck, so that what is tombstoned has gone.
\* With a total that lags behind the source, or beyond twenty reviews, it may
\* not be, and the look that counts did not see the rest.
TombstonedIsWithdrawn ==
  [][\A i \in Ids : Buried(i) =>
       \A k \in DOMAIN source : IdentityHash(source[k]) # i]_vars

\* core/gate: a prior that could not be read is a rejection, so that no
\* publication collapses whatever is wired, and whatever read fails: a read
\* error reaches the gate as a first publish, and text that does not parse as
\* a payload without stats.
NoCollapse == [][~PublicationCollapses]_vars

\* git-data.mjs: a crash between payload and state heals by itself, the next
\* run producing identical bytes.  A published review would then keep its date
\* and its first sighting for as long as it is published.
PublishedFirstSightPinned ==
  [][\A i \in DOMAIN Published \cap DOMAIN Published' :
       /\ Published'[i].first_seen_at = Published[i].first_seen_at
       /\ Published'[i].date = Published[i].date]_vars

\* UC-16: the harvest after a request excludes the review from the payload.
RunEnds ==
  \/ now' # now /\ run'.pc = "idle"
  \/ run.pc = "publishing" /\ run'.pc = "idle" /\ crashes' = crashes

ErasureEffective == [][RunEnds => DOMAIN Published' \cap denylist = {}]_vars

\* UC-05, D7: an edited review is an update, never a second review.
EditIsNotADuplicate ==
  \A i, j \in DOMAIN Published : i[1] = j[1] => i = j

\* G-06: no amount of operator confidence makes malformed records publishable.
QuarantineIsGated ==
  run.pc = "publishing" =>
    ~Exceeds(run.quarantined, Cardinality(run.seen), Thresholds.quarantine_max)
=============================================================================
