# A verification development of the reviews engine

The engine harvests the public reviews of a business listing, merges them into a
durable ledger, and publishes static artifacts a website reads. Its risk is not in
any one function, each of which is unit-tested, but in what sequences of harvests,
crashes, refusals, retries and erasure requests do to a ledger that is never rebuilt,
to the files beside it, and to a site nobody watches. That is what is modelled here.

Paths are relative to the repository; the engine itself is in `src/`.

## 1. The system

| Component | State it keeps | Operations | Talks to | What makes it correct |
|---|---|---|---|---|
| **Ledger** `core/model/ledger.mjs` | one record per identity: content, date, state, first/last sighting, revision, missing streak, content history | insert, update, touch, missing, suppress; batch; self-check; to and from JSON | pure, called by the reconciler | terminal states are terminal; the first sighting and date are pinned; the self-check holds |
| **Reconciler** `core/reconcile/` | none | `reconcile(prior, observed, report, config, now)` | the ledger | absence counts only when the harvest looked; idempotent at one instant; erasure sweeps everything |
| **Gate** `core/gate/` | none | `evaluateGate` | pure, called by the stages | a site is never blanked, shrunk or shifted without an operator's reasoned force |
| **Stages** `app/stages/` | none across runs | resolve, acquire, normalise, validate, reconcile, enrich, project, gate, publish | all of the above, and the state and publisher ports | the ledger never claims what was not published |
| **Publishers** `adapters/publisher/` | artifacts on disk, staged paths | stage, commit, push, readCurrent | git, the stages | unchanged artifacts are not written; payload before state |
| **Git client** `infra/git.mjs` | checkouts, remote | stage, commit, push with fetch and rebase | remote repository | no commit is lost, none is forced |
| **State store** `adapters/state/`, `infra/fs-atomic.mjs` | ledger, health, budget and breaker files | read and write, atomically; append | the stages, the policies | a crash leaves the old file or the new one |
| **Acquisition** `adapters/acquisition/`, `adapters/browser/` | scroll state of one harvest, the shared browser | launch, load, detect, expand, paginate, extract; two APIs; CSV | a browser, the source | the stop reason says truly whether absence is evidence; a refusal is never evidence |
| **Resolver** `google-dom/resolver.mjs` and its siblings | a cached identity, the days since a success | the sequence of configured identifiers, search, verify, drift | the source | nothing is harvested under another business's name |
| **Orchestrator, target runner** `app/` | outcomes of one run | run a shard, run a target under a budget, exit code, manifest | the stages, preflight | one outcome per target; a failing target harms no other |
| **Registry, shard planner** `app/` | none | due targets, shards | orchestrator | shards are disjoint and cover what is due |
| **Preflight, breaker, rate budget, retry** `app/`, `infra/` | breaker and budget files | admit, reserve, record, retry | orchestrator, state store | never more requests than budgeted, whatever crashes |
| **Health, alerts, notifier** | health records, open issues | score, raise, deliver, close | an issue tracker | one open issue per live condition, and the critical ones are heard |
| **Configuration** `app/config/` | none | merge six layers, read the environment, check limits, twelve semantic rules | validate-config, the registry | a setting that is not understood is refused, and the layers win in their order |
| Enrichment, logging, redaction, command line, text normalisers, front end | | | | not modelled, see section 7 |

**How they interact.** A workflow runs one harvest at a time (a concurrency group), as
one process per shard, each with a checkout of its own. A process plans, takes its
share, runs its targets one after the other, and exits with a code. A
target goes through the stages: the source, the ledger and the published payload are
*read* by stages 1 to 9; stage 10 *writes* the artifacts, one file after the other,
and then the ledger. Nothing else writes either of them. What crosses from one run to
the next is the ledger, the artifacts, the denylist, the budget and breaker files, the
open issues and the wall clock.

**What is wired, and what is not.** `cli/composition.mjs` wires the static resolver,
the four adapters and the filesystem publisher. The preflight gate, the budget, the
breaker, the retry executor, the git publisher's commit and push, the health series
and the notifier are complete, tested and documented, and nothing in `src/` calls them
yet. The modules about them take the caller their own headers prescribe, and say so;
what they show holds of the code as it will be wired, and of no harvest today.

**What is hard.** Two harvests at one instant; a harvest that saw less than there is;
a process that dies between two of its writes, or a machine that loses power between
two of its system calls; a run the gate refuses, which must leave no trace in the
ledger; a review that returns after removal, or is edited, or is erased while unseen;
a cap; a target whose budget expired and whose stages go on; a request sent and not
recorded; a push rejected in the middle of a publication; a page that changes between
two looks at it; an issue list that cannot be read. Every one of these is listed with
its line under `hazards` in `PROJECT.json`, with the properties that are about it.

## 2. The modules

| Module | Models | State | Actions |
|---|---|---|---|
| `Ledger` | `core/model/ledger.mjs`, `absenceIsMeaningful` | none: operators from records to records | |
| `Reconcile` | `core/reconcile/`, `classifyCompleteness` | none | |
| `ReviewLifecycle` | the promise: unknown, published, removed, erased, with a count of misses | `status`, `misses` | see, miss, remove, erase |
| `Harvests` | one ledger under *every* sequence of harvests | `ledger`, `now`, the history `absentAt` | `Tick`, `Harvest` |
| `Gate` | `core/gate/` | none | |
| `Pipeline` | one listing end to end: source, stages, publisher, ledger, crashes | `source`, `denylist`, `state` (the ledger), `disk` (the artifacts), `run` (the writes still to do), `now`, `crashes`, the histories `goneAt`, `absentAt`, `torn` | `Post`, `Withdraw`, `Edit`, `Erase` (the world); `Harvest` (stages 1–9), `StageArtifact`, `WriteLedger` (stage 10), `Crash` |
| `Shard` | `app/orchestrator.mjs`, `app/target-runner.mjs`, `app/registry.mjs`, `app/shard-planner.mjs`, the harvest command and its exit code, the jobs of `harvest.yml` | the clock, `health`, `matrix`; per shard `process`, `mine`, `todo`, `awaited`, `exhausted`, `outcomes`, `exit`; per shard the targets `reading`, `writing`, `published`, `recorded`, `refused` | `Tick`, `PlanJob`, `Start`, `Die` (the workflow); `Defer`, `TurnAway`, `Begin`, `Expire`, `Exit` (the loop); `Throw`, `Refuse`, `Publish`, `Record` (stages, awaited or not) |
| `Errors` | the error table of `core/model/errors.mjs`, and what the retry policy and the alerts make of it | none | |
| `Outbound` | `app/preflight.mjs`, `infra/limiter/`, `infra/breaker/`, `infra/retry/`: the requests to one source | the clock `hourLeft`, `dayLeft`; the switch `enabled`; the files `budget`, `breaker` and `cooldown`; the call `pc`, `attempt`, `code`; histories of what was sent, of trials, of kills | `StartCall`, `Reserve`, `Admit`, `Send`, `Answer`, `Record`, `Retry`, `Wake`, `Crash`; `Tick`, `FlipSwitch` |
| `PublishOrder` | the promise: neither branch loses what it has, and the state claims no more than the payload | `data`, `state` | publish, record |
| `Publication` | `infra/git.mjs` and `adapters/publisher/git-data.mjs`: several shards on one remote | `source`, `remote`; per shard `local`, `own`, `since`, `staged`, `pc`, `branch`, `attempt`; `faults` | `SourceChanges`, `CheckoutData`, `CheckoutState`, `Harvest`, `Commit`, `Push`, `PushRejected`, `GiveUp`, `Rebase`, `RebaseThrows`, `JobEnds`, `Crash` |
| `Extract` | signals, refusals, the structure check, the rating cascade, what is quarantined | none | |
| `Paging` | `pagination.mjs`: when scrolling stops, and why | none | |
| `Acquire` | stage 2: the DOM adapter, the two APIs and the CSV file behind `acquireVia`, and the browser a shard's targets share | `launching`, `launches`, `dead`, `open`; per target `pc`, `request`, `report`, `page`, `crawl` and the histories `steady`, `hurt`; `faults` | one per step of an adapter, a page that changes, a call that throws, a browser that dies |
| `Resolver` | `resolver.mjs`, `listing-identity.mjs`, `name-match.mjs`, run after run | `config`, `shown`, `leads`, `cache`, `age`; `pc`, `plan`, `page`, `result`; `sinceSuccess`, `matching`, `drifted` | `Choose`, `OpenListing`, `Search`, `Verify`, `Throw`; `NextDay`, `Retitle`, `Redirect` (the platform), `Configure` |
| `Alerts` | `core/health/alerts.mjs`, `github-issues.mjs` | `errorClass`, `maintenance`, `stage`, `queue`, `listed`, `issues`, `faults` | `RunEnds`, `ListOpen`, `ListRefused`, `Deliver`, `DeliverRefused`, `Delivered`, `Close`, `CloseRefused`, `Notified`, `Die`, `OperatorCloses` |
| `Settings` | `app/config/`, `validate-config`, and what the registry and the preflight read of the same file | `draft`, `environment`, `loaded`, `report`, `merged`, `verdict` | `Edit`, `SetEnvironment`, `Validate`, `Load`, `Merge`, `Harvest` |
| `Store` | `infra/fs-atomic.mjs`, `json-file.mjs`, `git-state.mjs`, system call by system call | `syncs`, `writer`, `begun`, `acked`, `temp`, `file`, `entry`, `blackout`, `lines`, `open`, `tried`, `appended`, `kills` | `Begin`, `WriteTemp`, `Rename`, `SyncDirectory`, `Fail`, `WriteBack`, `AppendHealth`, `Kill` (which may tear an append), `PowerLoss` |
| `HarvestsProofs`, `PipelineProofs`, `ShardProofs`, `OutboundProofs`, `PublicationProofs`, `AcquireProofs` | the theorems about the module of that name | | |
| `ServicesProofs` | the theorems about `Store`, `Alerts`, `Resolver` and `Settings` | | |
| `FoldLemmas` | folds and sums over finite sets and sequences: what the proofs need of the community modules' | | |
| `MC…` | instances for TLC | | |

*Composition.* `Pipeline` extends `Reconcile` and `Gate`: its stage 6 *is*
`ReconcileLedger`, its stage 9 *is* `EvaluateGate`. `Harvests` is the same reconciler
with the source taken away, so that its laws hold whatever a harvest delivers.
`Acquire` composes `Extract` and `Paging` with the browser, and its `report` is what
`Reconcile` classifies. `Outbound` and `Alerts` share `Errors`. `Harvests` is shown to
implement `ReviewLifecycle`, `Publication` to implement `PublishOrder`, and `Pipeline`
to implement `Harvests`.

### How the code maps

*Ledger.* The code's Map is a function to records with `NoRecord` where there is no
key; a change that is `null` is `NoRecord` and is skipped by `ApplyBatch`, as in
`applyBatch`. Both layers of defence are kept: `reconcile` decides (`DecideAbsent`)
and the transition decides again (`NextMissing`). Instants are numbers and `null` is
0. An identity hash is a member of `Ids`, a content hash of `Contents`. The file of a
ledger is the function of its present records; `FromJSON` fills in what is absent.

*Reconcile.* The code collects its changes first and rebuilds the ledger once; each
change depends on the prior ledger and one identity, so they are one function. The
sweep of the denylist and the stamp of the harvest follow, in the code's order.

*Gate.* Means are in hundredths, which is what the code rounds to; ratios are
compared by cross-multiplication. The code compares doubles, so at the very limit of
G-04 it may reject what the model accepts; nothing checked here sits on that limit.

*Pipeline.* A review on the source has an author, a head (the rating and the first
512 graphemes, what the identity hash covers) and a rest (what only the content hash
covers). Stages 1 to 9 are one action, because nothing they read is written by
anybody else meanwhile; the source and the denylist, which do move, are read once and
early, so their moves are taken while no run is publishing. Stage 10 is one action
per file. An artifact is what its content hash covers and the instant that hash
excludes. A look at the source ends by the conditions of `evaluateStop` in their order:
the cap, an advertised total that may lag behind the source (`Lags`) or be missing, a
list that is quiet near that total (`ExhaustedPercent`, 95 in the code) or far from it,
the time. Two publishers can be wired: `git`, whose bytes read back, and
`filesystem`, which is what `buildDependencies` wires, and whose answer
`publisherPort` cannot parse. A read of a file that is there gives its text, or fails,
which `readOrNull` turns into null, or gives text that does not parse (`Reads`). The
denylist is the one the composition root is given; `main` as shipped passes none.

*Shard.* Targets are numbers, in the order of their composite keys, which breaks the
planner's ties; the planner's list is *the* arrangement of a shard's targets by cost and
key, which `ShardProofs` shows to exist. A target's `enabled` is its client's and its listing's, its `cadence`
is its tier's, its cost is what `EstimateCost` makes of its health record. The seeded
order is a choice, for no code depends on which order it is. The stages are those of
`Pipeline`, in three steps. When a budget is spent is a choice as well: the code
compares elapsed time, and stages and timers race. Outcomes carry a code: that of a
stage that threw is its error's (`Thrown`); a denial has the one code `ERR-POLICY` for all those preflight
gives. A target whose budget expired leaves `awaited` and stays in `reading` or
`writing`: its stages go on until `Exit`, which is `process.exit`.

*Outbound.* Time is relative: ticks to the end of the hour, hours to the end of the
day, ticks until the breaker's `retryAt`; a window's key is only ever compared with
the current one. Every write of a file is an action, as is the request itself, so that
a crash may come between any two. Codes are the table's, in the table's classes.

*Publication.* A branch is the version it holds of each target's files. What a push
asks of the remote's history is whether it moved since the last fetch, so a checkout
keeps the targets others changed since. A rebase meets a conflict where both sides
changed one target's files. `FreshCheckout` says whether a run starts from checkouts
made for it, as `actions/checkout` does.

*Acquire.* A page is the signals its text shows, those its feed shows, its rows by
kind, what elsewhere on it looks like a row, and the total it advertises. It may
change between any two looks, unless the history `steady` is asked about. Settling
times are in units of the shortest one, and elapsed time is their sum.

*Resolver.* A name is the sequence of its words after folding; an identifier is the
listing it denotes. Two names are similar when their common words, after legal forms
are dropped, are the threshold's percent of the shorter one's.

*Alerts.* An issue is named by its number, and a number is taken again only when
nobody holds it, which is sound because numbers are only compared. `listed` is what
`listOpen` answered, and grows stale while the notifier goes on.

*Settings.* A layer is the set of its leaves, a path and a value of some kind and
size. The fourth layer is what a listing of the client's file overrides, as the SAD has
it; `validate-config` never passes it. Reading a client file and handing the merged result to a harvest is what the
workflows intend; no code does it yet.

*Store.* A content is the number of the write it comes from. The disk and the page
cache are two values of one name; a power loss picks what the disk says, or what it
should have said, and may cut unsynced data short. A line of the series is the record
it holds or `Garbage`; a torn append leaves the last line without its end.

## 3. The runs

| Run | Bounds | What it shows |
|---|---|---|
| `harvests` | 2 reviews, 2 contents, 3 instants, 2 confirmations, 1 edit | the laws of the reconciler, and that it implements `ReviewLifecycle` |
| `pipeline` | 2 authors, 1 head, 2 rests, 4 runs, 1 crash, totals that are missing, right or one short; filesystem publisher | the ledger is never ahead of the site; what it removed is not on the site; a run with nothing new for a visitor rewrites nothing; a tombstone rests on recorded looks that took the list for finished |
| `pipeline_gate` | 2 authors, 2 heads (five stars and one), 2 runs, 1 crash, 1 erasure, a force by an operator or a schedule, the gate's own limits, reads that succeed, fail or give garbage; git publisher | no publication of a run that could read the last one blanks the site, or shrinks or shifts it beyond the limits without reasoned, unscheduled force; what the ledger removed stays off the site |
| `pipeline_capped` | a cap of one on a listing of two | *violation*: a review beyond the cap is tombstoned (section 6) |
| `shard` | 2 shards, 3 targets that run and 1 disabled, 4 health records, 2 instants, both budgets | the plan partitions and balances, every target is reported exactly once, exit codes are honest, every process ends |
| `outbound` | 2 requests an hour, 3 a day of two hours; 2 failures open the circuit, for one tick and then two; 1 crash; one code for each retry allowance, a blocked one and an unknown one | no window sees more requests than its budget, but for one reserved in the window before, whatever crashes; at most one request leaves between two openings of the circuit; a half-open circuit has a trial under way or a crash to explain it; an open circuit is tried again; every call ends |
| `publication` | 2 shards, 2 targets, one of them in both plans, versions 1 and 2, 1 fault; fresh checkouts | on the remote, state is never ahead of payload, and `PublishOrder` is kept, whatever races; a payload eventually arrives; every publication ends |
| `acquire` | 2 targets, 10 kinds of page, all adapters, 1 fault, 3 API pages, 20 reviews advertised | one browser, closed contexts; a challenge is reported as one; a *full* report hands on or lists as rejected every row the adapter was shown; crawls are bounded |
| `resolver` | 2 listings, 4 names, 6 configurations, a TTL of 2 days, threshold 82 | a search happens only for a listing without an identifier of its own that no run of the last TTL days verified |
| `alerts` | 2 targets, a critical condition of the source and a lesser one of a target, 2 faults | no target has two issues of one condition; a critical one is heard again and again while it lasts, a cleared one is eventually closed |
| `settings` | 13 versions of one client file, two of them with overrides, 7 environments, profiles and flags | every setting that is loaded is what its trace says; a variable of the engine's is heard or refused, unless a flag named its setting, a part of it or what it is part of; pages are read only for a client with a complete, acknowledged, permitted record |
| `store` | a ledger and a durable budget, 2 writes each, 3 appends, 2 kills, 1 power loss | a name leads to the old file or the new one; an acknowledged durable write survives a power loss; a kill costs the series one whole record at most |

*Why these bounds are enough.* Two reviews are what it takes for one to be absent
while another is seen, for a count to drop without reaching zero, and for a cap of
one to hide one. Three instants are two confirmations and a return; four runs add a
crash or a refusal between them, and two are what a publication and its successor take.
In `pipeline` the count-drop limit is set to 60 percent so that one review of two may go
and both may not, which is the same comparison as 20 percent of a listing of hundreds;
`pipeline_gate` has the gate's own limits, with which losing one of two is a collapse. In
both, half of the advertised total is enough for a quiet list to be finished: 95 percent
of two is two, and the case where a finished list hides a review would never come up
(beyond twenty reviews it does). `pipeline_capped` keeps the code's 95. One stop reason stands for each class `reconcile` tells
apart in `harvests`; `Pipeline` derives the reason from what was seen. Authors, ids,
contents and rests are symmetric where no property names one.

Three targets over two shards give one shard two of them, which is what an orphan
beside an awaited target takes; two instants are what it takes for two shards to
disagree on what is due.

In `outbound` the day's budget is smaller than two hours' budgets, so that each of the
two limits refuses something the other allows; two cooldowns show the doubling and its
ceiling. In `publication` one shared target is what a rebase conflict takes, and a
second version is what makes a run find something to stage after one that failed. In
`acquire` nineteen of twenty are the 95 percent at which `stalled` becomes
`exhausted`; the pages are one for each branch of the extraction. In `resolver` the
names are one business under two legal forms, its branch, and another business. In
`alerts` two faults are two calls that fail in one run, or one that fails and a death. In `settings`
twelve of the files differ from a plain one in a place or two each, where a rule, a
layer or a record can go wrong. In `store` two writes are an old file and a new one, and three
appends put a torn line between two whole ones.

`CHECK_DEADLOCK FALSE` is given for `Pipeline`, where after `MaxTime` runs the source
may stand still, for `Shard`, where a harvest ends, and for `Store`, where the writes
are used up.

*Fairness.*
`Shard`: weak fairness of each process's `Loop`: preflight answers, the timer of a
target's budget fires, an emptied list leads to the exit. Nothing is assumed of the
stages, which may hang: that is what the budget is for. That preflight answers is a
real assumption, since the code awaits it outside the budget.
`Outbound`: weak fairness of the steps of a call (the process goes on, and a request
is answered or times out), of the clock, and of the start of an authorised call, which
the cadence brings back.
`Publication`: per shard, weak fairness of the checkout (the schedule) and of the
publishing steps, and strong fairness of a full harvest, which succeeds now and then
and not at every try. No fairness makes a push win: losing it three times ends the job
and the next run publishes.
`Alerts`: weak fairness of the run's end, of the list, of each delivery and of each
closing; calls fail as often as `MaxFaults` says, and the operator is never assumed to
do anything.
The other specifications are `Init /\ [][Next]_vars` and claim safety only.

*The histories.* Variables the comments call histories (`absentAt`, `goneAt`, `torn`,
`sentHour`, `sentDay`, `trials`, `sinceKill`, `steady`, `hurt`, `blackout`, `kills`…)
record what happened in the world, know nothing of the state they judge, and no
guard of a program step reads them. `goneAt` counts the looks of runs that were
*recorded* (published) and took the list for finished: it says what a run looked at and
saw, not what the source held. A run that was refused or died forgets what it saw, so a
sighting in such a run does not break a sequence of absences; and a look that ended at a
stale total, or near a right one, did not see the rest. Those are real weaknesses of the
design (listed as hazards), and `TombstoneMeansGone` says exactly what holds;
`TombstonedIsWithdrawn`, the stronger statement, does not (section 6).

## 4. What is proved

Forty-seven theorems, for every value of the constants the named assumptions admit.

| Theorem | States |
|---|---|
| `HarvestsProofs` | |
| `TypeCorrect` | `TypeOK` |
| `SelfCheckNeverFails` | `LedgerSound`: a reconciled ledger always passes `checkLedgerInvariants` |
| `StreaksAreEvidence` | `StreakIsEvidence`: a streak never exceeds the instants that looked in vain |
| `ErasureHolds` | `ErasedIsUnpublished` |
| `PartialIsHarmless` | `PartialLeavesAbsentAlone` |
| `ReplayIsHarmless` | `ReplayIsNoOp`: reconcile is idempotent at one instant |
| `TerminalHolds` | `TerminalIsForever` |
| `FirstSightHolds` | `FirstSightPinned` |
| `RemovalIsConfirmed` | `RemovalNeedsConfirmation` |
| `ImplementsLifecycle` | `KeepsLifecycle`: `Harvests` implements `ReviewLifecycle` |
| `PipelineProofs` | |
| `ImplementsHarvests` | `Pipeline` implements `Harvests`: the ledger on disk moves as one that is only ever reconciled |
| `SelfCheckNeverEndsARun` | no ledger a run reconciles fails the self-check that would end the run |
| `DurableLedgerLaws` | so the laws of `Harvests`, and `ReviewLifecycle`, hold of the ledger on disk |
| `TombstonesAreGone` | `TombstoneMeansGone`, where the listing stays below the cap, nothing is quarantined and no more confirmations are configured than the default |
| `GateHoldsOverGit` | `NoCollapseOverGit`: of runs that could read what is published |
| `RemovedIsDown` | `RemovedStaysDown`: what the ledger removed is not on the site |
| `LedgerGoesLast` | `StateNeverAhead` |
| `QuietRunsRewriteNothing` | `SameReviewsSameFiles`, where files on disk can be read: a run with nothing new for a visitor, after one that did not die, rewrites nothing |
| `ShardProofs` | |
| `ShardTypes` | `TypeOK` |
| `PlansAreSound` | `PlanIsSound`: the plan partitions what is due, and balances it |
| `DisjointAtOneInstant` | processes that start at one instant take no target twice |
| `LoopsDescend` | each step of a process's loop leaves it less to do, and nothing leaves it more |
| `TargetsAccounted` | `EveryTargetAccounted`: each target a shard took is to come, awaited, or reported exactly once |
| `OnlyClearedRun` | `OnlyTheClearedRun`: what was denied, deferred or not decided on never runs or writes |
| `ExitHonest` | `ExitIsHonest`: red means all failed, 0 means each recorded or refused |
| `OutboundProofs` | |
| `BudgetIsKept` | `BudgetHolds`: no window sees more requests than its budget, but for one reserved in the window before |
| `TrialIsSingle` | `OneTrial` |
| `HalfOpenHasAReason` | `HalfOpenIsExplained` |
| `CallsAreBounded` | `CallIsBounded`: a call sends three requests at most, however its error classes change |
| `BlockedEndsTheCall` | `BlockedIsTerminal`: a blocked answer is the last of its call |
| `SwitchStopsTheSource` | `KillSwitchStops`: what leaves after the kill switch is engaged is the rest of one call |
| `PublicationProofs` | |
| `StateIsNeverAhead` | `RemoteStateNeverAhead` |
| `PublicationKeepsOrder` | `KeepsOrder`: `Publication` implements `PublishOrder` |
| `AcquireProofs` | |
| `AcquisitionHolds` | the invariant the next four follow from |
| `OneBrowserServesAll` | `BrowserIsShared` |
| `RefusalsAreNamed` | `ChallengeIsNamed`: a challenge that stays one is reported as one |
| `CrawlsEnd` | `CrawlIsBounded` |
| `FullLooksAddUp` | `FullHidesNothing`: a full look accounts for every row the adapter was shown |
| `ServicesProofs` | |
| `NothingTorn` | `OldOrNew` |
| `DurableIsDurable` | `DurableHolds` |
| `SeriesLosesLittle` | `LossIsBounded` |
| `IssuesAreNotDoubled` | `OneIssuePerTarget` |
| `SearchComesLast` | `SearchIsLast` |
| `NothingIsGuessed` | `NeverGuesses`: a listing adopted by search was the only answer that matched |
| `PagesNeedARecord` | `DomIsAuthorised` |
| `NoVariableIsVain` | `VariableIsHeard` |
| `TraceExplains` | `TraceNamesTheWinner`: each setting is what the trace gives for its path |

*Harvests.* `IInv` is the conjunction of the types, of `last_full_harvest_at <=
now`, of the soundness of each record (its state and its streak agree, its stamps are
ordered, its history has as many entries as it has revisions less one) and of the
evidence for its streak: the streak is at most the number of recorded instants in
`absentAt`, which are finitely many and none later than the last full harvest.
`StreakIsEvidence` alone is not inductive: nothing in it says that the instant of the
harvest at hand is not already in `absentAt`, in which case the streak would grow and
the evidence would not. That is what `alreadyCounted` and `last_full_harvest_at` are
for. A lemma per transition says what it does to one record; a lemma per way through
`ReconcileLedger` combines them; `StepIInv` follows, and every theorem from it.

*Pipeline.* `PipelineInv` says that while a run is publishing, the artifacts it need
not write any more are already those of the ledger it holds, and that this ledger
keeps every terminal state of the one on disk. Without the second half a crash in
the middle would leave artifacts that neither ledger explains. The ledger goes through
its file (`ToJSON`, `FromJSON`); the lemma `ReadBack` says that nothing is lost there.
`QuietRunsRewriteNothing` takes three things: that reconciling without a change in what a
visitor is shown keeps dates and first sightings, and with them every hash, over the
observed pass, the absent pass and the sweep; that unless a run died, what is on disk is
what the ledger on disk projects to (`TidyInv`); and that the file compared is the one
that was read.

*Pipeline and Harvests.* `HarvestInv` says that the ledger a run has in hand is one
merge, as `Harvests` has it, of one harvest into the ledger on disk, at the run's
instant. A run that publishes maps to `Tick`, its last write to `Harvest`, and every
other step, a crash and a rejection included, to a stutter or a `Tick`. The laws of
`Harvests` are then those of the disk. `absentAt` there and `goneAt` here are kept
apart on purpose: one counts what the ledger was told, the other what a run saw of the
source. `TombstonesAreGone` needs them to agree, which they do below the cap, where every
look that counts took the list for finished, and where nothing is quarantined; its third
hypothesis is there because `removalConfirmations` is read under a key the schema does
not have, so that the default always decides: with more configured, the property fails.
`GateHoldsOverGit` carries the gate's judgement from stage 9 to the write of the
payload; the mean is a sum over the live records, and a sum of records that are the
same is the same in whatever order it is taken (`FoldLemmas`).

*Shard.* `Sound(k)` speaks of shard `k` alone, so that a step of another shard
keeps it (`Frame`). It has three parts. `Books`: what a shard took is split into what
is to come, what is awaited (one at most) and what is reported (once each). `Cleared`:
whatever stages have touched is awaited or has an outcome of a target that was let
through; this is what makes orphans harmless to the books, and is why
`OnlyTheClearedRun` alone is not inductive. `Phases`: a process that does not run
has no stages, and one that exited has the exit code of its final outcomes. None of
this uses what the planner gives a shard. That the plan is sound is about the fold that
places the targets: an arrangement by cost and key exists for any finite set
(`OrderExists`, by taking its last element off), a load is a sum, and `Fair` holds after
each target is placed: the shares so far are disjoint and hold what was placed, and no
share is costlier than another by more than any of its own targets, because the target
placed last is the cheapest yet and its share was the least loaded. A target that two
shards take needs two instants (`DisjointAtOneInstant`): the plan depends on the clock
and on health records which no harvest writes. `StepsLeft` is the measure behind
`EveryShardEnds`: two for each target to come, one for the one awaited, one for the exit.

*Outbound.* Four invariants, of which only the last uses another's bound. `BudgetInv`:
the requests of a window, with one that is reserved and not yet sent, are at most one
more than its file counts, the one that was reserved in the window before; a crash
between the two leaves the file ahead, never behind. `BreakerInv`: a request leaves in
a circuit that is not open, and one that is not half open has no trial. `CallInv`:
what a call has sent is at most its attempts, and every class allows three at most.
`KillInv`: with the switch engaged, what left since is what the running call sent.

*Publication.* `PublicationInv` is the types, `RemoteInv` (on the remote the state is
not ahead), and per shard `ProgressInv` (what may be staged and committed, by where it
stands) and `FileInv` (a file that is not its own is not newer than the remote's, one
of its own is not older unless somebody changed it since, and the state it is about to
push is not ahead of the payload it has, or has pushed). A shard that rebases takes on
what others pushed, so the statement about one checkout needs the statement about the
remote, and the other way round. It is proved under `FreshCheckout`: with a retained
checkout it is false (section 6).

*Acquire.* `AcquireInv` is the types, `Launches` (one at most, and none that nobody asked
for) and, of each target, what its page shows, the pace of its crawl,
its share of the browser, the name of its refusal and what its report accounts for. An
action moves one target; `OthersStay` and `SameStaysSound` spare the others, so that
each part is proved of the target that moved. What a full report accounts for rests on
how extraction splits the rows, not on which pages there are.

*Settings.* `SettingsInv` says that what was merged passed V-3, and that a verdict is
about the document that is merged. The other two theorems are about the merge of the
layers: what a later layer says of a path, of a part of it or of what it is part of
replaces what an earlier one said. `LayersInOrder` unfolds the fold one layer at a time;
`WinnersOnly`, by induction over the layers, finds for each leaf of the result the last
layer that names its path, which is the one the trace's own walk ends at; and the
environment is last but for the flags. That a path has one leaf in a layer is an
assumption of the files and is shown of the environment's layer and of the migrated file.

*Alerts.* `AlertsInv` adds to the property what the stale list is worth: an open issue
of a target that is not on it belongs to a target whose turn is over. *Resolver.*
`ResolverInv` adds that a listing verified in the last TTL days is in a cache no older
than that, and that a route taken from a search had one match. *Store.* `FileInv` says for each file what may be behind its name,
in the cache and on the disk; for the series, that each torn end is paid for by a kill.

*Sums and folds.* The community modules define a fold by recursion over finite sets,
picking one element at a time. `FoldLemmas` shows by the least counterexample among the
naturals that such a fold exists, stays in the set its steps stay in, and, when it adds
naturals, does not depend on what is picked.

*From which assumptions.* The `ASSUME`s named in the modules. `Harvests`: at least two
confirmations (`removal.mjs` refuses fewer) and known stop reasons. `Pipeline`: an
identity is an author and a head, ratings are within one and five stars, cap and
thresholds are naturals. `Shard`: at least one shard, finitely many targets, costs at
least one, as `estimateCost` has them. `Outbound`: positive limits. `Publication`: what
the configurations may plan; its theorems have `FreshCheckout` as a hypothesis.
`Acquire`: pages and bodies of known shape, positive limits. `Alerts`: an injective
plan. `Settings`: no layer has a leaf inside a leaf, a variable's name stands for one
path and a path has one name.
`Store` and `Resolver`: bounds that are naturals and names that are not empty. TLC
evaluates each in a run.

*What is only model-checked.* Liveness (`EveryShardEnds`, `OpenCircuitIsTried`,
`CallEnds`, `PayloadArrives`, `RunEnds`, `CriticalIsHeard`, `ClearedIsClosed`), which
with ENABLED is out of the prover's reach. Every invariant and every action property
that a run checks is stated by a theorem. Mutants are TLC's too, and so is the
violation of `pipeline_capped`.

## 5. Mutants

Beside several definitions stands a `Mutant:`, the same definition with a plausible
bug: a missing reset, a dropped guard, an off-by-one, a swapped order. Nothing uses
them. Putting one in its original's place violates the property it is listed with in
`PROJECT.json`, which is how it is known that the property can fail.

## 6. Where code and documents disagree

`pipeline_capped` is a run that TLC finds violated, with the shortest trace as its
witness. A `full_capped` harvest moves streaks, so a review beyond the cap is
tombstoned while it is still on the source. The requirement FR-055, the plan's table
and the adapter's own comment say it must not; the TRD's TR-REC-010 sides with the
code. The Places adapter, which reports `cap_reached` always, meets this on every
harvest.

The others were met while modelling, and are noted here and not kept as runs.

*Ledger, gate and stages.*
- A crash after the payload and before the ledger does not heal into identical bytes:
  the next run has another instant, and with it another first sighting and date for
  what is already published (`git-data.mjs:23`).
- As wired, the gate never sees the published payload, and is not told so. Over git too
  a payload whose read failed is taken for a first publish (`git-data.mjs:171` turns every
  error into null) and one that does not parse for a payload without stats, and either
  switches the comparisons off, where `composition.mjs:414` says unreadable is not absent:
  `Pipeline`'s `NoCollapse`.
- A look may be taken for a finished one while reviews are missing from it: at an
  advertised total that is stale and too low, and at 95 percent of a right one, once there
  are more than twenty reviews. Two such looks tombstone a review the source still has
  (`pagination.mjs:140`, `:180`, "the list is finished, not stuck"): `Pipeline`'s
  `TombstonedIsWithdrawn`.
- Erasing the last published review looks like a collapse to G-02, which no force
  overrides.
- The gate is handed a report of another shape than G-06 reads, and sees a quarantine
  rate of zero.
- The rating and the head of the text are part of the identity: an edited review is
  published twice.

*Runs.*
- A target's budget ends the wait for its stages and not the stages: it is reported as
  failed and publishes afterwards, beside the next.
- The TRD rests the absence of locks on one plan, computed once. Every process computes
  its own, at its own instant; two may take the same target. As shipped no health is
  wired, every scheduled target is due, and the plans agree.
- A target the gate refused is reported as succeeded and its shard exits with 0, where
  5 is documented; a challenge is a failure, with 3 or 4 where 7 is documented; targets
  reach the stages without their configuration.

*Requests.*
- `errors.mjs:333` says of `opensBreaker` that observing such a class "stops the source
  being contacted", and marks the two challenge classes so; nothing reads it, and the
  breaker counts a challenge as one ordinary failure: `Outbound`'s `BlockedStopsContact`.
- The retry executor counts attempts in all, so the classes documented as retried once
  after the first answer are never retried (`errors.mjs:305`); a backoff without a base
  delay waits nothing; full jitter on a 429 may wait next to nothing.
- `isRetryable` of an unknown code is true, and the policy's answer is false.
- A crash during a trial leaves a circuit half open, which admits nothing for ever.
- The kill switch is not asked again between retries; a preflight that is given no
  budget or breaker lets everything pass.
- Budget and breaker files are per source, and shards with checkouts of their own do
  not see each other's counts.

*Publication and store.*
- In a checkout kept from an earlier run, a rebase that failed leaves state on top of
  payload that was never pushed, and the next run pushes it (`git-data.mjs:202`).
- A torn line swallows the whole record appended after it, where the comment has only
  the torn one lost (`git-state.mjs:193`).

*Acquisition and identity.*
- `advertisedTotal` is read from a global no real page sets, so a DOM harvest ends
  stalled, out of budget or capped, and is never full on its own account.
- Rows are counted in the whole document and extracted from the surface; the longest
  documented settling wait is never reached; a dead browser is reported as a missing
  surface.
- A failed launch is memoised, so it costs every later target of the shard too; nobody
  closes the browser; an empty listing is never read as one.
- Rows that are quarantined, rejected or null are absent from a harvest that calls
  itself full.
- A name that drifted is resolved through the search, when one is allowed.

*Configuration.*
- Nothing but `validate-config` calls the loader, so layers, variables and limits never
  reach a harvest. `harvest.yml:142` sets two variables the loader refuses as unknown.
- A variable for a setting whose default is null stays a string, and numbers written as
  strings escape the limits. The trace keeps leaves of an object that was replaced.
- A listing's overrides escape the limits until a run loads them: V-5 reads the file's own
  paths and `validate-config` passes no listing layer (`commands.mjs:119`), where
  `semantic.mjs:264` and `semantic.test.mjs:226` have "no override exceeds a hard ceiling"
  and the SAD puts overrides at `listings[].overrides` (`07-scale-and-config.md:391`):
  `Settings`' `OverridesAreBounded`.
- V-3 accepts authorisations preflight refuses, although
  `authorisation-contract.test.mjs:169` has them agree; V-1, V-2 and V-7 read fields
  under other names than the registry and the resolver do.

*Alerts.*
- An issue is closed as cleared although its condition holds, when maintenance suppressed
  its alert: `closeCleared` is handed the alerts that may be delivered
  (`github-issues.mjs:65`, `alerts.mjs:193`), as it is when its target was not looked at in
  that run: `Alerts`' `ClosedMeansCleared`.
- A condition of the source may have an issue for every target that met it, because the
  list is not refreshed between two alerts of one run.

## 7. What is not modelled

*Pure text work* (the HTML parser, selector packs, dates, languages, normalisers,
hashing): no state and no order; only what it decides (quarantined or not, which hash
covers what, which signals a page shows) is in `Pipeline` and `Extract`.
*Enrichment*: its result reaches no later stage. *Logging, redaction, command line,
metrics, doctor, the text of alerts, the manifest's layout, pacing*: input and output.
*Front end, examples, scripts*: consumers. *Workflows*: only the plan and harvest jobs
of `harvest.yml`, their checkouts, and that one harvest runs at a time. *Ordering,
filters, latest_count, schema.org* of the projection, *unknown fields* of ledger
files: nothing checked depends on them. *near-duplicates*: reported, never acted on.
*Projection by command*: wired with no targets. *validateRecord*: what it finds decides
whether a record is quarantined (`normalize-records.mjs:99`), which is a choice in
`Pipeline` and a kind of row in `Extract`. *The aggregate checks*: no caller in the
pipeline.

## 8. What could come next

The plan the development began with (`Ledger` to `Shard`, then `Outbound`,
`Publication`, `Acquire`, and the proofs) is done, with `Alerts`, `Resolver`,
`Settings` and `Store` beside it. What would add most now: `Outbound` over several
checkouts of the budget file, once a workflow pushes them; `Shard` and `Publication`
as one specification, once the git publisher is wired; convergence of `Pipeline` to a
source that stands still.
