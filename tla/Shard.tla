------------------------------- MODULE Shard -------------------------------
(***************************************************************************)
(* One harvest over many targets: the workflow plans, then starts one      *)
(* process per shard, and each process computes the plan AGAIN at its own  *)
(* instant (cli/commands.mjs, harvestCommand), keeps its share, and runs   *)
(* it target by target (app/orchestrator.mjs, app/target-runner.mjs).      *)
(*                                                                         *)
(* The stages of a target are three steps here: they read, they publish    *)
(* (Pipeline's StageArtifact, all of them) and they write the ledger       *)
(* (Pipeline's WriteLedger).  A target whose budget has expired is no      *)
(* longer awaited, and its stages run on beside the next target until the  *)
(* process ends.  Timers and stages race, so when a budget is spent is a   *)
(* choice and not a function of the clock; the clock decides what is due.  *)
(***************************************************************************)
EXTENDS Integers, FiniteSets, Functions, FiniteSetsExt, SequencesExt

CONSTANTS
  Targets,       \* the composite keys, as numbers in the keys' order
  ShardCount,    \* --shards
  Clients,       \* what the configuration says of each target
  Healths,       \* the health records the run may find
  Verdicts,      \* what the gate of the run, preflight, may answer
  Thrown,        \* the codes a stage's error may have, or is given for none
  TargetBudget,  \* is budgetTargetMs given?
  RunBudget,     \* is budgetRunMs given?
  MaxTime        \* bound on the clock

Shards == 0 .. ShardCount - 1

Never     == 0   \* no last success
OffDuty   == 0   \* the cadence of a tier that never runs on a schedule

ASSUME ShardCountAssumption == ShardCount \in Nat \ {0}
ASSUME TargetsAssumption == Targets \subseteq Nat /\ IsFiniteSet(Targets)
ASSUME ClientsAssumption ==
  Clients \in [Targets -> [enabled : BOOLEAN, cadence : Nat, floor : Nat]]
ASSUME HealthsAssumption ==
  \A h \in Healths : h \in [Targets -> [last_success_at : Nat, cost : Nat \ {0}]]
ASSUME VerdictsAssumption == Verdicts \subseteq {"allow", "deny", "throw"}
ASSUME ThrownAssumption == "ERR-PREFLIGHT-FAILED" \notin Thrown
ASSUME BudgetsAssumption ==
  TargetBudget \in BOOLEAN /\ RunBudget \in BOOLEAN /\ MaxTime \in Nat \ {0}

VARIABLES
  now,        \* the wall clock
  health,     \* last-run facts; no harvest writes them
  matrix,     \* what the plan job told the workflow
  process,    \* of each shard: waiting, running, exited or dead
  mine,       \* the targets each shard took
  todo,       \* those it has not come to
  awaited,    \* the one whose stages it awaits, if any
  exhausted,  \* its run budget is spent
  outcomes,   \* what it reports of each target
  reading,    \* the targets whose stages are before their writes,
  writing,    \* and between the payload and the ledger
  published,  \* the targets whose payload it wrote,
  recorded,   \* whose ledger it wrote,
  refused,    \* and whose payload the publish gate refused
  exit        \* its exit code

plan  == <<now, health, matrix>>
loop  == <<process, mine, todo, awaited, exhausted, outcomes, exit>>
work  == <<reading, writing, published, recorded, refused>>
vars  == <<plan, loop, work>>

(***************************************************************************)
(* The plan                                                                *)
(***************************************************************************)

\* dueness: the floor of a client may lower the cadence of its tier, and no
\* more than that.
Due(t, at) ==
  LET cadence == Max({Clients[t].cadence, Clients[t].floor})
      last    == health[t].last_success_at
  IN  /\ Clients[t].enabled
      /\ Clients[t].cadence # OffDuty
      /\ last = Never \/ at >= last + cadence

DueTargets(at) == {t \in Targets : Due(t, at)}

EstimateCost(t) == health[t].cost

Load(S) == MapThenSumSet(EstimateCost, S)

\* Mutant: the number of targets is balanced, and not their cost.
LeastLoaded_Fewest(shares) ==
  Min({k \in Shards : \A j \in Shards : Cardinality(shares[k]) <= Cardinality(shares[j])})

LeastLoaded(shares) ==
  Min({k \in Shards : \A j \in Shards : Load(shares[k]) <= Load(shares[j])})

\* planShards: the costliest target first, and of two alike the one whose key
\* comes first; each to the least loaded shard.
Before(a, b) ==
  \/ EstimateCost(a) > EstimateCost(b)
  \/ EstimateCost(a) = EstimateCost(b) /\ a < b

CostliestFirst(S) ==
  CHOOSE q \in [1 .. Cardinality(S) -> S] :
    Range(q) = S /\ \A i, j \in DOMAIN q : i < j => Before(q[i], q[j])

PlanShards(S) ==
  FoldLeft(LAMBDA shares, t : [shares EXCEPT ![LeastLoaded(shares)] = @ \cup {t}],
           [k \in Shards |-> {}], CostliestFirst(S))

(***************************************************************************)
(* The exit code (EDR-030).  No outcome of runTarget has the code          *)
(* ERR-GATE-REJECTED, which exitForRun looks for among them; nor does      *)
(* preflight deny with ERR-BLOCKED-CHALLENGE.                              *)
(***************************************************************************)
States == {"succeeded", "failed", "blocked", "deferred"}

\* Mutant: a run none of whose targets succeeded has failed.
ExitForRun_NoneSucceeded(outs, missing) ==
  LET In(state) == {o \in outs : o.state = state}
  IN  IF missing # {} THEN "INTERNAL"
      ELSE IF In("failed") # {} THEN IF In("succeeded") = {} THEN "ALL_FAILED" ELSE "PARTIAL"
      ELSE IF In("blocked") # {} THEN "POLICY_BLOCKED"
      ELSE IF In("deferred") # {} THEN "PARTIAL"
      ELSE "OK"

ExitForRun(outs, missing) ==
  LET In(state) == {o \in outs : o.state = state}
      Coded(S, code) == \E o \in S : o.code = code
  IN  IF missing # {} THEN "INTERNAL"
      ELSE IF In("failed") # {} THEN IF In("failed") = outs THEN "ALL_FAILED" ELSE "PARTIAL"
      ELSE IF Coded(In("blocked"), "ERR-BLOCKED-CHALLENGE") THEN "CHALLENGE"
      ELSE IF In("blocked") # {} THEN "POLICY_BLOCKED"
      ELSE IF Coded(outs, "ERR-GATE-REJECTED") THEN "GATE_REJECTED"
      ELSE IF In("deferred") # {} THEN "PARTIAL"
      ELSE "OK"

ExitCodes == { "OK", "INTERNAL", "USAGE", "ALL_FAILED", "PARTIAL",
               "GATE_REJECTED", "POLICY_BLOCKED", "CHALLENGE" }

FailsJob(code) == code \in {"INTERNAL", "USAGE", "ALL_FAILED"}

MissingOutcomes(targets, outs) == targets \ {o.target : o \in outs}

(***************************************************************************)
(* The workflow (.github/workflows/harvest.yml)                            *)
(***************************************************************************)

Tick ==
  /\ now < MaxTime
  /\ \E k \in Shards : process[k] = "waiting"
  /\ now' = now + 1
  /\ UNCHANGED <<health, matrix, loop, work>>

\* The plan job: of its plan only the number of due targets is used.
PlanJob ==
  /\ matrix = "unplanned"
  /\ matrix' = IF DueTargets(now) = {} THEN "empty" ELSE "due"
  /\ UNCHANGED <<now, health, loop, work>>

\* The process of a shard starts, and plans for itself.
Start(k) ==
  /\ matrix = "due" /\ process[k] = "waiting"
  /\ process' = [process EXCEPT ![k] = "running"]
  /\ mine' = [mine EXCEPT ![k] = PlanShards(DueTargets(now))[k]]
  /\ todo' = [todo EXCEPT ![k] = mine'[k]]
  /\ UNCHANGED <<plan, awaited, exhausted, outcomes, exit, work>>

\* The runner dies, or the job runs out of its time.
Die(k) ==
  /\ process[k] = "running"
  /\ process' = [process EXCEPT ![k] = "dead"]
  /\ reading' = [reading EXCEPT ![k] = {}]
  /\ writing' = [writing EXCEPT ![k] = {}]
  /\ UNCHANGED <<plan, mine, todo, awaited, exhausted, outcomes, exit,
                 published, recorded, refused>>

(***************************************************************************)
(* The loop over the targets (runShard).  The order is a permutation       *)
(* seeded by the run's id: any target may be the next.                     *)
(***************************************************************************)

Outcome(t, state, code) == [target |-> t, state |-> state, code |-> code]

AtLoopHead(k) == process[k] = "running" /\ awaited[k] = {}

Take(k, t) ==
  /\ AtLoopHead(k) /\ t \in todo[k]
  /\ todo' = [todo EXCEPT ![k] = @ \ {t}]

\* What the run's budget may turn out to be, if one is given.
Spent == IF RunBudget THEN BOOLEAN ELSE {FALSE}

\* The outcome is in, and the run's budget is looked at.
Report(k, o) ==
  /\ outcomes' = [outcomes EXCEPT ![k] = @ \cup {o}]
  /\ \E spent \in Spent : exhausted' = [exhausted EXCEPT ![k] = spent]

Defer(k, t) ==
  /\ Take(k, t) /\ exhausted[k]
  /\ outcomes' = [outcomes EXCEPT ![k] = @ \cup {Outcome(t, "deferred", "ERR-BUDGET-RUN")}]
  /\ UNCHANGED <<plan, process, mine, awaited, exhausted, exit, work>>

\* gateOutcome: the run's gate denies the target, or cannot decide.
TurnAway(k, t, verdict) ==
  /\ Take(k, t) /\ ~exhausted[k]
  /\ \/ verdict = "deny"  /\ Report(k, Outcome(t, "blocked", "ERR-POLICY"))
     \/ verdict = "throw" /\ Report(k, Outcome(t, "failed", "ERR-PREFLIGHT-FAILED"))
  /\ UNCHANGED <<plan, process, mine, awaited, exit, work>>

Begin(k, t, verdict) ==
  /\ Take(k, t) /\ ~exhausted[k]
  /\ verdict = "allow"
  /\ awaited' = [awaited EXCEPT ![k] = {t}]
  /\ reading' = [reading EXCEPT ![k] = @ \cup {t}]
  /\ UNCHANGED <<plan, process, mine, exhausted, outcomes, exit,
                 writing, published, recorded, refused>>

(***************************************************************************)
(* The stages of a target, awaited or not.                                 *)
(***************************************************************************)

\* Mutant: an outcome is pushed for every end of stages.
Ends_Twice(k, t, o) ==
  /\ Report(k, o)
  /\ awaited' = [awaited EXCEPT ![k] = @ \ {t}]

\* Promise.race settles once: an end nobody awaits any more goes unheard.
Ends(k, t, o) ==
  IF t \in awaited[k]
  THEN Report(k, o) /\ awaited' = [awaited EXCEPT ![k] = {}]
  ELSE UNCHANGED <<outcomes, exhausted, awaited>>

\* A stage throws: nothing is caught on the way out, nor undone, and the
\* outcome has the error's own code when it has one.
Throw(k, t) ==
  /\ t \in reading[k] \cup writing[k]
  /\ reading' = [reading EXCEPT ![k] = @ \ {t}]
  /\ writing' = [writing EXCEPT ![k] = @ \ {t}]
  /\ \E code \in Thrown : Ends(k, t, Outcome(t, "failed", code))
  /\ UNCHANGED <<plan, process, mine, todo, exit, published, recorded, refused>>

\* The publish gate refuses the payload: stagePublish returns, and does not
\* throw, so that the target has succeeded.
Refuse(k, t) ==
  /\ t \in reading[k]
  /\ reading' = [reading EXCEPT ![k] = @ \ {t}]
  /\ refused' = [refused EXCEPT ![k] = @ \cup {t}]
  /\ Ends(k, t, Outcome(t, "succeeded", "none"))
  /\ UNCHANGED <<plan, process, mine, todo, exit, writing, published, recorded>>

Publish(k, t) ==
  /\ t \in reading[k]
  /\ reading'   = [reading EXCEPT ![k] = @ \ {t}]
  /\ writing'   = [writing EXCEPT ![k] = @ \cup {t}]
  /\ published' = [published EXCEPT ![k] = @ \cup {t}]
  /\ UNCHANGED <<plan, loop, recorded, refused>>

Record(k, t) ==
  /\ t \in writing[k]
  /\ writing'  = [writing EXCEPT ![k] = @ \ {t}]
  /\ recorded' = [recorded EXCEPT ![k] = @ \cup {t}]
  /\ Ends(k, t, Outcome(t, "succeeded", "none"))
  /\ UNCHANGED <<plan, process, mine, todo, exit, reading, published, refused>>

\* Mutant: the budget covers the harvest, and not the writes.
Expire_WhileReading(k, t) ==
  /\ TargetBudget
  /\ process[k] = "running" /\ t \in awaited[k] \cap reading[k]
  /\ Report(k, Outcome(t, "failed", "ERR-BUDGET-TARGET"))
  /\ awaited' = [awaited EXCEPT ![k] = {}]
  /\ UNCHANGED <<plan, process, mine, todo, exit, work>>

\* withBudget: the timer wins the race, and the stages are not told.
Expire(k, t) ==
  /\ TargetBudget
  /\ process[k] = "running" /\ t \in awaited[k]
  /\ Report(k, Outcome(t, "failed", "ERR-BUDGET-TARGET"))
  /\ awaited' = [awaited EXCEPT ![k] = {}]
  /\ UNCHANGED <<plan, process, mine, todo, exit, work>>

\* The manifest is written and the process exits, with what still runs in it.
Exit(k) ==
  /\ AtLoopHead(k) /\ todo[k] = {}
  /\ exit' = [exit EXCEPT ![k] = ExitForRun(outcomes[k], MissingOutcomes(mine[k], outcomes[k]))]
  /\ process' = [process EXCEPT ![k] = "exited"]
  /\ reading' = [reading EXCEPT ![k] = {}]
  /\ writing' = [writing EXCEPT ![k] = {}]
  /\ UNCHANGED <<plan, mine, todo, awaited, exhausted, outcomes,
                 published, recorded, refused>>

Loop(k) ==
  \/ \E t \in todo[k] : Defer(k, t)
  \/ \E t \in todo[k], verdict \in Verdicts : TurnAway(k, t, verdict)
  \/ \E t \in todo[k], verdict \in Verdicts : Begin(k, t, verdict)
  \/ \E t \in awaited[k] : Expire(k, t)
  \/ Exit(k)

Stages(k) ==
  \/ \E t \in reading[k] \cup writing[k] : Throw(k, t)
  \/ \E t \in reading[k] : Refuse(k, t) \/ Publish(k, t)
  \/ \E t \in writing[k] : Record(k, t)

Nobody == [k \in Shards |-> {}]

Init ==
  /\ now = 1
  /\ health \in Healths
  /\ matrix = "unplanned"
  /\ process = [k \in Shards |-> "waiting"]
  /\ mine = Nobody /\ todo = Nobody /\ awaited = Nobody
  /\ exhausted = [k \in Shards |-> FALSE]
  /\ outcomes = Nobody
  /\ reading = Nobody /\ writing = Nobody
  /\ published = Nobody /\ recorded = Nobody /\ refused = Nobody
  /\ exit = [k \in Shards |-> "none"]

Next ==
  \/ Tick
  \/ PlanJob
  \/ \E k \in Shards : Start(k) \/ Die(k) \/ Loop(k) \/ Stages(k)

\* A running process goes on, and its timers fire.  Stages may hang.
Fairness == \A k \in Shards : WF_vars(Loop(k))

Spec == Init /\ [][Next]_vars

FairSpec == Spec /\ Fairness

(***************************************************************************)
(* Properties                                                              *)
(***************************************************************************)

\* Every variable has its type; what a shard reports, it took.
TypeOK ==
  /\ now \in 1 .. MaxTime
  /\ health \in Healths
  /\ matrix \in {"unplanned", "empty", "due"}
  /\ process \in [Shards -> {"waiting", "running", "exited", "dead"}]
  /\ \A f \in {mine, todo, awaited, reading, writing, published, recorded, refused} :
       f \in [Shards -> SUBSET Targets]
  /\ exhausted \in [Shards -> BOOLEAN]
  /\ \A k \in Shards : \A o \in outcomes[k] : o.target \in mine[k] /\ o.state \in States
  /\ exit \in [Shards -> {"none"} \cup ExitCodes]

\* SCHED-05: at any one instant the plan partitions what is due, and no shard
\* is costlier than another by more than the cheapest of its own targets.
PlanIsSound ==
  LET due    == DueTargets(now)
      shares == PlanShards(due)
  IN  /\ UNION Range(shares) = due
      /\ \A j, k \in Shards : j # k => shares[j] \cap shares[k] = {}
      /\ \A j, k \in Shards : shares[j] # {} =>
           Load(shares[j]) - Load(shares[k]) <= Min({EstimateCost(t) : t \in shares[j]})

Reported(k) == {o.target : o \in outcomes[k]}

With(k, state) == {o.target : o \in {o \in outcomes[k] : o.state = state}}

\* TR-APP-006: no target is ever lost, or reported twice, whatever expires,
\* throws, is denied or ends late: each is to come, awaited, or reported once.
EveryTargetAccounted ==
  \A k \in Shards :
    /\ mine[k] = todo[k] \cup awaited[k] \cup Reported(k)
    /\ todo[k] \cap (awaited[k] \cup Reported(k)) = {} /\ awaited[k] \cap Reported(k) = {}
    /\ \A o, p \in outcomes[k] : o.target = p.target => o = p
    /\ process[k] = "exited" => Reported(k) = mine[k]

\* Only a target that preflight let through, within the run's budget, ever
\* runs or writes anything: not one that was denied, deferred, or that
\* preflight could not decide on.
OnlyTheClearedRun ==
  \A k \in Shards :
    LET turnedAway == {o.target : o \in {o \in outcomes[k] :
                         o.state \in {"blocked", "deferred"} \/ o.code = "ERR-PREFLIGHT-FAILED"}}
    IN  (reading[k] \cup writing[k] \cup published[k] \cup recorded[k] \cup refused[k])
          \cap (turnedAway \cup todo[k]) = {}

\* EDR-030: the job is red only when every target of the shard failed, and 0
\* means that each was published and recorded, or refused by the gate.
ExitIsHonest ==
  \A k \in Shards : process[k] = "exited" =>
    /\ FailsJob(exit[k]) <=> mine[k] # {} /\ With(k, "failed") = mine[k]
    /\ exit[k] = "OK" => mine[k] \subseteq recorded[k] \cup refused[k]

\* TR-APP-004: with a budget for each target, a process that runs comes to its
\* end, hung stages or not.
EveryShardEnds ==
  \A k \in Shards : process[k] = "running" ~> process[k] \in {"exited", "dead"}

(***************************************************************************)
(* What the repository says and the code does not do.                      *)
(***************************************************************************)

\* TR-APP-004: a budget aborts the target, so that one which is reported as
\* failed publishes nothing from then on.
AbortIsFinal ==
  [][\A k \in Shards : published'[k] \cap With(k, "failed") \subseteq published[k]]_vars

\* Section 62 of the TRD: no two shards of a run select the same target.
ShardsAreDisjoint ==
  \A j, k \in Shards : j # k => mine[j] \cap mine[k] = {}
=============================================================================
