------------------------------- MODULE Alerts -------------------------------
(***************************************************************************)
(* The alerts a run raises and the issues that carry them                  *)
(* (core/health/alerts.mjs, adapters/notifier/github-issues.mjs).          *)
(*                                                                         *)
(* src/ has no caller of notify yet.  The caller here hands it one alert   *)
(* for each health record of the run that has an error class, in the       *)
(* order of the plan, once per run.  Every call to the issue API may fail, *)
(* the process may die between any two of them, and the operator may close *)
(* an issue at any time.  An issue is named by its number, and a number is *)
(* taken again only when nobody holds it any more.                         *)
(***************************************************************************)
EXTENDS Errors, FiniteSets, FiniteSetsExt, SequencesExt

CONSTANTS
  Plan,          \* the targets of a run, in the order they are harvested
  Conditions,    \* the error classes a target's record may carry
  MaxFaults,     \* bound: calls that fail and processes that die
  NoError

ASSUME PlanAssumption ==
  /\ Plan \in Seq(Range(Plan))
  /\ IsInjective(Plan)
  /\ {"source", "run"} \cap Range(Plan) = {}
  /\ Conditions \subseteq Codes \cup {"UNKNOWN"}
  /\ NoError \notin Conditions
  /\ MaxFaults \in Nat

VARIABLES
  errorClass,    \* what the health record of each target says of the last run
  maintenance,   \* the notifier's mode
  stage,            \* where notify stands
  queue,         \* targets whose alert is to be delivered yet
  listed,        \* what listOpen answered, less what was closed since
  issues,        \* the issues that are open
  faults         \* faults still to come

alertsVars == <<errorClass, maintenance, stage, queue, listed, issues, faults>>

Targets == Range(Plan)

\* What an alert is about: the source, the run, or one client's listing.
ScopeKey(code, target) ==
  CASE code \in SourceCodes -> "source"
    [] code \in RunCodes    -> "run"
    [] OTHER                -> target

\* The severity is the class's own, so the class stands for both.
Fingerprint(code, target) == [condition |-> code, scope |-> ScopeKey(code, target)]

AlertFor(target) == Fingerprint(errorClass[target], target)

Failing == {target \in Targets : errorClass[target] # NoError}

\* Mutant: maintenance keeps everything back.
MutShouldDeliver(target) == ~maintenance
\* Maintenance keeps back everything that is not critical.
ShouldDeliver(target) ==
  \/ ~maintenance
  \/ errorClass[target] \in CriticalCodes

Deliverable == {target \in Failing : ShouldDeliver(target)}

Active == {AlertFor(target) : target \in Deliverable}

IssuesOf(fingerprint, among) == {i \in among : i.fingerprint = fingerprint}

\* Mutant: a run without an alert has nothing to do.
MutResolved == IF Deliverable = {} THEN {} ELSE
  {i \in listed : i.fingerprint \notin Active}
\* The issues that closeCleared has still to close.
Resolved == {i \in listed : i.fingerprint \notin Active}

Fresh == Min({n \in 1..(Cardinality(issues \cup listed) + 1) :
                \A i \in issues \cup listed : i.number # n})

AlertsInit ==
  /\ errorClass = [target \in Targets |-> NoError]
  /\ maintenance \in BOOLEAN
  /\ stage = "idle"
  /\ queue = {}
  /\ listed = {}
  /\ issues = {}
  /\ faults = MaxFaults

\* A run ends: every target has its record.
RunEnds ==
  /\ stage = "idle"
  /\ errorClass' \in [Targets -> Conditions \cup {NoError}]
  /\ maintenance' \in BOOLEAN
  /\ stage' = "listing"
  /\ UNCHANGED <<queue, listed, issues, faults>>

Fault == faults > 0 /\ faults' = faults - 1

Idle == stage' = "idle" /\ queue' = {} /\ listed' = {}

ListOpen ==
  /\ stage = "listing"
  /\ stage' = "delivering"
  /\ queue' = Deliverable
  /\ listed' = issues
  /\ UNCHANGED <<errorClass, maintenance, issues, faults>>

\* Without the list nothing is delivered and nothing is closed.
ListRefused ==
  /\ stage = "listing"
  /\ Idle
  /\ Fault
  /\ UNCHANGED <<errorClass, maintenance, issues>>

\* Mutant: the list is not looked at before an issue is opened.
MutKnown(fingerprint) == FALSE
\* Whether listOpen answered with an issue of this fingerprint.
Known(fingerprint) == IssuesOf(fingerprint, listed) # {}

\* The target whose alert is the next one, in the order of the plan.
Turn(target) ==
  /\ target \in queue
  /\ \A other \in queue :
       \E n, m \in DOMAIN Plan : Plan[n] = target /\ Plan[m] = other /\ n <= m

\* A comment changes no issue; a new one is not added to the list.
Deliver ==
  /\ stage = "delivering"
  /\ \E target \in Targets :
       /\ Turn(target)
       /\ issues' = IF Known(AlertFor(target)) THEN issues
                    ELSE issues \cup {[fingerprint |-> AlertFor(target), number |-> Fresh]}
       /\ queue' = queue \ {target}
  /\ UNCHANGED <<errorClass, maintenance, stage, listed, faults>>

\* A call that fails is logged, and the next alert has its turn.
DeliverRefused ==
  /\ stage = "delivering"
  /\ \E target \in Targets : Turn(target) /\ queue' = queue \ {target}
  /\ Fault
  /\ UNCHANGED <<errorClass, maintenance, stage, listed, issues>>

Delivered ==
  /\ stage = "delivering"
  /\ queue = {}
  /\ stage' = "closing"
  /\ UNCHANGED <<errorClass, maintenance, queue, listed, issues, faults>>

\* The issues are closed in the order they were listed in.
Close ==
  /\ stage = "closing"
  /\ \E i \in Resolved :
       /\ \A j \in Resolved : i.number <= j.number
       /\ listed' = listed \ {i}
       /\ issues' = issues \ {i}
  /\ UNCHANGED <<errorClass, maintenance, stage, queue, faults>>

CloseRefused ==
  /\ stage = "closing"
  /\ \E i \in Resolved :
       /\ \A j \in Resolved : i.number <= j.number
       /\ listed' = listed \ {i}
  /\ Fault
  /\ UNCHANGED <<errorClass, maintenance, stage, queue, issues>>

Notified ==
  /\ stage = "closing"
  /\ Resolved = {}
  /\ Idle
  /\ UNCHANGED <<errorClass, maintenance, issues, faults>>

Die ==
  /\ stage # "idle"
  /\ Idle
  /\ Fault
  /\ UNCHANGED <<errorClass, maintenance, issues>>

OperatorCloses ==
  /\ \E i \in issues : issues' = issues \ {i}
  /\ UNCHANGED <<errorClass, maintenance, stage, queue, listed, faults>>

AlertsNext ==
  \/ RunEnds
  \/ ListOpen \/ ListRefused
  \/ Deliver \/ DeliverRefused \/ Delivered
  \/ Close \/ CloseRefused \/ Notified
  \/ Die
  \/ OperatorCloses

\* Runs are scheduled for ever, and a notify that meets no fault goes on.
Fairness ==
  /\ WF_alertsVars(RunEnds)
  /\ WF_alertsVars(ListOpen)
  /\ WF_alertsVars(Deliver \/ Delivered)
  /\ WF_alertsVars(Close \/ Notified)

AlertsSpec == AlertsInit /\ [][AlertsNext]_alertsVars /\ Fairness
-----------------------------------------------------------------------------
\* A condition of one target has at most one open issue, whatever call failed
\* and wherever a notify died: what was opened once is found again.  (A
\* condition of the source may have one for every target that met it, because
\* the list is not refreshed between two alerts of one run.)
OneIssuePerTarget ==
  \A i, j \in issues :
    i.fingerprint = j.fingerprint /\ i.fingerprint.scope \in Targets => i = j

\* A critical condition that stays has an open issue again and again, in
\* maintenance too, however often the operator closes it.
CriticalIsHeard ==
  \A target \in Targets : \A code \in Conditions \cap CriticalCodes :
    <>[](errorClass[target] = code)
      => []<>(IssuesOf(Fingerprint(code, target), issues) # {})

\* A condition that no target meets any more has no open issue in the end.
ClearedIsClosed ==
  \A target \in Targets : \A code \in Conditions :
    <>[](\A t \in Targets : errorClass[t] # NoError => AlertFor(t) # Fingerprint(code, target))
      => <>[](IssuesOf(Fingerprint(code, target), issues) = {})

\* alerts.mjs: an issue whose fingerprint no longer appears in the current
\* alert set has cleared.  Stated of what the run met, and not so: an alert that
\* maintenance suppresses is not in the set (github-issues.mjs, notify), so its
\* issue is closed as cleared while the condition stays.
ClosedMeansCleared ==
  [][\A i \in listed \ listed' :
       stage = "closing" /\ stage' = "closing"
         => \A target \in Failing : i.fingerprint # AlertFor(target)]_alertsVars

\* One challenge of the source is one issue, not one per client.
OneIssuePerCondition ==
  \A i, j \in issues : i.fingerprint = j.fingerprint => i = j
=============================================================================
