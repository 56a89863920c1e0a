------------------------------ MODULE Outbound ------------------------------
(***************************************************************************)
(* Requests to one source: the preflight gate, the rate budget, the        *)
(* circuit breaker and the retry executor, over the two files of the state *)
(* checkout that outlive the process.                                      *)
(*                                                                         *)
(* The functions of these modules are pure, and src/ has no caller of      *)
(* reserve, admits and executeWithRetry yet.  The caller here is the one   *)
(* their headers prescribe: preflight once per target; then for every      *)
(* attempt write the reservation, write the breaker, send, and write the   *)
(* answer to the breaker.  The process may die between any two of these.   *)
(*                                                                         *)
(* Time is relative: ticks to the end of the hour, hours to the end of the *)
(* day, ticks until the breaker's retryAt.  A file remembers a window by   *)
(* its key; only whether that key is the current one is ever asked.        *)
(***************************************************************************)
EXTENDS Errors, FiniteSets

CONSTANTS
  PerHour, PerDay,     \* limits of the budget
  HourLength,          \* ticks in an hour
  DayLength,           \* hours in a day
  FailureThreshold,    \* failures in a row that open the breaker
  BaseCooldown, MaxCooldown,
  TripCap,             \* bound: trips are not counted past this
  CrashCap,            \* bound: crashes in a behaviour
  Failures,            \* error codes an answer may carry
  Targets              \* what the harvests ask for

ASSUME LimitsAssumption ==
  /\ PerHour \in Nat \ {0}
  /\ PerDay \in Nat \ {0}
  /\ HourLength \in Nat \ {0}
  /\ DayLength \in Nat \ {0}
  /\ FailureThreshold \in Nat \ {0}
  /\ TripCap \in Nat \ {0}
  /\ CrashCap \in Nat
  /\ Failures \subseteq Codes \cup {"UNKNOWN"}

\* What the gate is told of a target besides the files: how it is read, whether
\* its authorisation record is whole and names an accepted relationship, the
\* robots mode, and what the robots directive said.
Target == [access : {"dom", "api"}, authorised : BOOLEAN,
           mode : {"block", "warn", "ignore"}, robots : {"yes", "no", "unknown"}]

ASSUME TargetsAssumption == Targets \subseteq Target

VARIABLES
  hourLeft, dayLeft,   \* the clock
  enabled,             \* the three kill switches together
  budget, breaker,     \* the two files
  cooldown,            \* ticks until breaker.retryAt
  pc,                  \* what the process is doing
  attempt,             \* attempts of this call that have been answered
  code,                \* what the last attempt of this call reported
  sentHour, sentDay,   \* history: requests that left in these windows
  callSent,            \* history: requests that left in this call
  trials,              \* history: requests since the breaker last opened
  orphaned,            \* history: the process died during a trial
  sinceKill,           \* history: requests since a kill switch was engaged
  crashes

clock == <<hourLeft, dayLeft>>
history == <<sentHour, sentDay, callSent, trials, orphaned, sinceKill>>
vars == <<clock, enabled, budget, breaker, cooldown, pc, attempt, code,
          history, crashes>>

Stages == {"idle", "ready", "reserved", "admitted", "inflight", "answered",
           "result", "waiting"}
ReadOutcomes == {"found", "absent", "unreadable"}
BreakerStates == {"closed", "open", "half_open"}
NoCode == "none"

\* A budget file: hour and day say whether the keys are the current ones.
Keys == {"current", "past"}
BudgetFile == [outcome : ReadOutcomes, hour : Keys, hourCount : Nat,
               day : Keys, dayCount : Nat]
BreakerFile == [state : BreakerStates, failures : Nat, trips : 0 .. TripCap]

EmptyBudget == [outcome |-> "found", hour |-> "current", hourCount |-> 0,
                day |-> "current", dayCount |-> 0]
ClosedBreaker == [state |-> "closed", failures |-> 0, trips |-> 0]
-----------------------------------------------------------------------------
\* The pure functions.

RollWindows(b) ==
  [outcome |-> b.outcome,
   hour |-> "current", hourCount |-> IF b.hour = "current" THEN b.hourCount ELSE 0,
   day |-> "current", dayCount |-> IF b.day = "current" THEN b.dayCount ELSE 0]

\* A file that is not there is the first request of all; one that cannot be
\* read or validated permits nothing.
ReadBudget == IF budget.outcome = "absent" THEN EmptyBudget ELSE budget
IsUsableBudget(b) == b.outcome = "found"

Fits(b) == b.hourCount < PerHour /\ b.dayCount < PerDay
MayReserve == IsUsableBudget(ReadBudget) /\ Fits(RollWindows(ReadBudget))
\* Mutant: the key of the window is not renewed with the count.
MutReserved == [ReadBudget EXCEPT !.hourCount = RollWindows(ReadBudget).hourCount + 1,
                                  !.dayCount = RollWindows(ReadBudget).dayCount + 1]
Reserved == [RollWindows(ReadBudget) EXCEPT !.hourCount = @ + 1,
                                            !.dayCount = @ + 1]

CooldownFor(trips) ==
  LET raw == BaseCooldown * 2 ^ (trips - 1)
  IN  IF raw < MaxCooldown THEN raw ELSE MaxCooldown

\* Mutant: a half-open circuit admits a second trial.
MutAdmitsTrial == breaker.state # "open" \/ cooldown = 0
\* Mutant: the end of the cooldown is never looked at.
MutAdmitsNever == breaker.state = "closed"
Admits == breaker.state = "closed" \/ (breaker.state = "open" /\ cooldown = 0)
Admitted ==
  [breaker EXCEPT !.state = IF @ = "open" THEN "half_open" ELSE @]

Trip == [state |-> "open", failures |-> 0,
         trips |-> IF breaker.trips < TripCap THEN breaker.trips + 1
                                              ELSE breaker.trips]
Trips == breaker.state = "half_open" \/ breaker.failures + 1 >= FailureThreshold
\* Mutant: a failed trial waits for the threshold like any other failure.
MutRecordFailure == IF breaker.failures + 1 >= FailureThreshold
                      THEN Trip ELSE [breaker EXCEPT !.failures = @ + 1]
RecordFailure ==
  IF Trips THEN Trip ELSE [breaker EXCEPT !.failures = @ + 1]
RecordSuccess == [breaker EXCEPT !.state = "closed", !.failures = 0]

\* The checks in order, each with what it denies with; the first denial ends
\* the list.  A robots directive that could not be fetched is decided by the
\* mode, never taken for permission.
RobotsPass(t) ==
  CASE t.robots = "yes" -> TRUE
    [] t.robots = "no"  -> t.mode = "ignore"
    [] OTHER            -> t.mode # "block"

Authorised(t) == t.access = "dom" => t.authorised

Checks(t) ==
  << [passed |-> enabled,        code |-> "POLICY-KILLSWITCH"],
     [passed |-> Authorised(t),  code |-> "POLICY-UNAUTHORIZED"],
     [passed |-> RobotsPass(t),  code |-> "POLICY-ROBOTS"],
     [passed |-> MayReserve,     code |-> "POLICY-BUDGET"],
     [passed |-> Admits,         code |-> "POLICY-BREAKER-OPEN"] >>

Denials(checks) == {i \in DOMAIN checks : ~checks[i].passed}
Preflight(checks) ==
  IF Denials(checks) = {} THEN NoCode
  ELSE checks[CHOOSE i \in Denials(checks) : \A j \in Denials(checks) : i <= j].code
-----------------------------------------------------------------------------
Init ==
  /\ hourLeft = HourLength /\ dayLeft = DayLength
  /\ enabled = TRUE
  /\ \E o \in {"absent", "unreadable"} : budget = [EmptyBudget EXCEPT !.outcome = o]
  /\ breaker = ClosedBreaker /\ cooldown = 0
  /\ pc = "idle" /\ attempt = 0 /\ code = NoCode
  /\ sentHour = 0 /\ sentDay = 0 /\ callSent = 0 /\ trials = 0
  /\ orphaned = FALSE /\ sinceKill = 0 /\ crashes = 0

\* A target's turn.  Only an allowed one leaves the gate.
StartCall ==
  /\ pc = "idle"
  /\ \E t \in Targets : code' = Preflight(Checks(t))
  /\ pc' = IF code' = NoCode THEN "ready" ELSE "idle"
  /\ attempt' = 0 /\ callSent' = 0
  /\ UNCHANGED <<clock, enabled, budget, breaker, cooldown, sentHour, sentDay,
                 trials, orphaned, sinceKill, crashes>>

\* The attempt is counted in the file before anything is sent.
Reserve ==
  /\ pc = "ready"
  /\ IF MayReserve
       THEN budget' = Reserved /\ pc' = "reserved" /\ UNCHANGED code
       ELSE UNCHANGED budget /\ pc' = "result" /\ code' = "POLICY-BUDGET"
  /\ UNCHANGED <<clock, enabled, breaker, cooldown, attempt, history, crashes>>

\* half_open is written before the trial it admits.
Admit ==
  /\ pc = "reserved"
  /\ IF Admits
       THEN breaker' = Admitted /\ pc' = "admitted" /\ UNCHANGED code
       ELSE UNCHANGED breaker /\ pc' = "result" /\ code' = "POLICY-BREAKER-OPEN"
  /\ UNCHANGED <<clock, enabled, budget, cooldown, attempt, history, crashes>>

\* Bound: the two histories that count requests stop one above what the
\* properties allow.
MostAttempts == 3
Saturated(n) == IF n > MostAttempts THEN n ELSE n + 1

Send ==
  /\ pc = "admitted"
  /\ pc' = "inflight"
  /\ sentHour' = sentHour + 1 /\ sentDay' = sentDay + 1
  /\ callSent' = Saturated(callSent)
  /\ trials' = IF breaker.state = "closed" THEN 0 ELSE trials + 1
  /\ sinceKill' = IF enabled THEN 0 ELSE Saturated(sinceKill)
  /\ UNCHANGED <<clock, enabled, budget, breaker, cooldown, attempt, code,
                 orphaned, crashes>>

Answer ==
  /\ pc = "inflight"
  /\ pc' = "answered"
  /\ \E c \in Failures \cup {"ok"} : code' = c
  /\ UNCHANGED <<clock, enabled, budget, breaker, cooldown, attempt, history,
                 crashes>>

\* The answer's code is not asked for: recordFailure gets the breaker and the
\* time only, so that a class that OpensBreaker is one failure like another.
Record ==
  /\ pc = "answered"
  /\ pc' = "result"
  /\ IF code = "ok"
       THEN breaker' = RecordSuccess /\ cooldown' = 0 /\ trials' = 0
       ELSE /\ breaker' = RecordFailure
            /\ cooldown' = IF Trips THEN CooldownFor(Trip.trips) ELSE cooldown
            /\ trials' = IF Trips THEN 0 ELSE trials
  /\ UNCHANGED <<clock, enabled, budget, attempt, code, sentHour, sentDay,
                 callSent, orphaned, sinceKill, crashes>>

\* The executor's loop: the policy of the class just reported decides, and the
\* budget is asked before the wait.
GivesUp == code = "ok" \/ attempt + 1 >= PolicyFor(code) \/ ~MayReserve

\* Mutant: the attempts of a call are not counted.
MutRetry ==
  /\ pc = "result"
  /\ pc' = IF GivesUp THEN "idle" ELSE "waiting"
  /\ UNCHANGED <<clock, enabled, budget, breaker, cooldown, attempt, code,
                 history, crashes>>

Retry ==
  /\ pc = "result"
  /\ attempt' = attempt + 1
  /\ pc' = IF GivesUp THEN "idle" ELSE "waiting"
  /\ UNCHANGED <<clock, enabled, budget, breaker, cooldown, code, history,
                 crashes>>

Wake ==
  /\ pc = "waiting"
  /\ pc' = "ready"
  /\ UNCHANGED <<clock, enabled, budget, breaker, cooldown, attempt, code,
                 history, crashes>>

\* The process dies; only the files are left.
Crash ==
  /\ pc # "idle" /\ crashes < CrashCap
  /\ crashes' = crashes + 1
  /\ orphaned' = (orphaned \/ breaker.state = "half_open")
  /\ pc' = "idle" /\ attempt' = 0 /\ code' = NoCode /\ callSent' = 0
  /\ UNCHANGED <<clock, enabled, budget, breaker, cooldown, sentHour, sentDay,
                 trials, sinceKill>>

Tick ==
  /\ LET hourEnds == hourLeft = 1
         dayEnds == hourEnds /\ dayLeft = 1
     IN  /\ hourLeft' = IF hourEnds THEN HourLength ELSE hourLeft - 1
         /\ dayLeft' = IF ~hourEnds THEN dayLeft
                       ELSE IF dayEnds THEN DayLength ELSE dayLeft - 1
         /\ budget' = [budget EXCEPT !.hour = IF hourEnds THEN "past" ELSE @,
                                     !.day = IF dayEnds THEN "past" ELSE @]
         /\ sentHour' = IF hourEnds THEN 0 ELSE sentHour
         /\ sentDay' = IF dayEnds THEN 0 ELSE sentDay
  /\ cooldown' = IF cooldown = 0 THEN 0 ELSE cooldown - 1
  /\ UNCHANGED <<enabled, breaker, pc, attempt, code, callSent, trials,
                 orphaned, sinceKill, crashes>>

\* Somebody turns the source off in the configuration, or on again.
FlipSwitch ==
  /\ enabled' = ~enabled
  /\ sinceKill' = 0
  /\ UNCHANGED <<clock, budget, breaker, cooldown, pc, attempt, code, sentHour,
                 sentDay, callSent, trials, orphaned, crashes>>

CallStep == Reserve \/ Admit \/ Send \/ Answer \/ Record \/ Retry \/ Wake
Next == StartCall \/ CallStep \/ Crash \/ Tick \/ FlipSwitch

Spec == Init /\ [][Next]_vars

\* A process that is not killed goes on, requests are answered (the source
\* times out), time passes, and the cadence brings an authorised target again.
AllowedStart == StartCall /\ pc' = "ready"
FairSpec == Spec /\ WF_vars(CallStep) /\ WF_vars(Tick) /\ WF_vars(AllowedStart)
-----------------------------------------------------------------------------
TypeOK ==
  /\ hourLeft \in 1 .. HourLength /\ dayLeft \in 1 .. DayLength
  /\ enabled \in BOOLEAN
  /\ budget \in BudgetFile /\ breaker \in BreakerFile
  /\ cooldown \in Nat
  /\ pc \in Stages /\ attempt \in Nat
  /\ code \in Codes \cup {NoCode, "ok", "UNKNOWN"}
  /\ sentHour \in Nat /\ sentDay \in Nat /\ callSent \in Nat /\ trials \in Nat
  /\ orphaned \in BOOLEAN /\ sinceKill \in Nat /\ crashes \in 0 .. CrashCap

\* No window sees more requests than its budget, whatever dies in between,
\* but for the one that was reserved in the window before: the counter is
\* written before the request (token-bucket.mjs, EDR-034).
BudgetHolds == sentHour <= PerHour + 1 /\ sentDay <= PerDay + 1

\* However often the process dies and comes back, one request at most leaves
\* between two openings of the circuit: half_open is on disk before the trial
\* (circuit.mjs, admits).
OneTrial == trials <= 1

\* A half-open circuit is somebody's trial in progress.  The exception is the
\* process that died in its trial, after which nothing closes or reopens it.
HalfOpenIsExplained ==
  breaker.state = "half_open" =>
    orphaned \/ pc \in {"admitted", "inflight", "answered"}

\* Not kept.  An answer of a class that opens the breaker opens it: errors.mjs
\* says that observing one stops the source being contacted, and Record counts
\* it towards the threshold.
BlockedStopsContact ==
  [][(pc = "answered" /\ pc' = "result" /\ code \in OpensBreaker)
       => breaker'.state = "open"]_vars

\* Once a call has been told that it is blocked it asks nothing more
\* (errors.mjs, BLOCKED_CODES; INV-07).
BlockedIsTerminal ==
  code \in BlockedCodes => pc \in {"answered", "result", "idle"}

\* Three is the most any class allows, and a call in which the classes change
\* from attempt to attempt must not collect the allowances of each.
CallIsBounded == callSent <= MostAttempts

\* The verdict of the gate is not asked again by a retry: what can still leave
\* after a kill switch is engaged is the rest of one call.
KillSwitchStops == sinceKill <= MostAttempts

\* A circuit whose trial was not cut off by a crash does not stay open: the
\* cadence brings the trial that decides it.
OpenCircuitIsTried ==
  (breaker.state = "open" /\ IsUsableBudget(ReadBudget))
    ~> (breaker.state # "open" \/ ~enabled)

\* Every call ends: no class is retried for ever.
CallEnds == pc # "idle" ~> pc = "idle"
=============================================================================
