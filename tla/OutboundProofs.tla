--------------------------- MODULE OutboundProofs ---------------------------
(***************************************************************************)
(* What Outbound keeps for any limits, any targets, any failures and any   *)
(* number of crashes.  The four invariants are independent of each other:  *)
(* the budget's, the breaker's, a call's and the kill switch's.            *)
(***************************************************************************)
EXTENDS Outbound, TLAPS

LEMMA PolicyIsSmall ==
  ASSUME NEW c
  PROVE  /\ PolicyFor(c) \in 0..MostAttempts
         /\ c \in BlockedCodes => PolicyFor(c) = 0
  BY DEF PolicyFor, ExpandRetry, UnknownPolicy, MostAttempts, BlockedCodes,
         Thrice, Twice, Once
-----------------------------------------------------------------------------
\* The budget.

\* What the file says of the windows of now, whatever it was written in.
HourCount == IF budget.hour = "current" THEN budget.hourCount ELSE 0
DayCount == IF budget.day = "current" THEN budget.dayCount ELSE 0

\* A request that was reserved and has not left.
Pending == IF pc \in {"reserved", "admitted"} THEN 1 ELSE 0

\* The file is one request behind at most, and that one was reserved in the
\* window before.
BudgetInv ==
  /\ budget \in BudgetFile
  /\ budget.outcome # "found" => budget.hourCount = 0 /\ budget.dayCount = 0
  /\ budget.hourCount <= PerHour /\ budget.dayCount <= PerDay
  /\ sentHour \in Nat /\ sentDay \in Nat
  /\ sentHour + Pending <= HourCount + 1
  /\ sentDay + Pending <= DayCount + 1

LEMMA BudgetStarts == ASSUME Init PROVE BudgetInv
<1>1. PICK o \in {"absent", "unreadable"} : budget = [EmptyBudget EXCEPT !.outcome = o]
  BY DEF Init
<1>2. /\ budget \in BudgetFile /\ budget.hourCount = 0 /\ budget.dayCount = 0
  BY <1>1 DEF EmptyBudget, BudgetFile, ReadOutcomes, Keys
<1>3. HourCount = 0 /\ DayCount = 0 /\ Pending = 0
  BY <1>2 DEF HourCount, DayCount, Pending, Init
<1> QED BY <1>2, <1>3, LimitsAssumption DEF Init, BudgetInv

LEMMA Reservation ==
  ASSUME BudgetInv, MayReserve
  PROVE  /\ Reserved \in BudgetFile /\ Reserved.outcome = "found"
         /\ Reserved.hour = "current" /\ Reserved.day = "current"
         /\ Reserved.hourCount = HourCount + 1 /\ Reserved.hourCount <= PerHour
         /\ Reserved.dayCount = DayCount + 1 /\ Reserved.dayCount <= PerDay
<1> DEFINE b == ReadBudget
<1>1. b \in BudgetFile /\ b.outcome = "found"
  <2>1. EmptyBudget \in BudgetFile /\ budget \in BudgetFile
    BY DEF BudgetInv, EmptyBudget, BudgetFile, ReadOutcomes, Keys
  <2> QED BY <2>1 DEF MayReserve, IsUsableBudget, ReadBudget
<1> DEFINE h == IF b.hour = "current" THEN b.hourCount ELSE 0
           d == IF b.day = "current" THEN b.dayCount ELSE 0
<1>2. h = HourCount /\ d = DayCount
  <2>1. CASE budget.outcome = "absent"
    <3>1. budget.hourCount = 0 /\ budget.dayCount = 0
      BY <2>1 DEF BudgetInv
    <3>2. b = EmptyBudget
      BY <2>1 DEF ReadBudget
    <3> QED BY <3>1, <3>2 DEF EmptyBudget, HourCount, DayCount
  <2>2. CASE budget.outcome # "absent"
    BY <2>2 DEF ReadBudget, HourCount, DayCount
  <2> QED BY <2>1, <2>2
<1>3. h \in Nat /\ d \in Nat
  BY <1>1 DEF BudgetFile
<1>4. RollWindows(b) = [outcome |-> "found", hour |-> "current", hourCount |-> h,
                        day |-> "current", dayCount |-> d]
  BY <1>1 DEF RollWindows
<1>5. Fits(RollWindows(b))
  BY DEF MayReserve
<1>6. Reserved = [RollWindows(b) EXCEPT !.hourCount = @ + 1, !.dayCount = @ + 1]
  BY DEF Reserved
<1> HIDE DEF b, h, d
<1>7. h < PerHour /\ d < PerDay
  BY <1>4, <1>5 DEF Fits
<1>8. Reserved = [outcome |-> "found", hour |-> "current", hourCount |-> h + 1,
                  day |-> "current", dayCount |-> d + 1]
  <2> DEFINE Window(x, y) == [outcome |-> "found", hour |-> "current", hourCount |-> x,
                              day |-> "current", dayCount |-> y]
  <2>1. \A x, y : [Window(x, y) EXCEPT !.hourCount = x + 1] = Window(x + 1, y)
    OBVIOUS
  <2>2. \A x, y : [Window(x, y) EXCEPT !.dayCount = y + 1] = Window(x, y + 1)
    OBVIOUS
  <2>3. Reserved = [[Window(h, d) EXCEPT !.hourCount = h + 1] EXCEPT !.dayCount = d + 1]
    BY <1>4, <1>6
  <2> QED BY <2>1, <2>2, <2>3, Zenon
<1> QED BY <1>2, <1>3, <1>7, <1>8, LimitsAssumption DEF BudgetFile, ReadOutcomes, Keys

LEMMA BudgetKept == BudgetInv /\ [Next]_vars => BudgetInv'
<1> SUFFICES ASSUME BudgetInv, [Next]_vars PROVE BudgetInv'
  OBVIOUS
<1>1. ASSUME UNCHANGED <<budget, sentHour, sentDay>>, Pending' <= Pending
      PROVE  BudgetInv'
  <2>1. HourCount' = HourCount /\ DayCount' = DayCount
    BY <1>1 DEF HourCount, DayCount
  <2>2. Pending \in Nat /\ Pending' \in Nat /\ HourCount \in Nat /\ DayCount \in Nat
    BY DEF Pending, HourCount, DayCount, BudgetInv, BudgetFile
  <2>3. sentHour' + Pending' <= HourCount' + 1 /\ sentDay' + Pending' <= DayCount' + 1
    <3>1. /\ sentHour \in Nat /\ sentDay \in Nat
          /\ sentHour + Pending <= HourCount + 1 /\ sentDay + Pending <= DayCount + 1
      BY DEF BudgetInv
    <3>2. sentHour' = sentHour /\ sentDay' = sentDay /\ Pending' <= Pending
      BY <1>1
    <3>3. \A s, h, p, q \in Nat : s + p <= h + 1 /\ q <= p => s + q <= h + 1
      OBVIOUS
    <3> QED BY <2>1, <2>2, <3>1, <3>2, <3>3, Zenon
  <2> QED BY <1>1, <2>3 DEF BudgetInv
<1>2. CASE StartCall
  BY <1>1, <1>2 DEF StartCall, Pending
<1>3. CASE Reserve
  <2>1. CASE MayReserve
    <3>1. budget' = Reserved /\ UNCHANGED <<sentHour, sentDay>> /\ Pending = 0 /\ Pending' = 1
      BY <1>3, <2>1 DEF Reserve, Pending, history
    <3>2. HourCount' = HourCount + 1 /\ DayCount' = DayCount + 1
      BY <2>1, <3>1, Reservation DEF HourCount, DayCount
    <3>3. HourCount \in Nat /\ DayCount \in Nat
      BY DEF HourCount, DayCount, BudgetInv, BudgetFile
    <3> QED BY <2>1, <3>1, <3>2, <3>3, Reservation DEF BudgetInv
  <2>2. CASE ~MayReserve
    BY <1>1, <1>3, <2>2 DEF Reserve, Pending, history
  <2> QED BY <2>1, <2>2
<1>4. CASE Admit
  BY <1>1, <1>4 DEF Admit, Pending, history
<1>5. CASE Send
  <2>1. /\ budget' = budget /\ sentHour' = sentHour + 1 /\ sentDay' = sentDay + 1
        /\ Pending = 1 /\ Pending' = 0
    BY <1>5 DEF Send, Pending
  <2>2. HourCount' = HourCount /\ DayCount' = DayCount
    BY <2>1 DEF HourCount, DayCount
  <2>3. HourCount \in Nat /\ DayCount \in Nat
    BY DEF HourCount, DayCount, BudgetInv, BudgetFile
  <2> QED BY <2>1, <2>2, <2>3 DEF BudgetInv
<1>6. CASE Answer \/ Record \/ Retry \/ Wake \/ Crash \/ FlipSwitch
  BY <1>1, <1>6 DEF Answer, Record, Retry, Wake, Crash, FlipSwitch, Pending, history
<1>7. CASE Tick
  <2>1. PICK hourEnds \in BOOLEAN, dayEnds \in BOOLEAN :
          /\ budget' = [budget EXCEPT !.hour = IF hourEnds THEN "past" ELSE @,
                                      !.day = IF dayEnds THEN "past" ELSE @]
          /\ sentHour' = IF hourEnds THEN 0 ELSE sentHour
          /\ sentDay' = IF dayEnds THEN 0 ELSE sentDay
    <3>1. (hourLeft = 1) \in BOOLEAN /\ (hourLeft = 1 /\ dayLeft = 1) \in BOOLEAN
      OBVIOUS
    <3> QED BY <1>7, <3>1, Zenon DEF Tick
  <2>2. /\ budget' \in BudgetFile /\ budget'.outcome = budget.outcome
        /\ budget'.hourCount = budget.hourCount /\ budget'.dayCount = budget.dayCount
    BY <2>1 DEF BudgetInv, BudgetFile, Keys
  <2>3. /\ ~hourEnds => HourCount' = HourCount
        /\ ~dayEnds => DayCount' = DayCount
        /\ HourCount' \in Nat /\ DayCount' \in Nat
    BY <2>1, <2>2 DEF HourCount, DayCount, BudgetInv, BudgetFile
  <2>4. Pending' = Pending /\ Pending \in {0, 1}
    BY <1>7 DEF Tick, Pending
  <2> QED BY <2>1, <2>2, <2>3, <2>4 DEF BudgetInv
<1>8. CASE UNCHANGED vars
  BY <1>1, <1>8 DEF vars, history, Pending
<1> QED BY <1>2, <1>3, <1>4, <1>5, <1>6, <1>7, <1>8 DEF Next, CallStep

\* No window sees more requests than its budget and one, whatever the limits
\* and wherever the process dies (reserve, before the request).
THEOREM BudgetIsKept == Spec => []BudgetHolds
<1>1. BudgetInv => BudgetHolds
  BY LimitsAssumption DEF BudgetInv, BudgetHolds, HourCount, DayCount, Pending, BudgetFile
<1> QED BY <1>1, BudgetStarts, BudgetKept, PTL DEF Spec
-----------------------------------------------------------------------------
\* The breaker.

Trying == {"admitted", "inflight", "answered"}

\* Only a half-open circuit has had a trial, and while one is being made the
\* circuit is not open.
BreakerInv ==
  /\ breaker \in BreakerFile
  /\ trials \in {0, 1}
  /\ breaker.state # "half_open" => trials = 0
  /\ pc = "admitted" => trials = 0
  /\ pc \in Trying => breaker.state # "open"
  /\ HalfOpenIsExplained

LEMMA BreakerStarts == ASSUME Init PROVE BreakerInv
  BY LimitsAssumption DEF Init, BreakerInv, ClosedBreaker, BreakerFile,
     BreakerStates, HalfOpenIsExplained, Trying

LEMMA BreakerWrites ==
  ASSUME breaker \in BreakerFile
  PROVE  /\ Admitted \in BreakerFile /\ RecordSuccess \in BreakerFile
         /\ RecordFailure \in BreakerFile
         /\ Admitted.state = IF breaker.state = "open" THEN "half_open" ELSE breaker.state
         /\ RecordSuccess.state = "closed"
         /\ Trips => RecordFailure.state = "open"
         /\ ~Trips => RecordFailure.state = breaker.state /\ breaker.state # "half_open"
<1>1. Trip \in BreakerFile /\ Trip.state = "open"
  BY LimitsAssumption DEF Trip, BreakerFile, BreakerStates
<1>2. /\ Admitted \in BreakerFile
      /\ Admitted.state = IF breaker.state = "open" THEN "half_open" ELSE breaker.state
  BY DEF Admitted, BreakerFile, BreakerStates
<1>3. RecordSuccess \in BreakerFile /\ RecordSuccess.state = "closed"
  BY DEF RecordSuccess, BreakerFile, BreakerStates
<1>4. CASE Trips
  BY <1>1, <1>2, <1>3, <1>4 DEF RecordFailure
<1>5. CASE ~Trips
  <2>1. RecordFailure = [breaker EXCEPT !.failures = @ + 1]
    BY <1>5 DEF RecordFailure
  <2>2. RecordFailure \in BreakerFile /\ RecordFailure.state = breaker.state
    BY <2>1 DEF BreakerFile
  <2> QED BY <1>2, <1>3, <1>5, <2>2 DEF Trips
<1> QED BY <1>4, <1>5

LEMMA BreakerKept == BreakerInv /\ [Next]_vars => BreakerInv'
<1> SUFFICES ASSUME BreakerInv, [Next]_vars PROVE BreakerInv'
  OBVIOUS
<1> USE DEF BreakerInv, HalfOpenIsExplained, Trying
<1>1. CASE StartCall
  <2>1. pc = "idle" /\ pc' \in {"ready", "idle"} /\ UNCHANGED <<breaker, trials, orphaned>>
    BY <1>1 DEF StartCall
  <2> QED BY <2>1
<1>2. CASE Reserve
  <2>1. pc = "ready" /\ pc' \in {"reserved", "result"} /\ UNCHANGED <<breaker, trials, orphaned>>
    BY <1>2 DEF Reserve, history
  <2> QED BY <2>1
<1>3. CASE Admit
  <2>1. CASE Admits
    BY <1>3, <2>1, BreakerWrites DEF Admit, history, Admits, BreakerFile, BreakerStates
  <2>2. CASE ~Admits
    BY <1>3, <2>2 DEF Admit, history
  <2> QED BY <2>1, <2>2
<1>4. CASE Send
  BY <1>4 DEF Send, BreakerFile, BreakerStates
<1>5. CASE Answer
  BY <1>5 DEF Answer, history
<1>6. CASE Record
  <2>1. CASE code = "ok"
    BY <1>6, <2>1, BreakerWrites DEF Record
  <2>2. CASE code # "ok"
    BY <1>6, <2>2, BreakerWrites DEF Record, BreakerFile, BreakerStates
  <2> QED BY <2>1, <2>2
<1>7. CASE Retry \/ Wake
  BY <1>7 DEF Retry, Wake, history
<1>8. CASE Crash
  <2>1. /\ pc' = "idle" /\ UNCHANGED <<breaker, trials>>
        /\ breaker.state = "half_open" => orphaned'
    BY <1>8 DEF Crash
  <2> QED BY <2>1
<1>9. CASE Tick \/ FlipSwitch
  BY <1>9 DEF Tick, FlipSwitch
<1>10. CASE UNCHANGED vars
  BY <1>10 DEF vars, history
<1> QED BY <1>1, <1>2, <1>3, <1>4, <1>5, <1>6, <1>7, <1>8, <1>9, <1>10 DEF Next, CallStep

LEMMA BreakerHolds == Spec => []BreakerInv
  BY BreakerStarts, BreakerKept, PTL DEF Spec

\* One request at most leaves between two openings of the circuit, however
\* often the process dies (admits: half_open is written before the trial).
THEOREM TrialIsSingle == Spec => []OneTrial
<1>1. BreakerInv => OneTrial
  BY DEF BreakerInv, OneTrial
<1> QED BY <1>1, BreakerHolds, PTL

\* A half-open circuit is a trial in progress or one that a crash cut off
\* (admits, recordSuccess, recordFailure).
THEOREM HalfOpenHasAReason == Spec => []HalfOpenIsExplained
<1>1. BreakerInv => HalfOpenIsExplained
  BY DEF BreakerInv
<1> QED BY <1>1, BreakerHolds, PTL
-----------------------------------------------------------------------------
\* A call.

\* An attempt whose request has left is not counted until its result is read.
Away == IF pc \in {"inflight", "answered", "result"} THEN 1 ELSE 0

CallInv ==
  /\ attempt \in Nat /\ callSent \in Nat
  /\ callSent <= MostAttempts
  /\ pc # "idle" => attempt + 1 <= MostAttempts /\ callSent <= attempt + Away
  /\ BlockedIsTerminal

\* A target the gate lets through was denied nothing.
LEMMA NoCodeIsNoFailure == NoCode \notin BlockedCodes /\ "ok" \notin BlockedCodes
  BY DEF NoCode, BlockedCodes

LEMMA CallStarts == ASSUME Init PROVE CallInv
  BY NoCodeIsNoFailure DEF Init, CallInv, MostAttempts, BlockedIsTerminal

LEMMA CallKept == CallInv /\ [Next]_vars => CallInv'
<1> SUFFICES ASSUME CallInv, [Next]_vars PROVE CallInv'
  OBVIOUS
<1> USE DEF CallInv, BlockedIsTerminal, Away, MostAttempts
<1>1. CASE StartCall
  <2>1. /\ pc' = IF code' = NoCode THEN "ready" ELSE "idle"
        /\ attempt' = 0 /\ callSent' = 0
    BY <1>1 DEF StartCall
  <2> QED BY <2>1, NoCodeIsNoFailure
<1>2. CASE Reserve
  <2>1. CASE MayReserve
    BY <1>2, <2>1 DEF Reserve, history
  <2>2. CASE ~MayReserve
    BY <1>2, <2>2 DEF Reserve, history
  <2> QED BY <2>1, <2>2
<1>3. CASE Admit
  <2>1. CASE Admits
    BY <1>3, <2>1 DEF Admit, history
  <2>2. CASE ~Admits
    BY <1>3, <2>2 DEF Admit, history
  <2> QED BY <2>1, <2>2
<1>4. CASE Send
  BY <1>4 DEF Send, Saturated
<1>5. CASE Answer
  BY <1>5 DEF Answer, history
<1>6. CASE Record
  BY <1>6 DEF Record
<1>7. CASE Retry
  <2>1. /\ pc = "result" /\ attempt' = attempt + 1 /\ UNCHANGED <<callSent, code>>
        /\ pc' = IF GivesUp THEN "idle" ELSE "waiting"
    BY <1>7 DEF Retry, history
  <2>2. CASE GivesUp
    BY <2>1, <2>2
  <2>3. CASE ~GivesUp
    <3>1. attempt + 1 < PolicyFor(code) /\ PolicyFor(code) \in 0..MostAttempts
      BY <2>3, PolicyIsSmall DEF GivesUp
    <3>2. code \notin BlockedCodes
      BY <3>1, PolicyIsSmall
    <3> QED BY <2>1, <2>3, <3>1, <3>2
  <2> QED BY <2>2, <2>3
<1>8. CASE Wake
  BY <1>8 DEF Wake, history
<1>9. CASE Crash
  BY <1>9, NoCodeIsNoFailure DEF Crash
<1>10. CASE Tick \/ FlipSwitch
  BY <1>10 DEF Tick, FlipSwitch
<1>11. CASE UNCHANGED vars
  BY <1>11 DEF vars, history
<1> QED BY <1>1, <1>2, <1>3, <1>4, <1>5, <1>6, <1>7, <1>8, <1>9, <1>10, <1>11
        DEF Next, CallStep

LEMMA CallHolds == Spec => []CallInv
  BY CallStarts, CallKept, PTL DEF Spec

\* No sequence of answers gets a call more than three requests: the policy is
\* the class's, the count is the call's (executeWithRetry).
THEOREM CallsAreBounded == Spec => []CallIsBounded
<1>1. CallInv => CallIsBounded
  BY DEF CallInv, CallIsBounded
<1> QED BY <1>1, CallHolds, PTL

\* A call that was told it is blocked sends nothing more (POLICY, the retry
\* column of the blocked classes).
THEOREM BlockedEndsTheCall == Spec => []BlockedIsTerminal
<1>1. CallInv => BlockedIsTerminal
  BY DEF CallInv
<1> QED BY <1>1, CallHolds, PTL
-----------------------------------------------------------------------------
\* The kill switch.

KillInv ==
  /\ sinceKill \in Nat /\ sinceKill <= MostAttempts
  /\ enabled \in BOOLEAN
  /\ enabled => sinceKill = 0
  /\ ~enabled /\ pc # "idle" => sinceKill <= callSent

LEMMA SwitchDenies ==
  ASSUME ~enabled, NEW t
  PROVE  Preflight(Checks(t)) # NoCode
<1> DEFINE checks == Checks(t)
<1>1. checks[1].passed = enabled /\ checks[1].code = "POLICY-KILLSWITCH" /\ DOMAIN checks = 1..5
  BY DEF Checks
<1>2. 1 \in Denials(checks) /\ Denials(checks) \subseteq 1..5
  BY <1>1 DEF Denials
<1>3. \A i \in Denials(checks) : (\A j \in Denials(checks) : i <= j) <=> i = 1
  BY <1>2
<1>4. (CHOOSE i \in Denials(checks) : \A j \in Denials(checks) : i <= j) = 1
  BY <1>2, <1>3
<1> HIDE DEF checks
<1>5. Preflight(checks) = checks[1].code
  BY <1>2, <1>4 DEF Preflight
<1> QED BY <1>1, <1>5 DEF checks, NoCode

LEMMA KillStarts == ASSUME Init PROVE KillInv
  BY DEF Init, KillInv, MostAttempts

LEMMA KillKept == KillInv /\ CallInv /\ [Next]_vars /\ CallInv' => KillInv'
<1> SUFFICES ASSUME KillInv, CallInv, [Next]_vars, CallInv' PROVE KillInv'
  OBVIOUS
<1> USE DEF KillInv
<1>1. CASE StartCall
  <2>1. CASE enabled
    BY <1>1, <2>1 DEF StartCall
  <2>2. CASE ~enabled
    <3>1. code' # NoCode
      BY <1>1, <2>2, SwitchDenies DEF StartCall
    <3> QED BY <1>1, <2>2, <3>1 DEF StartCall
  <2> QED BY <2>1, <2>2
<1>2. CASE Reserve \/ Admit \/ Answer \/ Retry \/ Wake
  BY <1>2 DEF Reserve, Admit, Answer, Retry, Wake, history
<1>3. CASE Send
  <2>1. /\ sinceKill' = IF enabled THEN 0 ELSE Saturated(sinceKill)
        /\ callSent' = Saturated(callSent) /\ enabled' = enabled
        /\ pc = "admitted" /\ pc' = "inflight"
    BY <1>3 DEF Send
  <2>2. callSent \in Nat /\ callSent <= MostAttempts /\ callSent' <= MostAttempts
    BY DEF CallInv
  <2>3. CASE enabled
    BY <2>1, <2>3 DEF MostAttempts
  <2>4. CASE ~enabled
    BY <2>1, <2>2, <2>4 DEF Saturated, MostAttempts
  <2> QED BY <2>3, <2>4
<1>4. CASE Record
  BY <1>4 DEF Record
<1>5. CASE Crash
  BY <1>5 DEF Crash
<1>6. CASE Tick
  BY <1>6 DEF Tick
<1>7. CASE FlipSwitch
  BY <1>7 DEF FlipSwitch, CallInv, MostAttempts
<1>8. CASE UNCHANGED vars
  BY <1>8 DEF vars, history
<1> QED BY <1>1, <1>2, <1>3, <1>4, <1>5, <1>6, <1>7, <1>8 DEF Next, CallStep

\* What can still leave once a kill switch is engaged is the rest of one call:
\* the gate is asked once a target, never by a retry (preflight).
THEOREM SwitchStopsTheSource == Spec => []KillSwitchStops
<1>1. KillInv => KillSwitchStops
  BY DEF KillInv, KillSwitchStops
<1> QED BY <1>1, CallHolds, KillStarts, KillKept, PTL DEF Spec
=============================================================================
