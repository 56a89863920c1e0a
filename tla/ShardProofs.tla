---------------------------- MODULE ShardProofs ----------------------------
(***************************************************************************)
(* Proofs about Shard, for every set of targets, number of shards, plan,   *)
(* budgets and answers of preflight.  Whatever the plan gives a shard, the *)
(* argument is about one shard: Sound(k) speaks of the state of shard k    *)
(* only, so that a step of another leaves it alone (Frame), and each of    *)
(* the shard's own actions preserves it.                                   *)
(***************************************************************************)
EXTENDS Shard, FoldLemmas

\* An outcome of a target that was let through.
Ran(o) == o.state \notin {"blocked", "deferred"} /\ o.code # "ERR-PREFLIGHT-FAILED"

Touched(k) == reading[k] \cup writing[k] \cup published[k] \cup recorded[k] \cup refused[k]

\* Each target the shard took is to come, awaited or reported, and one of these.
Books(k) ==
  /\ mine[k] = todo[k] \cup awaited[k] \cup Reported(k)
  /\ todo[k] \cap (awaited[k] \cup Reported(k)) = {}
  /\ awaited[k] \cap Reported(k) = {}
  /\ \A o, p \in outcomes[k] : o.target = p.target => o = p
  /\ \A t, u \in awaited[k] : t = u

\* What runs or has written was let through; what succeeded is on record.
Cleared(k) ==
  /\ \A t \in Touched(k) : t \in awaited[k] \/ \E o \in outcomes[k] : o.target = t /\ Ran(o)
  /\ \A o \in outcomes[k] : o.state \in States
  /\ \A o \in outcomes[k] : o.state = "succeeded" => o.target \in recorded[k] \cup refused[k]

\* The phases of the process.
Phases(k) ==
  /\ process[k] \in {"waiting", "running", "exited", "dead"}
  /\ process[k] = "waiting" => mine[k] = {}
  /\ process[k] # "running" => reading[k] = {} /\ writing[k] = {}
  /\ process[k] = "exited" =>
       /\ todo[k] = {} /\ awaited[k] = {}
       /\ exit[k] = ExitForRun(outcomes[k], MissingOutcomes(mine[k], outcomes[k]))

Sound(k) == Books(k) /\ Cleared(k) /\ Phases(k)

Functional ==
  /\ DOMAIN process = Shards /\ DOMAIN mine = Shards /\ DOMAIN todo = Shards
  /\ DOMAIN awaited = Shards /\ DOMAIN outcomes = Shards /\ DOMAIN exit = Shards
  /\ DOMAIN reading = Shards /\ DOMAIN writing = Shards /\ DOMAIN published = Shards
  /\ DOMAIN recorded = Shards /\ DOMAIN refused = Shards

IInv == Functional /\ \A k \in Shards : Sound(k)

SameAt(j) ==
  /\ process'[j] = process[j] /\ mine'[j] = mine[j] /\ todo'[j] = todo[j]
  /\ awaited'[j] = awaited[j] /\ outcomes'[j] = outcomes[j] /\ exit'[j] = exit[j]
  /\ reading'[j] = reading[j] /\ writing'[j] = writing[j] /\ published'[j] = published[j]
  /\ recorded'[j] = recorded[j] /\ refused'[j] = refused[j]

\* The soundness of a shard depends on that shard only.
LEMMA Frame ==
  ASSUME NEW j \in Shards, Sound(j), SameAt(j)
  PROVE  Sound(j)'
<1>1. Books(j)'
  BY DEF Sound, Books, SameAt, Reported
<1>2. Cleared(j)'
  BY DEF Sound, Cleared, SameAt, Touched, Ran
<1>3. Phases(j)'
  BY DEF Sound, Phases, SameAt
<1>. QED  BY <1>1, <1>2, <1>3 DEF Sound

\* One more outcome reports one more target.
LEMMA OneMore ==
  ASSUME NEW S, NEW o
  PROVE  {x.target : x \in S \cup {o}} = {x.target : x \in S} \cup {o.target}
OBVIOUS

\* The end of awaited stages, or of their budget: one outcome for t.
LEMMA SettleBooks ==
  ASSUME NEW k \in Shards, Books(k), NEW t, NEW state, NEW code,
         t \in awaited[k],
         outcomes'[k] = outcomes[k] \cup {Outcome(t, state, code)},
         awaited'[k] = {}, todo'[k] = todo[k], mine'[k] = mine[k]
  PROVE  Books(k)'
<1>1. Outcome(t, state, code).target = t
  BY DEF Outcome
<1>2. Reported(k)' = Reported(k) \cup {t}
  BY <1>1, OneMore DEF Reported
<1>3. awaited[k] = {t}
  BY DEF Books
<1>4. \A o, p \in outcomes'[k] : o.target = p.target => o = p
  <2>1. \A o \in outcomes[k] : o.target # t
    BY <1>3 DEF Books, Reported
  <2>. QED  BY <1>1, <2>1 DEF Books
<1>. QED  BY <1>2, <1>3, <1>4 DEF Books

\* A target reported as soon as it is taken.
LEMMA TakeBooks ==
  ASSUME NEW k \in Shards, Books(k), NEW t, NEW state, NEW code,
         t \in todo[k], awaited[k] = {},
         outcomes'[k] = outcomes[k] \cup {Outcome(t, state, code)},
         awaited'[k] = awaited[k], todo'[k] = todo[k] \ {t}, mine'[k] = mine[k]
  PROVE  Books(k)'
<1>1. Outcome(t, state, code).target = t
  BY DEF Outcome
<1>2. Reported(k)' = Reported(k) \cup {t}
  BY <1>1, OneMore DEF Reported
<1>4. \A o, p \in outcomes'[k] : o.target = p.target => o = p
  <2>1. \A o \in outcomes[k] : o.target # t
    BY DEF Books, Reported
  <2>. QED  BY <1>1, <2>1 DEF Books
<1>. QED  BY <1>2, <1>4 DEF Books


\* Nothing of the books moves.
LEMMA SameBooks ==
  ASSUME NEW k \in Shards, Books(k), outcomes'[k] = outcomes[k],
         awaited'[k] = awaited[k], todo'[k] = todo[k], mine'[k] = mine[k]
  PROVE  Books(k)'
BY DEF Books, Reported

\* A step of one shard.
LEMMA OneShard ==
  ASSUME IInv, NEW k \in Shards, Functional', Sound(k)',
         \A j \in Shards \ {k} : SameAt(j)
  PROVE  IInv'
<1>1. \A j \in Shards : Sound(j)'
  BY Frame DEF IInv
<1>. QED  BY <1>1 DEF IInv, Shards

LEMMA InitIInv == Init => IInv
<1>. SUFFICES ASSUME Init PROVE IInv
  OBVIOUS
<1>1. Functional
  BY DEF Init, Nobody, Functional
<1>2. ASSUME NEW k \in Shards PROVE Sound(k)
  BY DEF Init, Nobody, Sound, Books, Cleared, Phases, Touched, Reported
<1>. QED  BY <1>1, <1>2 DEF IInv

\* The clock and the plan job touch no shard.
LEMMA PlanStep ==
  ASSUME IInv, Tick \/ PlanJob \/ UNCHANGED vars
  PROVE  IInv'
<1>1. UNCHANGED <<loop, work>>
  BY DEF Tick, PlanJob, vars
<1>2. \A j \in Shards : SameAt(j)
  BY <1>1 DEF loop, work, SameAt
<1>3. Functional'
  BY <1>1 DEF loop, work, IInv, Functional
<1>4. \A j \in Shards : Sound(j)'
  BY <1>2, Frame DEF IInv
<1>. QED  BY <1>3, <1>4 DEF IInv, Shards

LEMMA StartStep ==
  ASSUME IInv, NEW k \in Shards, Start(k)
  PROVE  IInv'
<1>1. Functional'
  BY DEF Start, plan, work, IInv, Functional
<1>2. \A j \in Shards \ {k} : SameAt(j)
  BY DEF Start, plan, work, IInv, Functional, SameAt
<1>3. mine[k] = {} /\ reading[k] = {} /\ writing[k] = {}
  BY DEF Start, IInv, Sound, Phases
<1>4. awaited[k] = {} /\ outcomes[k] = {}
  BY <1>3 DEF IInv, Sound, Books, Reported
<1>5. /\ todo'[k] = mine'[k] /\ awaited'[k] = awaited[k] /\ outcomes'[k] = outcomes[k]
      /\ process'[k] = "running" /\ reading'[k] = reading[k] /\ writing'[k] = writing[k]
      /\ published'[k] = published[k] /\ recorded'[k] = recorded[k] /\ refused'[k] = refused[k]
  BY DEF Start, plan, work, IInv, Functional
<1>6. Books(k)'
  BY <1>4, <1>5 DEF Books, Reported
<1>7. Cleared(k)'
  BY <1>5 DEF IInv, Sound, Cleared, Touched, Ran
<1>8. Phases(k)'
  BY <1>5 DEF Phases
<1>. QED  BY <1>1, <1>2, <1>6, <1>7, <1>8, OneShard DEF Sound

LEMMA DieStep ==
  ASSUME IInv, NEW k \in Shards, Die(k)
  PROVE  IInv'
<1>1. Functional'
  BY DEF Die, plan, IInv, Functional
<1>2. \A j \in Shards \ {k} : SameAt(j)
  BY DEF Die, plan, IInv, Functional, SameAt
<1>3. Books(k)'
  BY SameBooks DEF Die, IInv, Sound
<1>4. Cleared(k)'
  <2>1. Touched(k)' \subseteq Touched(k)
    BY DEF Die, IInv, Functional, Touched
  <2>. QED  BY <2>1 DEF Die, IInv, Sound, Cleared, Ran
<1>5. Phases(k)'
  BY DEF Die, IInv, Functional, Phases
<1>. QED  BY <1>1, <1>2, <1>3, <1>4, <1>5, OneShard DEF Sound

\* A target that is reported as soon as it is taken, and is not begun.
LEMMA ReportedAtOnce ==
  ASSUME IInv, NEW k \in Shards, NEW t, NEW state \in {"failed", "blocked", "deferred"},
         NEW code, Take(k, t), Functional',
         outcomes' = [outcomes EXCEPT ![k] = @ \cup {Outcome(t, state, code)}],
         UNCHANGED <<process, mine, awaited, exit, work>>
  PROVE  IInv'
<1>2. \A j \in Shards \ {k} : SameAt(j)
  BY DEF Take, work, IInv, Functional, SameAt
<1>3. /\ outcomes'[k] = outcomes[k] \cup {Outcome(t, state, code)}
      /\ todo'[k] = todo[k] \ {t} /\ awaited[k] = {} /\ t \in todo[k] /\ process[k] = "running"
  BY DEF Take, AtLoopHead, IInv, Functional
<1>4. Books(k)'
  BY <1>3, TakeBooks DEF IInv, Sound
<1>5. Cleared(k)'
  BY <1>3 DEF work, IInv, Sound, Cleared, Touched, States, Outcome
<1>6. Phases(k)'
  BY <1>3 DEF IInv, Phases
<1>. QED  BY <1>2, <1>4, <1>5, <1>6, OneShard DEF Sound

LEMMA DeferStep ==
  ASSUME IInv, NEW k \in Shards, NEW t, Defer(k, t)
  PROVE  IInv'
<1>1. Functional'
  BY DEF Defer, Take, plan, work, IInv, Functional
<1>. QED  BY <1>1, ReportedAtOnce DEF Defer

LEMMA TurnAwayStep ==
  ASSUME IInv, NEW k \in Shards, NEW t, NEW verdict, TurnAway(k, t, verdict)
  PROVE  IInv'
<1>1. Functional'
  BY DEF TurnAway, Take, Report, Spent, plan, work, IInv, Functional
<1>. QED  BY <1>1, ReportedAtOnce DEF TurnAway, Report, Spent

LEMMA BeginStep ==
  ASSUME IInv, NEW k \in Shards, NEW t, NEW verdict, Begin(k, t, verdict)
  PROVE  IInv'
<1>1. Functional'
  BY DEF Begin, Take, plan, IInv, Functional
<1>2. \A j \in Shards \ {k} : SameAt(j)
  BY DEF Begin, Take, plan, IInv, Functional, SameAt
<1>3. /\ todo'[k] = todo[k] \ {t} /\ t \in todo[k]
      /\ awaited[k] = {} /\ awaited'[k] = {t} /\ process[k] = "running"
      /\ reading'[k] = reading[k] \cup {t}
  BY DEF Begin, Take, AtLoopHead, IInv, Functional
<1>4. Books(k)'
  BY <1>3 DEF Begin, IInv, Sound, Books, Reported
<1>5. Cleared(k)'
  BY <1>3 DEF Begin, IInv, Sound, Cleared, Touched, Ran
<1>6. Phases(k)'
  BY <1>3 DEF Begin, IInv, Phases
<1>. QED  BY <1>1, <1>2, <1>4, <1>5, <1>6, OneShard DEF Sound


\* The stages of t end in an outcome, heard or unheard.  `gone` is what they
\* leave, `kept` what they have written by then.
LEMMA EndOfStages ==
  ASSUME IInv, NEW k \in Shards, NEW t \in reading[k] \cup writing[k],
         NEW state \in {"succeeded", "failed"}, NEW code, code # "ERR-PREFLIGHT-FAILED",
         Ends(k, t, Outcome(t, state, code)),
         Functional', \A j \in Shards \ {k} : SameAt(j),
         UNCHANGED <<process, mine, todo, exit>>,
         Touched(k)' \subseteq Touched(k),
         recorded[k] \cup refused[k] \subseteq recorded'[k] \cup refused'[k],
         state = "succeeded" => t \in recorded'[k] \cup refused'[k]
  PROVE  IInv'
<1>1. process[k] = "running"
  BY DEF IInv, Sound, Phases
<1>2. CASE t \in awaited[k]
  <2>1. /\ outcomes'[k] = outcomes[k] \cup {Outcome(t, state, code)}
        /\ awaited'[k] = {}
    BY <1>2 DEF Ends, Report, Spent, IInv, Functional
  <2>2. Books(k)'
    BY <1>2, <2>1, SettleBooks DEF IInv, Sound
  <2>3. awaited[k] = {t}
    BY <1>2 DEF IInv, Sound, Books
  <2>4. Ran(Outcome(t, state, code))
    BY DEF Ran, Outcome
  <2>5. Cleared(k)'
    <3>1. ASSUME NEW u \in Touched(k)'
          PROVE  \E o \in outcomes'[k] : o.target = u /\ Ran(o)
      BY <2>1, <2>3, <2>4 DEF IInv, Sound, Cleared, Outcome
    <3>2. \A o \in outcomes'[k] : o.state \in States
      BY <2>1 DEF IInv, Sound, Cleared, Outcome, States
    <3>3. \A o \in outcomes'[k] :
            o.state = "succeeded" => o.target \in recorded'[k] \cup refused'[k]
      BY <2>1 DEF IInv, Sound, Cleared, Outcome
    <3>. QED  BY <3>1, <3>2, <3>3 DEF Cleared, Ran
  <2>6. Phases(k)'
    BY <1>1 DEF Phases
  <2>. QED  BY <2>2, <2>5, <2>6, OneShard DEF Sound
<1>3. CASE t \notin awaited[k]
  <2>1. outcomes' = outcomes /\ awaited' = awaited
    BY <1>3 DEF Ends
  <2>2. Books(k)'
    BY <2>1, SameBooks DEF IInv, Sound
  <2>3. Cleared(k)'
    BY <2>1 DEF IInv, Sound, Cleared, Ran
  <2>4. Phases(k)'
    BY <1>1 DEF Phases
  <2>. QED  BY <2>2, <2>3, <2>4, OneShard DEF Sound
<1>. QED  BY <1>2, <1>3

\* What an end of stages changes of the books, whoever awaits it.
LEMMA EndsAt ==
  ASSUME Functional, NEW k \in Shards, NEW t, NEW o, Ends(k, t, o)
  PROVE  /\ DOMAIN outcomes' = Shards /\ DOMAIN awaited' = Shards
         /\ \A j \in Shards \ {k} : outcomes'[j] = outcomes[j] /\ awaited'[j] = awaited[j]
BY DEF Ends, Report, Spent, Functional

LEMMA ThrowStep ==
  ASSUME IInv, NEW k \in Shards, NEW t, Throw(k, t)
  PROVE  IInv'
<1>. PICK code \in Thrown : Ends(k, t, Outcome(t, "failed", code))
  BY DEF Throw
<1>. DEFINE o == Outcome(t, "failed", code)
<1>0. Functional /\ Ends(k, t, o) /\ code # "ERR-PREFLIGHT-FAILED"
  BY ThrownAssumption DEF IInv
<1>. HIDE DEF o
<1>1. Functional'
  BY <1>0, EndsAt DEF Throw, plan, Functional
<1>2. \A j \in Shards \ {k} : SameAt(j)
  BY <1>0, EndsAt DEF Throw, plan, Functional, SameAt
<1>3. Touched(k)' \subseteq Touched(k)
  BY <1>0 DEF Throw, Functional, Touched
<1>. QED
  BY <1>0, <1>1, <1>2, <1>3, EndOfStages DEF Throw, o

LEMMA RefuseStep ==
  ASSUME IInv, NEW k \in Shards, NEW t, Refuse(k, t)
  PROVE  IInv'
<1>. DEFINE o == Outcome(t, "succeeded", "none")
<1>0. Functional /\ Ends(k, t, o)
  BY DEF Refuse, IInv
<1>. HIDE DEF o
<1>1. Functional'
  BY <1>0, EndsAt DEF Refuse, plan, Functional
<1>2. \A j \in Shards \ {k} : SameAt(j)
  BY <1>0, EndsAt DEF Refuse, plan, Functional, SameAt
<1>3. Touched(k)' \subseteq Touched(k)
  BY <1>0 DEF Refuse, Functional, Touched
<1>4. t \in refused'[k] /\ refused[k] \subseteq refused'[k]
  BY <1>0 DEF Refuse, Functional
<1>. QED
  BY <1>0, <1>1, <1>2, <1>3, <1>4, EndOfStages DEF Refuse, o

LEMMA RecordStep ==
  ASSUME IInv, NEW k \in Shards, NEW t, Record(k, t)
  PROVE  IInv'
<1>. DEFINE o == Outcome(t, "succeeded", "none")
<1>0. Functional /\ Ends(k, t, o)
  BY DEF Record, IInv
<1>. HIDE DEF o
<1>1. Functional'
  BY <1>0, EndsAt DEF Record, plan, Functional
<1>2. \A j \in Shards \ {k} : SameAt(j)
  BY <1>0, EndsAt DEF Record, plan, Functional, SameAt
<1>3. Touched(k)' \subseteq Touched(k)
  BY <1>0 DEF Record, Functional, Touched
<1>4. t \in recorded'[k] /\ recorded[k] \subseteq recorded'[k]
  BY <1>0 DEF Record, Functional
<1>. QED
  BY <1>0, <1>1, <1>2, <1>3, <1>4, EndOfStages DEF Record, o

LEMMA PublishStep ==
  ASSUME IInv, NEW k \in Shards, NEW t, Publish(k, t)
  PROVE  IInv'
<1>1. Functional'
  BY DEF Publish, plan, loop, IInv, Functional
<1>2. \A j \in Shards \ {k} : SameAt(j)
  BY DEF Publish, plan, loop, IInv, Functional, SameAt
<1>3. process[k] = "running"
  BY DEF Publish, IInv, Sound, Phases
<1>4. Books(k)'
  BY SameBooks DEF Publish, loop, IInv, Sound
<1>5. Touched(k)' \subseteq Touched(k)
  BY DEF Publish, IInv, Functional, Touched
<1>6. Cleared(k)'
  BY <1>5 DEF Publish, loop, IInv, Sound, Cleared, Ran
<1>7. Phases(k)'
  BY <1>3 DEF Publish, loop, Phases
<1>. QED  BY <1>1, <1>2, <1>4, <1>6, <1>7, OneShard DEF Sound

LEMMA ExpireStep ==
  ASSUME IInv, NEW k \in Shards, NEW t, Expire(k, t)
  PROVE  IInv'
<1>1. Functional'
  BY DEF Expire, Report, Spent, plan, work, IInv, Functional
<1>2. \A j \in Shards \ {k} : SameAt(j)
  BY DEF Expire, Report, Spent, plan, work, IInv, Functional, SameAt
<1>3. /\ outcomes'[k] = outcomes[k] \cup {Outcome(t, "failed", "ERR-BUDGET-TARGET")}
      /\ awaited'[k] = {} /\ t \in awaited[k] /\ process[k] = "running"
  BY DEF Expire, Report, Spent, IInv, Functional
<1>4. Books(k)'
  BY <1>3, SettleBooks DEF Expire, IInv, Sound
<1>5. awaited[k] = {t}
  BY <1>3 DEF IInv, Sound, Books
<1>6. Ran(Outcome(t, "failed", "ERR-BUDGET-TARGET"))
  BY DEF Ran, Outcome
<1>7. Cleared(k)'
  <2>1. ASSUME NEW u \in Touched(k)'
        PROVE  \E o \in outcomes'[k] : o.target = u /\ Ran(o)
    BY <1>3, <1>5, <1>6 DEF Expire, work, Touched, IInv, Sound, Cleared, Outcome
  <2>2. \A o \in outcomes'[k] : /\ o.state \in States
                                /\ o.state = "succeeded" => o.target \in recorded'[k] \cup refused'[k]
    BY <1>3 DEF Expire, work, IInv, Sound, Cleared, Outcome, States
  <2>. QED  BY <2>1, <2>2 DEF Cleared, Ran
<1>8. Phases(k)'
  BY <1>3 DEF Expire, Phases
<1>. QED  BY <1>1, <1>2, <1>4, <1>7, <1>8, OneShard DEF Sound

LEMMA ExitStep ==
  ASSUME IInv, NEW k \in Shards, Exit(k)
  PROVE  IInv'
<1>1. Functional'
  BY DEF Exit, plan, IInv, Functional
<1>2. \A j \in Shards \ {k} : SameAt(j)
  BY DEF Exit, plan, IInv, Functional, SameAt
<1>3. Books(k)'
  BY SameBooks DEF Exit, IInv, Sound
<1>4. Touched(k)' \subseteq Touched(k)
  BY DEF Exit, IInv, Functional, Touched
<1>5. Cleared(k)'
  BY <1>4 DEF Exit, IInv, Sound, Cleared, Ran
<1>6. Phases(k)'
  BY DEF Exit, AtLoopHead, IInv, Functional, Phases
<1>. QED  BY <1>1, <1>2, <1>3, <1>5, <1>6, OneShard DEF Sound

LEMMA StepIInv == IInv /\ [Next]_vars => IInv'
<1>. SUFFICES ASSUME IInv, [Next]_vars PROVE IInv'
  OBVIOUS
<1>1. CASE Tick \/ PlanJob \/ UNCHANGED vars
  BY <1>1, PlanStep
<1>2. ASSUME NEW k \in Shards, Start(k) \/ Die(k)
      PROVE  IInv'
  BY <1>2, StartStep, DieStep
<1>3. ASSUME NEW k \in Shards, Loop(k)
      PROVE  IInv'
  BY <1>3, DeferStep, TurnAwayStep, BeginStep, ExpireStep, ExitStep DEF Loop
<1>4. ASSUME NEW k \in Shards, Stages(k)
      PROVE  IInv'
  BY <1>4, ThrowStep, RefuseStep, PublishStep, RecordStep DEF Stages
<1>. QED  BY <1>1, <1>2, <1>3, <1>4 DEF Next

LEMMA AlwaysIInv == Spec => []IInv
BY InitIInv, StepIInv, PTL DEF Spec

-----------------------------------------------------------------------------

\* TR-APP-006: no target a shard took is lost or reported twice, whatever
\* expires, throws or is denied, and however late orphaned stages end.
THEOREM TargetsAccounted == Spec => []EveryTargetAccounted
<1>1. IInv => EveryTargetAccounted
  BY DEF IInv, Sound, Books, Phases, EveryTargetAccounted
<1>. QED  BY <1>1, AlwaysIInv, PTL

\* A target that preflight denied, or could not decide on, or that was
\* deferred, neither runs nor writes anything, then or later.
THEOREM OnlyClearedRun == Spec => []OnlyTheClearedRun
<1>1. ASSUME IInv, NEW k \in Shards
      PROVE  LET turnedAway == {o.target : o \in {o \in outcomes[k] :
                                  o.state \in {"blocked", "deferred"} \/ o.code = "ERR-PREFLIGHT-FAILED"}}
             IN  Touched(k) \cap (turnedAway \cup todo[k]) = {}
  <2>1. ASSUME NEW t \in Touched(k) PROVE t \notin todo[k]
    BY <1>1, <2>1 DEF IInv, Sound, Cleared, Books, Reported
  <2>2. ASSUME NEW t \in Touched(k), NEW o \in outcomes[k], o.target = t
        PROVE  Ran(o)
    BY <1>1, <2>2 DEF IInv, Sound, Cleared, Books, Reported
  <2>. QED  BY <2>1, <2>2 DEF Ran
<1>2. IInv => OnlyTheClearedRun
  BY <1>1 DEF OnlyTheClearedRun, Touched
<1>. QED  BY <1>2, AlwaysIInv, PTL

\* EDR-030: a shard's job is red only when every one of its targets failed,
\* and 0 means that each was recorded or refused by the publish gate.
THEOREM ExitHonest == Spec => []ExitIsHonest
<1>1. ASSUME IInv, NEW k \in Shards, process[k] = "exited"
      PROVE  /\ FailsJob(exit[k]) <=> mine[k] # {} /\ With(k, "failed") = mine[k]
             /\ exit[k] = "OK" => mine[k] \subseteq recorded[k] \cup refused[k]
  <2>. DEFINE failed == {o \in outcomes[k] : o.state = "failed"}
  <2>1. mine[k] = Reported(k)
    BY <1>1 DEF IInv, Sound, Books, Phases
  <2>2. MissingOutcomes(mine[k], outcomes[k]) = {}
    BY <2>1 DEF MissingOutcomes, Reported
  <2>3. exit[k] = ExitForRun(outcomes[k], {})
    BY <1>1, <2>2 DEF IInv, Sound, Phases
  <2>4. FailsJob(exit[k]) <=> failed # {} /\ failed = outcomes[k]
    BY <2>3 DEF ExitForRun, FailsJob
  <2>5. failed = outcomes[k] <=> With(k, "failed") = mine[k]
    BY <1>1, <2>1 DEF With, Reported, IInv, Sound, Books
  <2>6. failed = outcomes[k] => (failed # {} <=> mine[k] # {})
    BY <2>1 DEF Reported
  <2>7. ASSUME exit[k] = "OK"
        PROVE  mine[k] \subseteq recorded[k] \cup refused[k]
    <3>1. \A o \in outcomes[k] : o.state \notin {"failed", "blocked", "deferred"}
      BY <2>3, <2>7 DEF ExitForRun
    <3>2. \A o \in outcomes[k] : o.state = "succeeded"
      BY <1>1, <3>1 DEF IInv, Sound, Cleared, States
    <3>. QED  BY <1>1, <2>1, <3>2 DEF IInv, Sound, Cleared, Reported
  <2>. QED  BY <2>4, <2>5, <2>6, <2>7
<1>2. IInv => ExitIsHonest
  BY <1>1 DEF ExitIsHonest
<1>. QED  BY <1>2, AlwaysIInv, PTL
-----------------------------------------------------------------------------
(***************************************************************************)
(* The plan.  The order is one that exists, the load is a sum, and the     *)
(* partition and its balance are an invariant of the fold: the target that *)
(* is placed is no costlier than those placed before it, and it goes to a  *)
(* shard that carries no more than the others.                             *)
(***************************************************************************)

LEMMA CostsAreNatural ==
  ASSUME health \in Healths PROVE \A t \in Targets : EstimateCost(t) \in Nat
  BY HealthsAssumption DEF EstimateCost

LEMMA LoadsAreSums ==
  ASSUME health \in Healths
  PROVE  /\ \A R \in SUBSET Targets : Load(R) \in Nat
         /\ \A R \in SUBSET Targets : \A t \in Targets \ R :
              Load(R \cup {t}) = EstimateCost(t) + Load(R)
<1> DEFINE w == [t \in Targets |-> EstimateCost(t)]
           Sums(f, R) == f = [s \in SUBSET R |->
                            IF s = {} THEN 0 ELSE EstimateCost(Pick(s)) + f[s \ {Pick(s)}]]
<1>1. IsFiniteSet(Targets) /\ w \in [Targets -> Nat]
  BY TargetsAssumption, CostsAreNatural
<1>2. PICK f \in [SUBSET Targets -> Nat] : Adds(f, Targets, w)
  BY <1>1, AddingIsDefined
<1>3. ASSUME NEW R \in SUBSET Targets PROVE Load(R) = f[R]
  <2> DEFINE v == [t \in R |-> EstimateCost(t)]
  <2>1. Load(R) = (CHOOSE h : Sums(h, R))[R]
    BY Zenon DEF Load, MapThenSumSet, MapThenFoldSet, Pick
  <2>2. IsFiniteSet(R) /\ v \in [R -> Nat]
    BY <1>1, CostsAreNatural, FS_Subset
  <2>3. ASSUME NEW h PROVE Sums(h, R) <=> Adds(h, R, v)
    <3>1. \A s \in SUBSET R : s # {} => v[Pick(s)] = EstimateCost(Pick(s))
      BY DEF Pick
    <3> QED BY <3>1 DEF Adds
  <2>4. \A x \in R : w[x] = v[x]
    OBVIOUS
  <2> HIDE DEF v, w, Sums
  <2>5. \E h : Sums(h, R)
    BY <2>2, <2>3, AddingIsDefined
  <2>6. PICK h : h = (CHOOSE g : Sums(g, R)) /\ Adds(h, R, v)
    BY <2>3, <2>5
  <2>7. f[R] = h[R]
    BY <1>1, <1>2, <2>2, <2>4, <2>6, AddingIsUnique
  <2> QED BY <2>1, <2>6, <2>7
<1>4. ASSUME NEW R \in SUBSET Targets, NEW t \in Targets \ R
      PROVE  f[R \cup {t}] = EstimateCost(t) + f[R]
  <2>1. (R \cup {t}) \ {t} = R /\ R \cup {t} \in SUBSET Targets /\ w[t] = EstimateCost(t)
    OBVIOUS
  <2> HIDE DEF w
  <2> QED BY <1>1, <1>2, <2>1, AddingTakesAny
<1> QED BY <1>3, <1>4

\* A finite set of numbers that is not empty has a greatest.
LEMMA GreatestElement ==
  ASSUME NEW S \in SUBSET Nat, IsFiniteSet(S)
  PROVE  S # {} => \E x \in S : \A y \in S : y <= x
<1> DEFINE Top(s) == s # {} => \E x \in s : \A y \in s : y <= x
           Good == {n \in Nat : \A s \in SUBSET S : Cardinality(s) = n => Top(s)}
<1>1. 0 \in Good
  BY Elements
<1>2. ASSUME NEW n \in Nat, n \in Good PROVE n + 1 \in Good
  <2> SUFFICES ASSUME NEW s \in SUBSET S, Cardinality(s) = n + 1, s # {} PROVE Top(s)
    OBVIOUS
  <2> PICK a \in s : TRUE
    OBVIOUS
  <2>1. Cardinality(s \ {a}) = n /\ s \ {a} \in SUBSET S
    <3>1. Cardinality(s \ {a}) = Cardinality(s) - 1
      BY Elements
    <3> QED BY <3>1
  <2>2. CASE s \ {a} = {}
    BY <2>2
  <2>3. CASE s \ {a} # {}
    <3>1. PICK b \in s \ {a} : \A y \in s \ {a} : y <= b
      BY <1>2, <2>1, <2>3
    <3>2. a \in Nat /\ b \in Nat /\ \A y \in s : y \in Nat
      OBVIOUS
    <3>3. CASE a <= b
      BY <3>1, <3>3
    <3>4. CASE b <= a
      BY <3>1, <3>2, <3>4
    <3> QED BY <3>2, <3>3, <3>4
  <2> QED BY <2>2, <2>3
<1> HIDE DEF Good
<1>3. Nat \subseteq Good
  BY <1>1, <1>2, Ascending
<1> QED BY <1>3, Elements DEF Good

\* One target comes after all the others.
LEMMA LastOne ==
  ASSUME health \in Healths, NEW S \in SUBSET Targets, S # {}
  PROVE  \E x \in S : \A y \in S \ {x} : Before(y, x)
<1> DEFINE Cost == {EstimateCost(t) : t \in S}
<1>1. Cost \in SUBSET Nat /\ Cost # {}
  BY CostsAreNatural
<1>2. PICK c \in Cost : \A d \in Cost : c <= d
  BY <1>1, LeastElement
<1> DEFINE cheap == {t \in S : EstimateCost(t) = c}
<1>3. cheap # {} /\ cheap \in SUBSET Nat /\ IsFiniteSet(cheap)
  BY TargetsAssumption, FS_Subset
<1>4. PICK x \in cheap : \A y \in cheap : y <= x
  BY <1>3, GreatestElement
<1>5. ASSUME NEW y \in S \ {x} PROVE Before(y, x)
  <2>1. EstimateCost(y) \in Nat /\ EstimateCost(x) = c /\ c \in Nat /\ c <= EstimateCost(y)
    BY <1>1, <1>2, CostsAreNatural
  <2>2. x \in Nat /\ y \in Nat
    BY TargetsAssumption
  <2>3. CASE EstimateCost(y) = c
    <3>1. y <= x
      BY <1>4, <2>3
    <3> QED BY <2>1, <2>2, <2>3, <3>1 DEF Before
  <2>4. CASE EstimateCost(y) # c
    BY <2>1, <2>4 DEF Before
  <2> QED BY <2>3, <2>4
<1> QED BY <1>5

Ordered(q, S) ==
  /\ q \in [1 .. Cardinality(S) -> S] /\ Range(q) = S
  /\ \A i, j \in DOMAIN q : i < j => Before(q[i], q[j])

\* The costliest can be put first, and so on to the last.
LEMMA OrderExists ==
  ASSUME health \in Healths, NEW S \in SUBSET Targets
  PROVE  \E q : Ordered(q, S)
<1>1. IsFiniteSet(S)
  BY TargetsAssumption, FS_Subset
<1> DEFINE Good == {n \in Nat : \A s \in SUBSET S : Cardinality(s) = n => \E q : Ordered(q, s)}
<1>2. 0 \in Good
  <2> SUFFICES ASSUME NEW s \in SUBSET S, Cardinality(s) = 0 PROVE \E q : Ordered(q, s)
    OBVIOUS
  <2>1. s = {}
    BY <1>1, Elements
  <2> DEFINE q == [i \in 1 .. 0 |-> 0]
  <2>2. Ordered(q, s)
    BY <2>1, NothingIsNone DEF Ordered, Range
  <2> QED BY <2>2
<1>3. ASSUME NEW n \in Nat, n \in Good PROVE n + 1 \in Good
  <2> SUFFICES ASSUME NEW s \in SUBSET S, Cardinality(s) = n + 1 PROVE \E q : Ordered(q, s)
    OBVIOUS
  <2>1. s # {} /\ s \in SUBSET Targets
    BY NothingIsNone
  <2>2. PICK x \in s : \A y \in s \ {x} : Before(y, x)
    BY <2>1, LastOne
  <2>3. Cardinality(s \ {x}) = n /\ s \ {x} \in SUBSET S
    BY <1>1, Elements
  <2>4. PICK p : Ordered(p, s \ {x})
    BY <1>3, <2>3
  <2> DEFINE q == [i \in 1 .. (n + 1) |-> IF i <= n THEN p[i] ELSE x]
  <2>5. p \in [1 .. n -> s \ {x}] /\ Range(p) = s \ {x}
    BY <2>3, <2>4 DEF Ordered
  <2>6. q \in [1 .. (n + 1) -> s]
    BY <2>5
  <2>7. Range(q) = s
    <3>1. ASSUME NEW y \in s PROVE \E i \in 1 .. (n + 1) : q[i] = y
      <4>1. CASE y = x
        BY <4>1
      <4>2. CASE y # x
        <5>1. PICK i \in 1 .. n : p[i] = y
          BY <2>5, <4>2 DEF Range
        <5> QED BY <5>1
      <4> QED BY <4>1, <4>2
    <3> HIDE DEF q
    <3> QED BY <2>6, <3>1 DEF Range
  <2>8. ASSUME NEW i \in 1 .. (n + 1), NEW j \in 1 .. (n + 1), i < j PROVE Before(q[i], q[j])
    <3>1. i \in 1 .. n /\ q[i] = p[i] /\ p[i] \in s \ {x}
      BY <2>5, <2>8
    <3>2. CASE j \in 1 .. n
      <4>1. q[j] = p[j] /\ i \in DOMAIN p /\ j \in DOMAIN p
        BY <2>5, <3>1, <3>2
      <4>2. Before(p[i], p[j])
        BY <2>4, <2>8, <4>1 DEF Ordered
      <4> HIDE DEF q
      <4> QED BY <3>1, <4>1, <4>2
    <3>3. CASE j = n + 1
      BY <2>2, <3>1, <3>3
    <3> QED BY <3>2, <3>3
  <2> HIDE DEF q
  <2> QED BY <2>6, <2>7, <2>8 DEF Ordered
<1> HIDE DEF Good
<1>4. Nat \subseteq Good
  BY <1>2, <1>3, Ascending
<1> QED BY <1>1, <1>4, Elements DEF Good

LEMMA CostliestIsFirst ==
  ASSUME health \in Healths, NEW S \in SUBSET Targets
  PROVE  Ordered(CostliestFirst(S), S)
<1> DEFINE P(q) == Range(q) = S /\ \A i, j \in DOMAIN q : i < j => Before(q[i], q[j])
<1>1. \E q \in [1 .. Cardinality(S) -> S] : P(q)
  BY OrderExists DEF Ordered
<1>2. CostliestFirst(S) = CHOOSE q \in [1 .. Cardinality(S) -> S] : P(q)
  BY DEF CostliestFirst
<1> HIDE DEF P
<1>3. CostliestFirst(S) \in [1 .. Cardinality(S) -> S] /\ P(CostliestFirst(S))
  BY <1>1, <1>2
<1> QED BY <1>3 DEF P, Ordered

\* The shard that is chosen is one, and carries no more than any other.
LEMMA LeastLoadedIsLeast ==
  ASSUME health \in Healths, NEW shares \in [Shards -> SUBSET Targets]
  PROVE  /\ LeastLoaded(shares) \in Shards
         /\ \A j \in Shards : Load(shares[LeastLoaded(shares)]) <= Load(shares[j])
<1> DEFINE loads == {Load(shares[k]) : k \in Shards}
           least == {k \in Shards : \A j \in Shards : Load(shares[k]) <= Load(shares[j])}
<1>1. loads \in SUBSET Nat
  BY LoadsAreSums
<1>2. 0 \in Shards /\ Shards \in SUBSET Nat
  BY ShardCountAssumption DEF Shards
<1>3. least # {}
  <2>1. PICK l \in loads : \A m \in loads : l <= m
    <3> HIDE DEF Load
    <3>1. loads # {}
      BY <1>2
    <3> HIDE DEF loads
    <3> QED BY <1>1, <3>1, LeastElement
  <2> QED BY <2>1
<1>4. least \in SUBSET Nat
  BY <1>2
<1>5. LeastLoaded(shares) = Min(least)
  BY DEF LeastLoaded
<1>6. Min(least) \in least
  <2>1. \E n \in least : \A m \in least : n <= m
    BY <1>3, <1>4, LeastElement
  <2> HIDE DEF least
  <2> QED BY <2>1 DEF Min
<1> QED BY <1>5, <1>6

\* What the shares are when the first k targets have been placed.
Fair(shares, q, k) ==
  /\ UNION Range(shares) = {q[i] : i \in 1 .. k}
  /\ \A j, m \in Shards : j # m => shares[j] \cap shares[m] = {}
  /\ \A j, m \in Shards : \A t \in shares[j] :
       Load(shares[j]) <= Load(shares[m]) + EstimateCost(t)

LEMMA PlacingIsFair ==
  ASSUME health \in Healths, NEW S \in SUBSET Targets, NEW q, Ordered(q, S),
         NEW k \in 1 .. Cardinality(S), Cardinality(S) \in Nat,
         NEW shares \in [Shards -> SUBSET S], Fair(shares, q, k - 1)
  PROVE  LET next == [shares EXCEPT ![LeastLoaded(shares)] = @ \cup {q[k]}]
         IN  next \in [Shards -> SUBSET S] /\ Fair(next, q, k)
<1> DEFINE l == LeastLoaded(shares)
           t == q[k]
           next == [shares EXCEPT ![l] = @ \cup {t}]
<1>1. shares \in [Shards -> SUBSET Targets] /\ t \in S /\ t \in Targets
  BY DEF Ordered
<1>2. l \in Shards /\ \A j \in Shards : Load(shares[l]) <= Load(shares[j])
  BY <1>1, LeastLoadedIsLeast
<1>3. \A i \in 1 .. (k - 1) : /\ q[i] # t /\ q[i] \in Targets
                              /\ EstimateCost(t) <= EstimateCost(q[i])
  <2> TAKE i \in 1 .. (k - 1)
  <2>1. i \in DOMAIN q /\ k \in DOMAIN q /\ i < k /\ q[i] \in S
    BY DEF Ordered
  <2>2. Before(q[i], t)
    BY <2>1 DEF Ordered
  <2>3. q[i] \in Nat /\ EstimateCost(q[i]) \in Nat /\ EstimateCost(t) \in Nat
    BY <1>1, <2>1, TargetsAssumption, CostsAreNatural
  <2> HIDE DEF t
  <2> QED BY <2>1, <2>2, <2>3 DEF Before
<1>4. \A j \in Shards : \A u \in shares[j] :
        u # t /\ EstimateCost(t) <= EstimateCost(u) /\ u \in Targets
  <2> TAKE j \in Shards
  <2> TAKE u \in shares[j]
  <2>1. u \in UNION Range(shares)
    BY DEF Range
  <2> QED BY <1>3, <2>1 DEF Fair
<1> HIDE DEF l, t
<1>5. next \in [Shards -> SUBSET S] /\ next[l] = shares[l] \cup {t}
      /\ \A j \in Shards \ {l} : next[j] = shares[j]
  BY <1>1, <1>2
<1> HIDE DEF next
<1>6. UNION Range(next) = {q[i] : i \in 1 .. k}
  <2>1. UNION Range(next) = (UNION Range(shares)) \cup {t}
    BY <1>2, <1>5 DEF Range
  <2>2. {q[i] : i \in 1 .. k} = {q[i] : i \in 1 .. (k - 1)} \cup {t}
    <3>1. 1 .. k = (1 .. (k - 1)) \cup {k}
      OBVIOUS
    <3> QED BY <3>1 DEF t
  <2> QED BY <2>1, <2>2 DEF Fair
<1>7. \A j, m \in Shards : j # m => next[j] \cap next[m] = {}
  BY <1>4, <1>5 DEF Fair
<1>8. ASSUME NEW j \in Shards, NEW m \in Shards, NEW u \in next[j]
      PROVE  Load(next[j]) <= Load(next[m]) + EstimateCost(u)
  <2>1. \A i \in Shards : Load(shares[i]) \in Nat
    BY <1>1, LoadsAreSums
  <2>2. Load(next[l]) = EstimateCost(t) + Load(shares[l])
    <3>1. t \in Targets \ shares[l] /\ shares[l] \in SUBSET Targets
      BY <1>1, <1>2, <1>4
    <3> QED BY <1>5, <3>1, LoadsAreSums
  <2>3. EstimateCost(t) \in Nat /\ EstimateCost(u) \in Nat
    BY <1>1, <1>5, CostsAreNatural
  <2>4. CASE j = l /\ m # l
    <3>1. EstimateCost(t) <= EstimateCost(u)
      BY <1>4, <1>5, <2>3, <2>4
    <3>2. Load(shares[l]) <= Load(shares[m]) /\ Load(next[m]) = Load(shares[m])
      BY <1>2, <1>5, <2>4
    <3> QED BY <1>2, <2>1, <2>2, <2>3, <2>4, <3>1, <3>2
  <2>5. CASE j # l
    <3>1. Load(shares[j]) <= Load(shares[m]) + EstimateCost(u)
      BY <1>5, <2>5 DEF Fair
    <3>2. Load(next[j]) = Load(shares[j])
      BY <1>5, <2>5
    <3>3. CASE m = l
      BY <1>2, <2>1, <2>2, <2>3, <3>1, <3>2, <3>3
    <3>4. CASE m # l
      BY <1>5, <3>1, <3>2, <3>4
    <3> QED BY <3>3, <3>4
  <2>6. CASE j = m
    <3>1. Load(next[j]) \in Nat
      <4>1. next[j] \in SUBSET Targets
        BY <1>5
      <4> QED BY <4>1, LoadsAreSums
    <3> QED BY <2>3, <2>6, <3>1
  <2> QED BY <2>4, <2>5, <2>6
<1> QED BY <1>5, <1>6, <1>7, <1>8 DEF Fair, next, l, t

\* The plan is what is placed when all have been.
LEMMA PlanIsFair ==
  ASSUME health \in Healths, NEW S \in SUBSET Targets
  PROVE  /\ PlanShards(S) \in [Shards -> SUBSET S]
         /\ \E q : Ordered(q, S) /\ Fair(PlanShards(S), q, Cardinality(S))
<1> DEFINE n == Cardinality(S)
           q == CostliestFirst(S)
           D == [Shards -> SUBSET S]
           none == [k \in Shards |-> {}]
           Put(shares, t) == [shares EXCEPT ![LeastLoaded(shares)] = @ \cup {t}]
           g == [i \in 1 .. n |-> [shares \in D |-> Put(shares, q[i])]]
           Plans(f) == f = [s \in SUBSET (DOMAIN q) |->
                            IF s = {} THEN none ELSE Put(f[s \ {Max(s)}], q[Max(s)])]
<1>1. n \in Nat
  BY TargetsAssumption, FS_Subset, FS_CardinalityType
<1>2. Ordered(q, S) /\ DOMAIN q = 1 .. n /\ \A i \in 1 .. n : q[i] \in S
  BY CostliestIsFirst DEF Ordered
<1>3. PlanShards(S) = (CHOOSE f : Plans(f))[DOMAIN q]
  BY Zenon DEF PlanShards, FoldLeft, MapThenFoldSet
<1> HIDE DEF q, n
<1>4. g \in [1 .. n -> [D -> D]] /\ none \in D
  BY <1>2
<1>5. IsFiniteSet(1 .. n) /\ Picks(Lasts(n), 1 .. n)
  BY <1>1, LastsPick
<1>6. \E f \in [SUBSET (1 .. n) -> D] : IsFold(f, 1 .. n, Lasts(n), g, none)
  <2> HIDE DEF D, g, none
  <2> QED BY <1>4, <1>5, FoldIsDefined
<1>7. ASSUME NEW f \in [SUBSET (1 .. n) -> D], IsFold(f, 1 .. n, Lasts(n), g, none)
      PROVE  Plans(f)
  <2>1. ASSUME NEW s \in SUBSET (1 .. n), s # {}
        PROVE  g[Lasts(n)[s]][f[s \ {Lasts(n)[s]}]] = Put(f[s \ {Max(s)}], q[Max(s)])
    <3>1. Lasts(n)[s] = Max(s) /\ Max(s) \in 1 .. n
      BY <1>1, <2>1, MaxIsGreatest DEF Lasts
    <3>2. f[s \ {Max(s)}] \in D
      BY <2>1
    <3> HIDE DEF D, Put
    <3> QED BY <3>1, <3>2
  <2> HIDE DEF D, g, none, Put
  <2> QED BY <1>2, <1>7, <2>1 DEF IsFold
<1>8. PICK f : f = (CHOOSE h : Plans(h)) /\ Plans(f)
  <2> HIDE DEF Plans, D, g, none
  <2> QED BY <1>6, <1>7
<1>9. f[1 .. 0] = none
  <2>1. 1 .. 0 = {}
    OBVIOUS
  <2> HIDE DEF none, Put
  <2> QED BY <1>8, <2>1
<1>10. \A k \in 1 .. n : f[1 .. k] = Put(f[1 .. (k - 1)], q[k])
  <2> TAKE k \in 1 .. n
  <2>1. Lasts(n)[1 .. k] = k /\ (1 .. k) \ {k} = 1 .. (k - 1)
        /\ 1 .. k \in SUBSET (1 .. n) /\ 1 .. k # {}
    BY <1>1, LastOfPrefix
  <2>2. Max(1 .. k) = k
    BY <2>1 DEF Lasts
  <2> HIDE DEF none, Put
  <2> QED BY <1>2, <1>8, <2>1, <2>2
<1> DEFINE Good == {k \in Nat : k <= n => f[1 .. k] \in D /\ Fair(f[1 .. k], q, k)}
<1>11. 0 \in Good
  <2>1. Fair(none, q, 0)
    BY DEF Fair, Range
  <2> HIDE DEF D, none
  <2> QED BY <1>4, <1>9, <2>1
<1>12. ASSUME NEW k \in Nat, k \in Good PROVE k + 1 \in Good
  <2> SUFFICES ASSUME k + 1 <= n
               PROVE  f[1 .. (k + 1)] \in D /\ Fair(f[1 .. (k + 1)], q, k + 1)
    OBVIOUS
  <2>1. k + 1 \in 1 .. n /\ (k + 1) - 1 = k /\ k <= n
    BY <1>1
  <2>2. f[1 .. k] \in D /\ Fair(f[1 .. k], q, (k + 1) - 1)
    BY <1>12, <2>1
  <2>3. Put(f[1 .. k], q[k + 1]) \in D /\ Fair(Put(f[1 .. k], q[k + 1]), q, k + 1)
    BY <1>1, <1>2, <2>1, <2>2, PlacingIsFair DEF n
  <2>4. f[1 .. (k + 1)] = Put(f[1 .. k], q[k + 1])
    <3> HIDE DEF Put
    <3> QED BY <1>10, <2>1
  <2> HIDE DEF Put, D
  <2> QED BY <2>3, <2>4
<1> HIDE DEF Good
<1>13. Nat \subseteq Good
  BY <1>11, <1>12, Ascending
<1>14. f[1 .. n] \in D /\ Fair(f[1 .. n], q, n)
  BY <1>1, <1>13 DEF Good
<1>15. PlanShards(S) = f[1 .. n]
  BY <1>2, <1>3, <1>8
<1> QED BY <1>2, <1>14, <1>15 DEF n

LEMMA HealthIsGiven == Spec => [](health \in Healths)
<1>1. Init => health \in Healths
  BY DEF Init
<1>2. health \in Healths /\ [Next]_vars => (health \in Healths)'
  BY DEF Next, Tick, PlanJob, Start, Die, Loop, Stages, Defer, TurnAway, Begin, Expire,
     Exit, Throw, Refuse, Publish, Record, vars, plan
<1> QED BY <1>1, <1>2, PTL DEF Spec

\* SCHED-05: whatever is due and whatever it costs, at any instant the plan
\* partitions it, and no shard is costlier than another by more than the
\* cheapest of its own targets.
THEOREM PlansAreSound == Spec => []PlanIsSound
<1>1. ASSUME health \in Healths PROVE PlanIsSound
  <2> DEFINE due == DueTargets(now)
             shares == PlanShards(due)
  <2>1. due \in SUBSET Targets
    BY DEF DueTargets
  <2> HIDE DEF due
  <2>2. shares \in [Shards -> SUBSET due]
    BY <1>1, <2>1, PlanIsFair
  <2>3. PICK q : Ordered(q, due) /\ Fair(shares, q, Cardinality(due))
    BY <1>1, <2>1, PlanIsFair
  <2> HIDE DEF shares
  <2>4. UNION Range(shares) = due
    <3>1. {q[i] : i \in 1 .. Cardinality(due)} = due
      BY <2>3 DEF Ordered, Range
    <3> QED BY <2>3, <3>1 DEF Fair
  <2>5. ASSUME NEW j \in Shards, NEW k \in Shards, shares[j] # {}
        PROVE  Load(shares[j]) - Load(shares[k]) <= Min({EstimateCost(t) : t \in shares[j]})
    <3> DEFINE costs == {EstimateCost(t) : t \in shares[j]}
    <3>1. /\ Load(shares[j]) \in Nat /\ Load(shares[k]) \in Nat
          /\ costs \in SUBSET Nat /\ costs # {}
      <4>1. shares[j] \in SUBSET Targets /\ shares[k] \in SUBSET Targets
        BY <2>1, <2>2
      <4> QED BY <1>1, <2>5, <4>1, LoadsAreSums, CostsAreNatural
    <3>2. \A c \in costs : Load(shares[j]) <= Load(shares[k]) + c
      BY <2>3 DEF Fair
    <3>3. Min(costs) \in costs
      <4>1. \E c \in costs : \A d \in costs : c <= d
        BY <3>1, LeastElement
      <4> HIDE DEF costs
      <4> QED BY <4>1 DEF Min
    <3>4. Min(costs) \in Nat /\ Load(shares[j]) <= Load(shares[k]) + Min(costs)
      <4> HIDE DEF costs
      <4> QED BY <3>1, <3>2, <3>3
    <3> HIDE DEF costs
    <3> QED BY <3>1, <3>4 DEF costs
  <2> QED BY <2>3, <2>4, <2>5 DEF PlanIsSound, Fair, due, shares
<1> QED BY <1>1, HealthIsGiven, PTL

-----------------------------------------------------------------------------

\* The part of TypeOK that is not about outcomes.
Types ==
  /\ process \in [Shards -> {"waiting", "running", "exited", "dead"}]
  /\ exit \in [Shards -> {"none"} \cup ExitCodes]
  /\ now \in 1 .. MaxTime
  /\ health \in Healths
  /\ matrix \in {"unplanned", "empty", "due"}
  /\ mine \in [Shards -> SUBSET Targets] /\ todo \in [Shards -> SUBSET Targets]
  /\ awaited \in [Shards -> SUBSET Targets]
  /\ reading \in [Shards -> SUBSET Targets] /\ writing \in [Shards -> SUBSET Targets]
  /\ published \in [Shards -> SUBSET Targets] /\ recorded \in [Shards -> SUBSET Targets]
  /\ refused \in [Shards -> SUBSET Targets]
  /\ exhausted \in [Shards -> BOOLEAN]

LEMMA InitTypes == Init => Types
BY BudgetsAssumption DEF Init, Nobody, Types

LEMMA StartTypes ==
  ASSUME Types, NEW k \in Shards, Start(k)
  PROVE  Types'
<1>1. DueTargets(now) \in SUBSET Targets
  BY DEF DueTargets
<1>2. PlanShards(DueTargets(now)) \in [Shards -> SUBSET DueTargets(now)]
  BY <1>1, PlanIsFair DEF Types
<1>3. mine' \in [Shards -> SUBSET Targets] /\ todo' \in [Shards -> SUBSET Targets]
  BY <1>1, <1>2 DEF Types, Start
<1>. QED  BY <1>3 DEF Types, Start, plan, work

\* The loop moves targets of its own between three sets.
LEMMA LoopTypes ==
  ASSUME Types, NEW k \in Shards, Loop(k)
  PROVE  Types'
<1>1. ASSUME NEW t \in todo[k], Defer(k, t)
      PROVE  Types'
  BY <1>1 DEF Types, Defer, Take, plan, work
<1>2. ASSUME NEW t \in todo[k], NEW verdict \in Verdicts, TurnAway(k, t, verdict)
      PROVE  Types'
  BY <1>2 DEF Types, TurnAway, Take, Report, Spent, plan, work
<1>3. ASSUME NEW t \in todo[k], NEW verdict \in Verdicts, Begin(k, t, verdict)
      PROVE  Types'
  BY <1>3 DEF Types, Begin, Take, plan
<1>4. ASSUME NEW t \in awaited[k], Expire(k, t)
      PROVE  Types'
  BY <1>4 DEF Types, Expire, Report, Spent, plan, work
<1>5. ASSUME Exit(k)
      PROVE  Types'
  <2>1. ExitForRun(outcomes[k], MissingOutcomes(mine[k], outcomes[k])) \in ExitCodes
    BY DEF ExitForRun, ExitCodes
  <2>. QED  BY <1>5, <2>1 DEF Types, Exit, plan
<1>. QED  BY <1>1, <1>2, <1>3, <1>4, <1>5 DEF Loop

\* The end of stages touches a shard's own entries.
LEMMA EndsTypes ==
  ASSUME Types, NEW k \in Shards, NEW t, NEW o, Ends(k, t, o)
  PROVE  awaited' \in [Shards -> SUBSET Targets] /\ exhausted' \in [Shards -> BOOLEAN]
BY DEF Types, Ends, Report, Spent

LEMMA StagesTypes ==
  ASSUME Types, NEW k \in Shards, Stages(k)
  PROVE  Types'
<1>1. ASSUME NEW t \in reading[k] \cup writing[k], Throw(k, t)
      PROVE  Types'
  <2>1. awaited' \in [Shards -> SUBSET Targets] /\ exhausted' \in [Shards -> BOOLEAN]
    <3>1. PICK code \in Thrown : Ends(k, t, Outcome(t, "failed", code))
      BY <1>1 DEF Throw
    <3>. QED  BY <3>1, EndsTypes
  <2>. QED  BY <1>1, <2>1 DEF Types, Throw, plan
<1>2. ASSUME NEW t \in reading[k], Refuse(k, t)
      PROVE  Types'
  <2>1. awaited' \in [Shards -> SUBSET Targets] /\ exhausted' \in [Shards -> BOOLEAN]
    BY <1>2, EndsTypes DEF Refuse
  <2>. QED  BY <1>2, <2>1 DEF Types, Refuse, plan
<1>3. ASSUME NEW t \in reading[k], Publish(k, t)
      PROVE  Types'
  BY <1>3 DEF Types, Publish, plan, loop
<1>4. ASSUME NEW t \in writing[k], Record(k, t)
      PROVE  Types'
  <2>1. awaited' \in [Shards -> SUBSET Targets] /\ exhausted' \in [Shards -> BOOLEAN]
    BY <1>4, EndsTypes DEF Record
  <2>. QED  BY <1>4, <2>1 DEF Types, Record, plan
<1>. QED  BY <1>1, <1>2, <1>3, <1>4 DEF Stages

LEMMA StepTypes == Types /\ [Next]_vars => Types'
<1>. SUFFICES ASSUME Types, [Next]_vars PROVE Types'
  OBVIOUS
<1>1. CASE Tick
  BY <1>1, BudgetsAssumption DEF Types, Tick, loop, work
<1>2. CASE PlanJob
  BY <1>2 DEF Types, PlanJob, loop, work
<1>3. ASSUME NEW k \in Shards, Die(k)
      PROVE  Types'
  BY <1>3 DEF Types, Die, plan
<1>4. CASE UNCHANGED vars
  BY <1>4 DEF Types, vars, plan, loop, work
<1>. QED  BY <1>1, <1>2, <1>3, <1>4, StartTypes, LoopTypes, StagesTypes DEF Next

LEMMA AlwaysTypes == Spec => []Types
BY InitTypes, StepTypes, PTL DEF Spec

\* Every variable has its type, the plan's shares included; what a shard
\* reports, it took.
THEOREM ShardTypes == Spec => []TypeOK
<1>1. ASSUME Types, IInv
      PROVE  TypeOK
  <2>1. ASSUME NEW k \in Shards, NEW o \in outcomes[k]
        PROVE  o.target \in mine[k] /\ o.state \in States
    BY <1>1 DEF IInv, Sound, Books, Cleared, Reported
  <2>. QED  BY <1>1, <2>1 DEF Types, TypeOK
<1>. QED  BY <1>1, AlwaysTypes, AlwaysIInv, PTL

-----------------------------------------------------------------------------

\* Section 62 of the TRD says that no two shards of a run select one target.
\* Each process plans at its own instant, so the code keeps that only of
\* processes that start at one.
StartsAt(instant) == \A k \in Shards : Start(k) => now = instant

ShareOf(instant, k) == PlanShards(DueTargets(instant))[k]

\* A plan depends on the health records only.
LEMMA SamePlan ==
  ASSUME health' = health, NEW S
  PROVE  PlanShards(S)' = PlanShards(S)
BY SMT DEF PlanShards, LeastLoaded, FoldLeft, MapThenFoldSet, Load, CostliestFirst,
   EstimateCost, MapThenSumSet, Before

\* If all processes of a run start at one instant, no target is harvested by
\* two of them: nothing but the clock comes between a shard's plan and
\* another's, for the health they plan from is written by no harvest.
THEOREM DisjointAtOneInstant ==
  ASSUME NEW instant
  PROVE  Spec /\ [][StartsAt(instant)]_vars => []ShardsAreDisjoint
<1>. DEFINE Shared == /\ health \in Healths
                     /\ mine \in [Shards -> SUBSET Targets]
                     /\ \A k \in Shards : mine[k] = {} \/ mine[k] = ShareOf(instant, k)
<1>1. Init => Shared
  BY DEF Init, Nobody
<1>2. ASSUME Shared, [Next]_vars, [StartsAt(instant)]_vars, Types, Types'
      PROVE  Shared'
  <2>1. health' = health /\ mine' \in [Shards -> SUBSET Targets]
    BY <1>2 DEF Types, Next, Tick, PlanJob, Start, Die, Loop, Stages, Defer, TurnAway, Begin,
       Expire, Exit, Throw, Refuse, Publish, Record, vars, plan
  <2>2. ASSUME NEW j \in Shards
        PROVE  ShareOf(instant, j)' = ShareOf(instant, j)
    <3>1. DueTargets(instant)' = DueTargets(instant)
      BY <2>1 DEF DueTargets, Due
    <3>2. PlanShards(DueTargets(instant))' = PlanShards(DueTargets(instant))
      BY <2>1, <3>1, SamePlan
    <3>. QED  BY <3>2 DEF ShareOf
  <2>3. ASSUME NEW k \in Shards, Start(k)
        PROVE  Shared'
    <3>1. now = instant
      <4>1. process'[k] # process[k]
        BY <1>2, <2>3 DEF Types, Start
      <4>. QED  BY <1>2, <2>3, <4>1 DEF StartsAt, vars, loop
    <3>. QED  BY <1>2, <2>1, <2>2, <2>3, <3>1 DEF Start, ShareOf
  <2>4. ASSUME UNCHANGED mine
        PROVE  Shared'
    BY <1>2, <2>1, <2>2, <2>4
  <2>. HIDE DEF Shared
  <2>. QED  BY <1>2, <2>3, <2>4 DEF Next, Tick, PlanJob, Die, Loop, Stages, Defer, TurnAway,
            Begin, Expire, Exit, Throw, Refuse, Publish, Record, vars, plan, loop
<1>3. ASSUME Shared
      PROVE  ShardsAreDisjoint
  <2>1. DueTargets(instant) \in SUBSET Targets
    BY DEF DueTargets
  <2>2. \A j, k \in Shards : j # k => ShareOf(instant, j) \cap ShareOf(instant, k) = {}
    BY <1>3, <2>1, PlanIsFair DEF Fair, ShareOf
  <2>. QED  BY <1>3, <2>2 DEF ShardsAreDisjoint
<1>. HIDE DEF Shared
<1>. QED  BY <1>1, <1>2, <1>3, AlwaysTypes, PTL DEF Spec

-----------------------------------------------------------------------------

\* What a process has still to do: two steps for each target it has not come
\* to, one for the one it awaits, and its exit.
StepsLeft(k) ==
  2 * Cardinality(todo[k]) + Cardinality(awaited[k]) + (IF process[k] = "running" THEN 1 ELSE 0)

Fewer(k) == StepsLeft(k)' < StepsLeft(k)

NoMore(k) == StepsLeft(k)' <= StepsLeft(k)

Descends ==
  \A k \in Shards : /\ Loop(k) => Fewer(k)
                    /\ process[k] # "waiting" => NoMore(k)

LEMMA Counts ==
  ASSUME Types, NEW k \in Shards
  PROVE  /\ IsFiniteSet(todo[k]) /\ Cardinality(todo[k]) \in Nat
         /\ IsFiniteSet(awaited[k]) /\ Cardinality(awaited[k]) \in Nat
<1>1. todo[k] \in SUBSET Targets /\ awaited[k] \in SUBSET Targets
  BY DEF Types
<1>. QED  BY <1>1, TargetsAssumption, FS_Subset, FS_CardinalityType

LEMMA NextCounts ==
  ASSUME Types', NEW k \in Shards
  PROVE  Cardinality(todo[k])' \in Nat /\ Cardinality(awaited[k])' \in Nat
<1>1. todo'[k] \in SUBSET Targets /\ awaited'[k] \in SUBSET Targets
  BY DEF Types
<1>. QED  BY <1>1, TargetsAssumption, FS_Subset, FS_CardinalityType

\* A target that is taken leaves the list.
LEMMA TakeCounts ==
  ASSUME Types, NEW k \in Shards, NEW t, Take(k, t)
  PROVE  Cardinality(todo'[k]) = Cardinality(todo[k]) - 1
<1>1. todo'[k] = todo[k] \ {t} /\ t \in todo[k]
  BY DEF Types, Take
<1>. QED  BY <1>1, Counts, FS_RemoveElement

LEMMA LoopCounts ==
  ASSUME Types, IInv, NEW k \in Shards, Loop(k)
  PROVE  Fewer(k)
<1>0. Cardinality(todo[k]) \in Nat /\ Cardinality(awaited[k]) \in Nat
  BY Counts
<1>1. ASSUME NEW t \in todo[k], Defer(k, t)
      PROVE  Fewer(k)
  <2>1. process'[k] = process[k] /\ awaited'[k] = awaited[k]
        /\ Cardinality(todo'[k]) = Cardinality(todo[k]) - 1
    BY <1>1, TakeCounts DEF Defer
  <2>. QED  BY <1>0, <2>1 DEF Fewer, StepsLeft
<1>2. ASSUME NEW t \in todo[k], NEW verdict \in Verdicts, TurnAway(k, t, verdict)
      PROVE  Fewer(k)
  <2>1. process'[k] = process[k] /\ awaited'[k] = awaited[k]
        /\ Cardinality(todo'[k]) = Cardinality(todo[k]) - 1
    BY <1>2, TakeCounts DEF TurnAway
  <2>. QED  BY <1>0, <2>1 DEF Fewer, StepsLeft
<1>3. ASSUME NEW t \in todo[k], NEW verdict \in Verdicts, Begin(k, t, verdict)
      PROVE  Fewer(k)
  <2>1. process'[k] = process[k] /\ awaited[k] = {} /\ awaited'[k] = {t}
        /\ Cardinality(todo'[k]) = Cardinality(todo[k]) - 1
    BY <1>3, TakeCounts DEF Begin, Take, AtLoopHead, Types
  <2>2. Cardinality(awaited[k]) = 0 /\ Cardinality(awaited'[k]) = 1
    BY <2>1, FS_EmptySet, FS_Singleton
  <2>. QED  BY <1>0, <2>1, <2>2 DEF Fewer, StepsLeft
<1>4. ASSUME NEW t \in awaited[k], Expire(k, t)
      PROVE  Fewer(k)
  <2>1. process'[k] = process[k] /\ todo'[k] = todo[k] /\ awaited'[k] = {}
    BY <1>4 DEF Expire, Types
  <2>2. awaited[k] = {t}
    BY <1>4 DEF IInv, Sound, Books
  <2>3. Cardinality(awaited[k]) = 1 /\ Cardinality(awaited'[k]) = 0
    BY <2>1, <2>2, FS_EmptySet, FS_Singleton
  <2>. QED  BY <1>0, <2>1, <2>3 DEF Fewer, StepsLeft
<1>5. ASSUME Exit(k)
      PROVE  Fewer(k)
  <2>1. process[k] = "running" /\ process'[k] = "exited"
        /\ todo'[k] = todo[k] /\ awaited'[k] = awaited[k]
    BY <1>5 DEF Exit, AtLoopHead, Types
  <2>. QED  BY <1>0, <2>1 DEF Fewer, StepsLeft
<1>. QED  BY <1>1, <1>2, <1>3, <1>4, <1>5 DEF Loop

\* Stages that end, awaited or not, give a process nothing more to do; nor
\* does its death.
LEMMA OtherCounts ==
  ASSUME Types, NEW k \in Shards, Stages(k) \/ Die(k)
  PROVE  NoMore(k)
<1>1. todo'[k] = todo[k] /\ process'[k] \in {process[k], "dead"}
  BY DEF Types, Stages, Throw, Refuse, Publish, Record, Die, loop
<1>2. awaited'[k] = awaited[k] \/ awaited'[k] = {}
  BY DEF Types, Stages, Throw, Refuse, Publish, Record, Die, loop, Ends
<1>3. /\ Cardinality(todo'[k]) = Cardinality(todo[k])
      /\ Cardinality(awaited'[k]) \in Nat /\ Cardinality(awaited'[k]) <= Cardinality(awaited[k])
  BY <1>1, <1>2, Counts, FS_EmptySet
<1>. QED  BY <1>1, <1>3, Counts DEF NoMore, StepsLeft

\* TR-APP-004: a process that has started takes as many steps of its loop as
\* its share allows and no more, whatever its stages do: each step of the loop
\* leaves it less to do, and nothing ever leaves it more.
THEOREM LoopsDescend == Spec => [][Descends]_vars
<1>1. ASSUME Types, Types', IInv, Next
      PROVE  Descends
  <2>. SUFFICES ASSUME NEW k \in Shards
                PROVE  (Loop(k) => Fewer(k)) /\ (process[k] # "waiting" => NoMore(k))
    BY DEF Descends
  <2>1. Loop(k) => Fewer(k)
    BY <1>1, LoopCounts
  <2>2. StepsLeft(k) \in Int /\ StepsLeft(k)' \in Int
    BY <1>1, Counts, NextCounts DEF StepsLeft
  <2>3. ASSUME UNCHANGED <<todo[k], awaited[k], process[k]>>
        PROVE  NoMore(k)
    BY <2>2, <2>3 DEF NoMore, StepsLeft
  <2>4. CASE Tick \/ PlanJob
    BY <2>1, <2>3, <2>4 DEF Tick, PlanJob, loop
  <2>5. ASSUME NEW j \in Shards, Start(j) \/ Die(j) \/ Loop(j) \/ Stages(j),
               process[k] # "waiting"
        PROVE  NoMore(k)
    <3>1. CASE j = k
      <4>1. ~Start(k)
        BY <2>5 DEF Start
      <4>2. CASE Loop(k)
        BY <2>1, <2>2, <4>2 DEF Fewer, NoMore
      <4>. QED  BY <1>1, <2>5, <3>1, <4>1, <4>2, OtherCounts
    <3>2. CASE j # k
      <4>1. todo'[k] = todo[k] /\ awaited'[k] = awaited[k] /\ process'[k] = process[k]
        BY <1>1, <2>5, <3>2 DEF Types, Start, Die, Loop, Stages, Defer, TurnAway, Begin, Expire,
           Exit, Throw, Refuse, Publish, Record, Take, Ends, Report, loop
      <4>. QED  BY <2>3, <4>1
    <3>. QED  BY <3>1, <3>2
  <2>. QED  BY <1>1, <2>1, <2>4, <2>5 DEF Next
<1>. QED  BY <1>1, AlwaysTypes, AlwaysIInv, PTL DEF Spec
=============================================================================
