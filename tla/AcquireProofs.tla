---------------------------- MODULE AcquireProofs ----------------------------
(***************************************************************************)
(* What acquisition keeps for any targets, requests, pages, files and      *)
(* answers, however the pages change and wherever the browser fails.       *)
(*                                                                         *)
(* A step is one target's, or the browser's, and leaves the other targets  *)
(* as they are: an invariant of the targets is proved of the one that      *)
(* moved.                                                                  *)
(***************************************************************************)
EXTENDS Acquire, FiniteSetTheorems, SequenceTheorems, TLAPS

Requests == UNION {RequestsOf[t] : t \in Targets}
Pages == UNION {PagesOf[t] : t \in Targets}

\* The counts a page can show, and what a crawl holds.
Counts == {0} \cup {Nodes[p] : p \in Pages}
Crawl == [curve : [count : Counts, quiet : Nat], elapsed : Nat, silence : Nat,
          advertised : {None} \cup {Shows[p].total : p \in Pages},
          stop : {None, "cap_reached", "target_reached", "exhausted", "stalled",
                  "budget_exhausted"},
          got : Seq(BOOLEAN), turns : Nat]

Over(f) == f = [t \in Targets |-> f[t]]

AcquireTypes ==
  /\ launches \in Nat /\ open \subseteq Targets
  /\ pc \in [Targets -> Stages]
  /\ request \in [Targets -> Requests \cup {None}]
  /\ Over(report)
  /\ page \in [Targets -> Pages \cup {None}]
  /\ steady \in [Targets -> BOOLEAN]
  /\ crawl \in [Targets -> Crawl]

\* The pages of a target are shown once its page has loaded.
Shown(t) ==
  /\ pc[t] \in OnPage => page[t] \in Pages
  /\ pc[t] \notin {"idle", "done"} => request[t] \in Requests

LEMMA SettleIsNatural ==
  ASSUME NEW quiet \in 0..2
  PROVE  Settle(quiet) \in 1..(2 * BaseSettle) /\ Settle(quiet) \in Nat
<1>1. BaseSettle \in Nat \ {0}
  BY AcquireAssumption
<1>2. 2 ^ 0 = 1 /\ 2 ^ 1 = 2
  OBVIOUS
<1>3. CASE quiet = 0
  BY <1>1, <1>3 DEF Settle
<1>4. CASE quiet = 1
  BY <1>1, <1>2, <1>4 DEF Settle
<1>5. CASE quiet = 2
  BY <1>1, <1>2, <1>5 DEF Settle
<1> QED BY <1>3, <1>4, <1>5

LEMMA StopIsOne ==
  ASSUME NEW curve, NEW elapsed, NEW advertised
  PROVE  EvaluateStop(curve, elapsed, advertised)
           \in {None, "cap_reached", "target_reached", "exhausted", "stalled",
                "budget_exhausted"}
  BY DEF EvaluateStop, ClassifyNoGrowth

LEMMA AcquireStarts == ASSUME Init PROVE AcquireTypes /\ \A t \in Targets : Shown(t)
<1>1. Fresh \in Crawl
  BY DEF Fresh, Crawl, Counts, FirstCount
<1> QED BY <1>1 DEF Init, AcquireTypes, Over, Shown, Stages, OnPage, InBrowser

\* The scrolling: a wait is begun only within the budget, and only after two
\* quiet looks at most.  The paging: a page is asked for only while one is left.
Paced(t) ==
  /\ crawl[t].elapsed < PaginationBudget + 2 * BaseSettle
  /\ pc[t] = "scroll" => crawl[t].curve.quiet \in 0..2 /\ crawl[t].elapsed < PaginationBudget
  /\ crawl[t].turns <= MaxPages
  /\ pc[t] \in {"idle", "token", "fetch"} => crawl[t].turns < MaxPages

Shares(t) == t \in open => pc[t] \in InBrowser \ {"awaiting"}

\* Past the check, a page that has not changed since it loaded is no challenge.
Named(t) ==
  /\ pc[t] \in {"idle", "awaiting", "newpage", "goto", "request", "token", "fetch", "file"}
       => page[t] = None
  /\ pc[t] \in OnPage \ {"check"} /\ steady[t] => "challenge" \notin On(t).signals
  /\ pc[t] \in {"closing", "done"} /\ page[t] # None /\ steady[t]
                                  /\ "challenge" \in On(t).signals
       => report[t].code \in {"ERR-BLOCKED-CHALLENGE", "ERR-BROWSER-CRASH"}

Full == {"target_reached", "exhausted"}
Whole(t) ==
  pc[t] \in {"closing", "done"} /\ report[t].ok /\ report[t].stop \in Full
    => report[t].seen = report[t].reviews + report[t].rejected

Sound(t) == Shown(t) /\ Paced(t) /\ Shares(t) /\ Named(t) /\ Whole(t)

Launches == launches <= 1 /\ (launching = "none" => launches = 0)

AcquireInv == AcquireTypes /\ Launches /\ \A t \in Targets : Sound(t)

Same(u) ==
  /\ pc'[u] = pc[u] /\ request'[u] = request[u] /\ report'[u] = report[u]
  /\ page'[u] = page[u] /\ steady'[u] = steady[u] /\ crawl'[u] = crawl[u]
  /\ u \in open' <=> u \in open

LEMMA SameStaysSound ==
  ASSUME NEW u \in Targets, Sound(u), Same(u) PROVE Sound(u)'
<1> USE DEF Same
<1>1. Shown(u)' /\ Paced(u)' /\ Shares(u)'
  BY DEF Sound, Shown, Paced, Shares
<1>2. Named(u)'
  BY DEF Sound, Named, On
<1>3. Whole(u)'
  BY DEF Sound, Whole
<1> QED BY <1>1, <1>2, <1>3 DEF Sound

Moves(t) == Start(t) \/ Step(t) \/ PageChanges(t)

LEMMA OthersStay ==
  ASSUME AcquireTypes, NEW t \in Targets, NEW u \in Targets \ {t}, Moves(t)
  PROVE  Same(u)
<1> USE DEF AcquireTypes, Over, Same, Goto, Fail, Hand, Crashes
<1>1. CASE Start(t)
  BY <1>1 DEF Start
<1>2. CASE LaunchRefused(t) \/ NewContext(t) \/ NewPage(t) \/ Close(t)
  BY <1>2 DEF LaunchRefused, NewContext, NewPage, Close
<1>3. CASE Navigate(t) \/ CheckSignals(t)
  BY <1>3 DEF Navigate, CheckSignals
<1>4. CASE HandleConsent(t) \/ Dismissed(t) \/ WaitForSurface(t)
  BY <1>4 DEF HandleConsent, Dismissed, WaitForSurface
<1>5. CASE ReadAdvertisedTotal(t)
  BY <1>5 DEF ReadAdvertisedTotal
<1>6. CASE FirstLook(t) \/ ScrollOnce(t) \/ Look(t)
  BY <1>6 DEF FirstLook, ScrollOnce, Look, Decide
<1>7. CASE Serialize(t)
  BY <1>7 DEF Serialize
<1>8. CASE RequestPlaces(t)
  BY <1>8 DEF RequestPlaces
<1>9. CASE ExchangeToken(t)
  BY <1>9 DEF ExchangeToken
<1>10. CASE FetchPage(t)
  BY <1>10 DEF FetchPage
<1>11. CASE ReadFile(t)
  BY <1>11 DEF ReadFile
<1>12. CASE PageChanges(t)
  BY <1>12 DEF PageChanges
<1> QED BY <1>1, <1>2, <1>3, <1>4, <1>5, <1>6, <1>7, <1>8, <1>9, <1>10, <1>11, <1>12
        DEF Moves, Step
-----------------------------------------------------------------------------
(***************************************************************************)
(* The target that moves.  First the types, with what they rest on.        *)
(***************************************************************************)

\* A look fails, or is decided on with the clock and the pages as they were.
LEMMA LookDecides ==
  ASSUME AcquireTypes, NEW t \in Targets, Sound(t), FirstLook(t) \/ Look(t)
  PROVE  \/ crawl' = crawl /\ pc' = [pc EXCEPT ![t] = "closing"]
         \/ \E c \in Crawl : /\ Decide(t, c)
                            /\ c.elapsed = crawl[t].elapsed /\ c.turns = crawl[t].turns
<1> USE DEF AcquireTypes, Goto, Fail, Crashes
<1>0. page[t] \in Pages /\ Nodes[page[t]] \in Counts /\ crawl[t] \in Crawl
  <2>1. pc[t] \in OnPage
    BY DEF FirstLook, Look, OnPage, InBrowser, Stages
  <2> QED BY <2>1 DEF Sound, Shown, Counts
<1>1. CASE FirstLook(t)
  <2> DEFINE c == [crawl[t] EXCEPT !.curve = FirstCount(Nodes[page[t]])]
  <2>1. c \in Crawl /\ c.elapsed = crawl[t].elapsed /\ c.turns = crawl[t].turns
    BY <1>0 DEF Crawl, FirstCount
  <2> HIDE DEF c
  <2>2. Decide(t, c) \/ (crawl' = crawl /\ pc' = [pc EXCEPT ![t] = "closing"])
    BY <1>1 DEF FirstLook, c
  <2> QED BY <2>1, <2>2
<1>2. CASE Look(t)
  <2> DEFINE curve == Counted(crawl[t].curve, Nodes[page[t]])
             silence == IF curve.quiet = 0 THEN 0 ELSE crawl[t].silence
             c == [crawl[t] EXCEPT !.curve = curve, !.silence = silence]
  <2>1. curve \in [count : Counts, quiet : Nat]
    BY <1>0 DEF Crawl, Counted
  <2>2. silence \in Nat
    BY <1>0 DEF Crawl
  <2>3. c \in Crawl /\ c.elapsed = crawl[t].elapsed /\ c.turns = crawl[t].turns
    <3> HIDE DEF curve, silence
    <3> QED BY <1>0, <2>1, <2>2 DEF Crawl
  <2> HIDE DEF c
  <2>4. Decide(t, c) \/ (crawl' = crawl /\ pc' = [pc EXCEPT ![t] = "closing"])
    BY <1>2 DEF Look, c
  <2> QED BY <2>3, <2>4
<1> QED BY <1>1, <1>2

LEMMA TypesOfLook ==
  ASSUME AcquireTypes, NEW t \in Targets, Sound(t), FirstLook(t) \/ Look(t)
  PROVE  AcquireTypes'
<1> USE DEF AcquireTypes, Stages
<1>1. ASSUME NEW c \in Crawl, Decide(t, c)
      PROVE  crawl' \in [Targets -> Crawl] /\ pc' \in [Targets -> Stages]
  <2> DEFINE stop == EvaluateStop(c.curve, c.elapsed, c.advertised)
  <2>1. stop \in {None, "cap_reached", "target_reached", "exhausted", "stalled",
                  "budget_exhausted"}
    BY StopIsOne
  <2>2. /\ crawl' = [crawl EXCEPT ![t] = [c EXCEPT !.stop = stop]]
        /\ pc' = [pc EXCEPT ![t] = IF stop = None THEN "scroll" ELSE "serialize"]
    BY <1>1 DEF Decide, Goto
  <2> HIDE DEF stop
  <2>3. [c EXCEPT !.stop = stop] \in Crawl
    BY <2>1 DEF Crawl
  <2> QED BY <2>2, <2>3
<1>2. crawl' \in [Targets -> Crawl] /\ pc' \in [Targets -> Stages]
  BY <1>1, LookDecides
<1> QED BY <1>2 DEF FirstLook, Look, browser, Over, Fail, Crashes

LEMMA TypesOfScroll ==
  ASSUME AcquireTypes, NEW t \in Targets, Sound(t), ScrollOnce(t)
  PROVE  AcquireTypes'
<1> USE DEF AcquireTypes, Goto, Fail, Crashes, Stages
<1>1. pc[t] = "scroll" /\ crawl[t] \in Crawl /\ crawl[t].curve.quiet \in 0..2
  BY DEF ScrollOnce, Sound, Paced
<1> DEFINE wait == Settle(crawl[t].curve.quiet)
<1>2. wait \in Nat
  BY <1>1, SettleIsNatural
<1> DEFINE new == [crawl[t] EXCEPT !.elapsed = @ + wait, !.silence = @ + wait]
<1>3. crawl' = crawl \/ crawl' = [crawl EXCEPT ![t] = new]
  BY <1>1 DEF ScrollOnce
<1>4. ASSUME NEW c \in Crawl, NEW w \in Nat
      PROVE  [c EXCEPT !.elapsed = @ + w, !.silence = @ + w] \in Crawl
  <2>1. c.elapsed + w \in Nat /\ c.silence + w \in Nat
    BY DEF Crawl
  <2> QED BY <2>1 DEF Crawl
<1>5. crawl' \in [Targets -> Crawl]
  <2>1. new \in Crawl
    BY <1>1, <1>2, <1>4
  <2> HIDE DEF new
  <2> QED BY <1>3, <2>1
<1> QED BY <1>5 DEF ScrollOnce, browser, Over

LEMMA TypesOfPaging ==
  ASSUME AcquireTypes, NEW t \in Targets, FetchPage(t)
  PROVE  AcquireTypes'
<1> USE DEF AcquireTypes, Goto, Fail, Hand, Stages
<1>1. PICK b \in Bodies :
        \/ crawl' = crawl
        \/ crawl' = [crawl EXCEPT ![t].got = crawl[t].got \o b.entries,
                                  ![t].turns = crawl[t].turns + 1]
  BY DEF FetchPage
<1> DEFINE new == [crawl[t] EXCEPT !.got = crawl[t].got \o b.entries,
                                   !.turns = crawl[t].turns + 1]
<1>2. crawl[t] \in Crawl /\ b.entries \in Seq(BOOLEAN)
  BY AcquireAssumption
<1>3. crawl[t].got \o b.entries \in Seq(BOOLEAN) /\ crawl[t].turns + 1 \in Nat
  BY <1>2, ConcatProperties DEF Crawl
<1>4. crawl' = crawl \/ crawl' = [crawl EXCEPT ![t] = new]
  BY <1>1, <1>2
<1>5. new \in Crawl
  BY <1>2, <1>3 DEF Crawl
<1>6. crawl' \in [Targets -> Crawl]
  <2> HIDE DEF new
  <2> QED BY <1>4, <1>5
<1>7. pc' \in [Targets -> Stages] /\ Over(report)'
  BY DEF FetchPage, Over
<1> QED BY <1>6, <1>7 DEF FetchPage, browser, Over

LEMMA TypesOfStart ==
  ASSUME AcquireTypes, NEW t \in Targets, Start(t) PROVE AcquireTypes'
<1> USE DEF AcquireTypes, Goto, Fail, Stages, Over
<1>1. PICK r \in RequestsOf[t] :
        /\ request' = [request EXCEPT ![t] = r]
        /\ pc' \in {[pc EXCEPT ![t] = "done"], [pc EXCEPT ![t] = First(r.adapter)]}
  BY DEF Start
<1>2. First(r.adapter) \in {"awaiting", "request", "token", "file"}
  BY DEF First
<1>3. r \in Requests
  BY DEF Requests
<1>4. launches' \in Nat /\ Over(report)'
  BY DEF Start, OpenTarget
<1> QED BY <1>1, <1>2, <1>3, <1>4 DEF Start

LEMMA TypesOfNavigation ==
  ASSUME AcquireTypes, NEW t \in Targets, Sound(t),
         \/ LaunchRefused(t) \/ NewContext(t) \/ NewPage(t) \/ Close(t)
         \/ Navigate(t) \/ CheckSignals(t) \/ HandleConsent(t) \/ Dismissed(t)
         \/ WaitForSurface(t) \/ ReadAdvertisedTotal(t) \/ PageChanges(t)
  PROVE  AcquireTypes'
<1> USE DEF AcquireTypes, Goto, Fail, Crashes, Stages, Over, browser
<1>0. PagesOf[t] \subseteq Pages
  BY DEF Pages
<1>1. CASE LaunchRefused(t) \/ NewContext(t) \/ NewPage(t) \/ Close(t)
  BY <1>1 DEF LaunchRefused, NewContext, NewPage, Close
<1>2. CASE Navigate(t) \/ PageChanges(t)
  BY <1>0, <1>2 DEF Navigate, PageChanges
<1>3. CASE CheckSignals(t) \/ WaitForSurface(t)
  BY <1>3 DEF CheckSignals, WaitForSurface
<1>4. CASE HandleConsent(t) \/ Dismissed(t)
  BY <1>4 DEF HandleConsent, Dismissed
<1>5. CASE ReadAdvertisedTotal(t)
  <2> DEFINE new == [crawl[t] EXCEPT !.advertised = On(t).total]
  <2>1. crawl' = crawl \/ crawl' = [crawl EXCEPT ![t] = new]
    BY <1>5 DEF ReadAdvertisedTotal
  <2>2. page[t] \in Pages /\ crawl[t] \in Crawl
    BY <1>5 DEF ReadAdvertisedTotal, Sound, Shown, OnPage, InBrowser
  <2>3. new \in Crawl
    BY <2>2 DEF Crawl, On
  <2>4. crawl' \in [Targets -> Crawl]
    <3> HIDE DEF new
    <3> QED BY <2>1, <2>3
  <2> QED BY <1>5, <2>4 DEF ReadAdvertisedTotal
<1> QED BY <1>1, <1>2, <1>3, <1>4, <1>5

LEMMA TypesOfReports ==
  ASSUME AcquireTypes, NEW t \in Targets,
         Serialize(t) \/ RequestPlaces(t) \/ ExchangeToken(t) \/ ReadFile(t)
  PROVE  AcquireTypes'
<1> USE DEF AcquireTypes, Goto, Fail, Hand, Crashes, Stages, Over, browser
<1>1. CASE Serialize(t)
  BY <1>1 DEF Serialize
<1>2. CASE RequestPlaces(t)
  BY <1>2 DEF RequestPlaces
<1>3. CASE ExchangeToken(t)
  BY <1>3 DEF ExchangeToken
<1>4. CASE ReadFile(t)
  BY <1>4 DEF ReadFile
<1> QED BY <1>1, <1>2, <1>3, <1>4

LEMMA TypesStay ==
  ASSUME AcquireTypes, NEW t \in Targets, Sound(t), Moves(t)
  PROVE  AcquireTypes'
  BY TypesOfLook, TypesOfScroll, TypesOfPaging, TypesOfStart, TypesOfNavigation,
     TypesOfReports DEF Moves, Step

\* It is asked something before it moves, and shown something before it is read.
LEMMA ShownStays ==
  ASSUME AcquireTypes, NEW t \in Targets, Sound(t), Moves(t)
  PROVE  Shown(t)' /\ Shares(t)'
<1> USE DEF AcquireTypes, Goto, Fail, Hand, Crashes, Sound, Shown, Shares, OnPage,
            InBrowser, Stages, browser
<1>0. PagesOf[t] \subseteq Pages /\ RequestsOf[t] \subseteq Requests
  BY DEF Pages, Requests
<1>1. CASE Start(t)
  BY <1>0, <1>1 DEF Start, First
<1>2. CASE LaunchRefused(t) \/ NewContext(t) \/ NewPage(t) \/ Close(t)
  BY <1>2 DEF LaunchRefused, NewContext, NewPage, Close
<1>3. CASE Navigate(t) \/ PageChanges(t)
  BY <1>0, <1>3 DEF Navigate, PageChanges
<1>4. CASE CheckSignals(t) \/ WaitForSurface(t) \/ ReadAdvertisedTotal(t)
  BY <1>4 DEF CheckSignals, WaitForSurface, ReadAdvertisedTotal
<1>5. CASE HandleConsent(t) \/ Dismissed(t)
  BY <1>5 DEF HandleConsent, Dismissed
<1>6. CASE FirstLook(t) \/ ScrollOnce(t) \/ Look(t)
  BY <1>6 DEF FirstLook, ScrollOnce, Look, Decide
<1>7. CASE Serialize(t)
  BY <1>7 DEF Serialize
<1>8. CASE RequestPlaces(t)
  BY <1>8 DEF RequestPlaces
<1>9. CASE ExchangeToken(t) \/ FetchPage(t)
  BY <1>9 DEF ExchangeToken, FetchPage
<1>10. CASE ReadFile(t)
  BY <1>10 DEF ReadFile
<1> QED BY <1>1, <1>2, <1>3, <1>4, <1>5, <1>6, <1>7, <1>8, <1>9, <1>10 DEF Moves, Step

\* What decides is what the clock and the quiet looks say before the wait.
LEMMA DecisionPaces ==
  ASSUME NEW curve, curve.quiet \in Nat, NEW elapsed \in Nat, NEW advertised,
         EvaluateStop(curve, elapsed, advertised) = None
  PROVE  curve.quiet \in 0..2 /\ elapsed < PaginationBudget
<1>1. PaginationBudget \in Nat /\ None \notin {"cap_reached", "target_reached", "exhausted", "stalled", "budget_exhausted"}
  BY AcquireAssumption
<1> QED BY <1>1 DEF EvaluateStop, ClassifyNoGrowth, StallThreshold

LEMMA PacedStays ==
  ASSUME AcquireTypes, NEW t \in Targets, Sound(t), Moves(t)
  PROVE  Paced(t)'
<1> USE DEF AcquireTypes, Goto, Fail, Hand, Crashes, Sound, Paced, browser
<1>0. /\ crawl[t] \in Crawl /\ t \in DOMAIN crawl /\ t \in DOMAIN pc
      /\ PaginationBudget \in Nat \ {0} /\ BaseSettle \in Nat \ {0} /\ MaxPages \in Nat \ {0}
  BY AcquireAssumption
<1>1. CASE Start(t)
  BY <1>0, <1>1 DEF Start, First
<1>2. CASE LaunchRefused(t) \/ NewContext(t) \/ NewPage(t) \/ Close(t)
  BY <1>2 DEF LaunchRefused, NewContext, NewPage, Close
<1>3. CASE Navigate(t) \/ PageChanges(t)
  BY <1>3 DEF Navigate, PageChanges
<1>4. CASE CheckSignals(t) \/ WaitForSurface(t)
  BY <1>4 DEF CheckSignals, WaitForSurface
<1>5. CASE HandleConsent(t) \/ Dismissed(t)
  BY <1>5 DEF HandleConsent, Dismissed
<1>6. CASE ReadAdvertisedTotal(t)
  <2>1. /\ crawl'[t].elapsed = crawl[t].elapsed /\ crawl'[t].turns = crawl[t].turns
        /\ pc'[t] = "count"
    BY <1>0, <1>6 DEF ReadAdvertisedTotal, Crawl
  <2> QED BY <2>1
<1>7. CASE FirstLook(t) \/ Look(t)
  <2>1. ASSUME NEW c \in Crawl, Decide(t, c),
               c.elapsed = crawl[t].elapsed, c.turns = crawl[t].turns
        PROVE  Paced(t)'
    <3> DEFINE stop == EvaluateStop(c.curve, c.elapsed, c.advertised)
    <3>1. /\ crawl' = [crawl EXCEPT ![t] = [c EXCEPT !.stop = stop]]
          /\ pc' = [pc EXCEPT ![t] = IF stop = None THEN "scroll" ELSE "serialize"]
      BY <2>1 DEF Decide
    <3>2. c.curve.quiet \in Nat /\ c.elapsed \in Nat
      BY DEF Crawl
    <3>3. stop = None => c.curve.quiet \in 0..2 /\ c.elapsed < PaginationBudget
      BY <3>2, DecisionPaces
    <3> HIDE DEF stop
    <3>4. /\ crawl'[t].elapsed = crawl[t].elapsed /\ crawl'[t].turns = crawl[t].turns
          /\ crawl'[t].curve = c.curve
      BY <1>0, <2>1, <3>1 DEF Crawl
    <3> QED BY <1>0, <2>1, <3>1, <3>3, <3>4
  <2>2. CASE crawl' = crawl /\ pc' = [pc EXCEPT ![t] = "closing"]
    BY <1>0, <2>2
  <2> QED BY <1>7, <2>1, <2>2, LookDecides
<1>8. CASE ScrollOnce(t)
  <2> DEFINE wait == Settle(crawl[t].curve.quiet)
  <2>1. wait \in 1..(2 * BaseSettle) /\ crawl[t].elapsed < PaginationBudget
    BY <1>8, SettleIsNatural DEF ScrollOnce
  <2>2. /\ crawl'[t].elapsed \in {crawl[t].elapsed, crawl[t].elapsed + wait}
        /\ crawl'[t].turns = crawl[t].turns /\ pc'[t] \in {"look", "closing"}
    BY <1>0, <1>8 DEF ScrollOnce, Crawl
  <2> HIDE DEF wait
  <2>3. crawl[t].elapsed \in Nat
    BY <1>0 DEF Crawl
  <2>4. crawl'[t].elapsed < PaginationBudget + 2 * BaseSettle
    BY <1>0, <2>1, <2>2, <2>3
  <2> QED BY <2>2, <2>4
<1>9. CASE FetchPage(t)
  <2>1. pc[t] = "fetch" /\ crawl[t].turns \in Nat
    BY <1>0, <1>9 DEF FetchPage, Crawl
  <2>2. /\ crawl'[t].elapsed = crawl[t].elapsed
        /\ crawl'[t].turns \in {crawl[t].turns, crawl[t].turns + 1}
        /\ pc'[t] \in {"fetch", "done"}
        /\ pc'[t] = "fetch" => crawl'[t].turns # MaxPages
    <3>1. CASE crawl' = crawl /\ pc' = [pc EXCEPT ![t] = "done"]
      BY <1>0, <3>1 DEF Crawl
    <3>2. ASSUME NEW got,
                 crawl' = [crawl EXCEPT ![t].got = got, ![t].turns = crawl[t].turns + 1],
                 \/ pc' = [pc EXCEPT ![t] = "done"]
                 \/ /\ pc' = [pc EXCEPT ![t] = "fetch"]
                    /\ crawl[t].turns + 1 # MaxPages
          PROVE  /\ crawl'[t].elapsed = crawl[t].elapsed
                 /\ crawl'[t].turns = crawl[t].turns + 1
                 /\ pc'[t] \in {"fetch", "done"}
                 /\ pc'[t] = "fetch" => crawl'[t].turns # MaxPages
      BY <1>0, <3>2 DEF Crawl
    <3>3. \/ crawl' = crawl /\ pc' = [pc EXCEPT ![t] = "done"]
          \/ \E got :
               /\ crawl' = [crawl EXCEPT ![t].got = got, ![t].turns = crawl[t].turns + 1]
               /\ \/ pc' = [pc EXCEPT ![t] = "done"]
                  \/ /\ pc' = [pc EXCEPT ![t] = "fetch"]
                     /\ crawl[t].turns + 1 # MaxPages
      <4>1. PICK b \in Bodies :
              LET got == crawl[t].got \o b.entries
                  turns == crawl[t].turns + 1
                  cap == request[t].cap
              IN  IF b.status # "OK"
                    THEN crawl' = crawl /\ pc' = [pc EXCEPT ![t] = "done"]
                    ELSE /\ crawl' = [crawl EXCEPT ![t].got = got, ![t].turns = turns]
                         /\ \/ pc' = [pc EXCEPT ![t] = "done"]
                            \/ /\ pc' = [pc EXCEPT ![t] = "fetch"]
                               /\ ~(Len(got) >= cap)
                               /\ ~(Len(got) < cap /\ ~b.next)
                               /\ ~(Len(got) < cap /\ b.next /\ turns = MaxPages)
        BY <1>9 DEF FetchPage
      <4>2. b.entries \in Seq(BOOLEAN) /\ b.next \in BOOLEAN /\ request[t].cap \in Nat
        <5>1. request[t] \in Requests
          BY <2>1 DEF Shown
        <5> QED BY <5>1, AcquireAssumption DEF Requests
      <4>3. Len(crawl[t].got \o b.entries) \in Nat
        BY <1>0, <4>2, ConcatProperties, LenProperties DEF Crawl
      <4> DEFINE got == crawl[t].got \o b.entries
      <4>4. CASE b.status # "OK"
        BY <4>1, <4>4
      <4>5. CASE b.status = "OK"
        <5>1. crawl' = [crawl EXCEPT ![t].got = got, ![t].turns = crawl[t].turns + 1]
          BY <4>1, <4>5
        <5>2. \/ pc' = [pc EXCEPT ![t] = "done"]
              \/ pc' = [pc EXCEPT ![t] = "fetch"] /\ crawl[t].turns + 1 # MaxPages
          <6> DEFINE n == Len(got)
          <6>1. n \in Nat
            BY <4>3
          <6>2. ~(n >= request[t].cap) => n < request[t].cap
            <7> HIDE DEF n
            <7> QED BY <4>2, <6>1
          <6> QED BY <4>1, <4>2, <4>5, <6>2
        <5> HIDE DEF got
        <5> QED BY <5>1, <5>2
      <4> QED BY <4>4, <4>5
    <3> QED BY <3>1, <3>2, <3>3, <2>1
  <2> QED BY <1>0, <2>1, <2>2
<1>10. CASE Serialize(t)
  BY <1>10 DEF Serialize
<1>11. CASE RequestPlaces(t)
  BY <1>11 DEF RequestPlaces
<1>12. CASE ExchangeToken(t) \/ ReadFile(t)
  BY <1>12 DEF ExchangeToken, ReadFile
<1> QED BY <1>1, <1>2, <1>3, <1>4, <1>5, <1>6, <1>7, <1>8, <1>9, <1>10, <1>11, <1>12
        DEF Moves, Step

LEMMA ChallengeIsSeen ==
  ASSUME NEW hits, "challenge" \in hits
  PROVE  ClassifySignals(hits) = "ERR-BLOCKED-CHALLENGE"
<1> DEFINE high == {s \in hits \ {"empty_state", "consent"} : Confidence[s] = "high"}
<1>1. "challenge" \in high
  BY DEF Confidence
<1> QED BY <1>1 DEF ClassifySignals

\* The check sees a challenge; a page that passed it and is as it was is none.
LEMMA NamedStays ==
  ASSUME AcquireTypes, NEW t \in Targets, Sound(t), Moves(t)
  PROVE  Named(t)'
<1> USE DEF AcquireTypes, Goto, Fail, Hand, Crashes, Sound, Named, On, OnPage,
            InBrowser, Stages, browser
<1>1. CASE Start(t)
  BY <1>1 DEF Start, First
<1>2. CASE LaunchRefused(t) \/ NewContext(t) \/ NewPage(t) \/ Close(t)
  BY <1>2 DEF LaunchRefused, NewContext, NewPage, Close, Over
<1>3. CASE Navigate(t) \/ PageChanges(t)
  BY <1>3 DEF Navigate, PageChanges, Over
<1>4. CASE CheckSignals(t)
  <2>1. Verdict[page[t]] = ClassifySignals(Shows[page[t]].signals)
    <3>1. page[t] \in Pages
      BY <1>4 DEF CheckSignals, Shown
    <3>2. page[t] \in DOMAIN Shows
      BY <3>1, AcquireAssumption DEF Pages
    <3> QED BY <3>2 DEF Verdict
  <2>2. "challenge" \in On(t).signals => Verdict[page[t]] = "ERR-BLOCKED-CHALLENGE"
    BY <2>1, ChallengeIsSeen
  <2>3. None # "ERR-BLOCKED-CHALLENGE"
    BY AcquireAssumption
  <2> QED BY <1>4, <2>2, <2>3 DEF CheckSignals, Over
<1>5. CASE WaitForSurface(t) \/ ReadAdvertisedTotal(t)
  BY <1>5 DEF WaitForSurface, ReadAdvertisedTotal, Over
<1>6. CASE HandleConsent(t) \/ Dismissed(t)
  BY <1>6 DEF HandleConsent, Dismissed, Over
<1>7. CASE FirstLook(t) \/ ScrollOnce(t) \/ Look(t)
  BY <1>7 DEF FirstLook, ScrollOnce, Look, Decide, Over
<1>8. CASE Serialize(t)
  BY <1>8 DEF Serialize, Over
<1>9. CASE RequestPlaces(t)
  BY <1>9 DEF RequestPlaces, Over
<1>10. CASE ExchangeToken(t) \/ FetchPage(t)
  BY <1>10 DEF ExchangeToken, FetchPage, Over
<1>11. CASE ReadFile(t)
  BY <1>11 DEF ReadFile, Over
<1> QED BY <1>1, <1>2, <1>3, <1>4, <1>5, <1>6, <1>7, <1>8, <1>9, <1>10, <1>11
        DEF Moves, Step

LEMMA GoodIsNatural ==
  ASSUME NEW entries \in Seq(BOOLEAN) PROVE Good(entries) \in Nat /\ Len(entries) \in Nat
<1> DEFINE good == {i \in DOMAIN entries : entries[i]}
<1>1. Len(entries) \in Nat /\ good \subseteq 1..Len(entries)
  BY LenProperties
<1>2. IsFiniteSet(1..Len(entries))
  BY <1>1, FS_Interval
<1>3. IsFiniteSet(good)
  BY <1>1, <1>2, FS_Subset
<1> QED BY <1>1, <1>3, FS_CardinalityType DEF Good

\* Every row is good or it is rejected.
LEMMA ReportAddsUp ==
  ASSUME NEW entries \in Seq(BOOLEAN), NEW stop
  PROVE  LET r == Report(entries, Len(entries), stop) IN r.seen = r.reviews + r.rejected
  BY GoodIsNatural DEF Report

LEMMA WholeStays ==
  ASSUME AcquireTypes, NEW t \in Targets, Sound(t), Moves(t)
  PROVE  Whole(t)'
<1> USE DEF AcquireTypes, Goto, Fail, Hand, Crashes, Sound, Whole, Full, browser, Over
<1>0. t \in DOMAIN report /\ t \in DOMAIN pc
  OBVIOUS
<1>1. CASE Start(t)
  BY <1>1 DEF Start, First
<1>2. CASE LaunchRefused(t) \/ NewContext(t) \/ NewPage(t) \/ Close(t)
  BY <1>2 DEF LaunchRefused, NewContext, NewPage, Close
<1>3. CASE Navigate(t) \/ PageChanges(t)
  BY <1>3 DEF Navigate, PageChanges, OnPage, InBrowser
<1>4. CASE CheckSignals(t)
  BY <1>4 DEF CheckSignals
<1>5. CASE WaitForSurface(t) \/ ReadAdvertisedTotal(t)
  BY <1>5 DEF WaitForSurface, ReadAdvertisedTotal
<1>6. CASE HandleConsent(t) \/ Dismissed(t)
  <2>1. \/ report' = [report EXCEPT ![t] = [ok |-> FALSE, code |-> "ERR-NAV-CONSENT-WALL"]]
        \/ report' = [report EXCEPT ![t] = [ok |-> FALSE, code |-> "ERR-BROWSER-CRASH"]]
        \/ \E stage \in {"surface", "dismissed"} : pc' = [pc EXCEPT ![t] = stage]
    BY <1>6 DEF HandleConsent, Dismissed
  <2> QED BY <1>0, <2>1
<1>7. CASE FirstLook(t) \/ ScrollOnce(t) \/ Look(t)
  BY <1>7 DEF FirstLook, ScrollOnce, Look, Decide
<1>8. CASE Serialize(t)
  <2> DEFINE emptyStateSignal == crawl[t].stop = "exhausted" /\ crawl[t].curve.count = 0
             extracted == Extraction[page[t]][emptyStateSignal]
             h == HarvestOf(t, extracted)
  <2>1. h.ok /\ h.stop \in Full => h.seen = h.reviews + h.rejected
    <3> HIDE DEF extracted
    <3> QED BY DEF HarvestOf, AtMost
  <2>2. \/ report' = [report EXCEPT ![t] = h]
        \/ \E code : report' = [report EXCEPT ![t] = [ok |-> FALSE, code |-> code]]
    BY <1>8 DEF Serialize
  <2> HIDE DEF h
  <2> QED BY <1>0, <2>1, <2>2
<1>9. CASE RequestPlaces(t)
  BY <1>0, <1>9 DEF RequestPlaces, Report
<1>10. CASE ExchangeToken(t)
  BY <1>10 DEF ExchangeToken
<1>11. CASE FetchPage(t)
  <2>1. PICK b \in Bodies :
          LET got == crawl[t].got \o b.entries
          IN  \/ report' = report /\ pc' = [pc EXCEPT ![t] = "fetch"]
              \/ \E code : report' = [report EXCEPT ![t] = [ok |-> FALSE, code |-> code]]
              \/ \E rows \in {got, crawl[t].got} : \E stop :
                   report' = [report EXCEPT ![t] = Report(rows, Len(rows), stop)]
              \/ \E rows, n :
                   report' = [report EXCEPT ![t] = Report(rows, n, "cap_reached")]
    BY <1>11 DEF FetchPage
  <2>2. crawl[t].got \in Seq(BOOLEAN) /\ crawl[t].got \o b.entries \in Seq(BOOLEAN)
    BY AcquireAssumption, ConcatProperties DEF Crawl
  <2>3. CASE report' = report /\ pc' = [pc EXCEPT ![t] = "fetch"]
    BY <1>0, <2>3
  <2>4. ASSUME NEW code, report' = [report EXCEPT ![t] = [ok |-> FALSE, code |-> code]]
        PROVE  Whole(t)'
    BY <1>0, <2>4
  <2>5. ASSUME NEW rows \in Seq(BOOLEAN), NEW stop,
               report' = [report EXCEPT ![t] = Report(rows, Len(rows), stop)]
        PROVE  Whole(t)'
    BY <1>0, <2>5, ReportAddsUp
  <2>6. ASSUME NEW rows, NEW n,
               report' = [report EXCEPT ![t] = Report(rows, n, "cap_reached")]
        PROVE  Whole(t)'
    BY <1>0, <2>6 DEF Report
  <2> QED BY <2>1, <2>2, <2>3, <2>4, <2>5, <2>6
<1>12. CASE ReadFile(t)
  <2>1. PICK f \in Files :
          \/ \E code : report' = [report EXCEPT ![t] = [ok |-> FALSE, code |-> code]]
          \/ \E rows, n : report' = [report EXCEPT ![t] = Report(rows, n, "cap_reached")]
          \/ report' = [report EXCEPT ![t] =
               Report(SubSeq(f.rows, 1, Len(f.rows)), Len(f.rows), "target_reached")]
    BY <1>12 DEF ReadFile
  <2>2. f.rows \in Seq(BOOLEAN) /\ SubSeq(f.rows, 1, Len(f.rows)) = f.rows
    BY AcquireAssumption, SubSeqFull
  <2>3. ASSUME NEW code, report' = [report EXCEPT ![t] = [ok |-> FALSE, code |-> code]]
        PROVE  Whole(t)'
    BY <1>0, <2>3
  <2>4. ASSUME NEW rows, NEW n,
               report' = [report EXCEPT ![t] = Report(rows, n, "cap_reached")]
        PROVE  Whole(t)'
    BY <1>0, <2>4 DEF Report
  <2>5. CASE report' = [report EXCEPT ![t] =
               Report(f.rows, Len(f.rows), "target_reached")]
    BY <1>0, <2>2, <2>5, ReportAddsUp
  <2> QED BY <2>1, <2>2, <2>3, <2>4, <2>5
<1> QED BY <1>1, <1>2, <1>3, <1>4, <1>5, <1>6, <1>7, <1>8, <1>9, <1>10, <1>11, <1>12
        DEF Moves, Step

LEMMA LaunchesStay ==
  ASSUME AcquireTypes, Launches, [Next]_vars
  PROVE  Launches'
<1> USE DEF AcquireTypes, Launches, browser, vars
<1>1. CASE Launched \/ BrowserDies \/ UNCHANGED vars
  BY <1>1 DEF Launched, BrowserDies
<1>2. ASSUME NEW t \in Targets, Start(t) PROVE Launches'
  BY <1>2 DEF Start, OpenTarget
<1>3. ASSUME NEW t \in Targets, Step(t) \/ PageChanges(t)
      PROVE  UNCHANGED <<launching, launches>>
  BY <1>3 DEF Step, LaunchRefused, NewContext, NewPage, Navigate, CheckSignals,
        HandleConsent, Dismissed, WaitForSurface, ReadAdvertisedTotal, FirstLook,
        ScrollOnce, Look, Serialize, Close, RequestPlaces, ExchangeToken, FetchPage,
        ReadFile, PageChanges
<1> QED BY <1>1, <1>2, <1>3 DEF Next

LEMMA AcquireInvStarts == ASSUME Init PROVE AcquireInv
<1>1. AcquireTypes /\ \A t \in Targets : Shown(t)
  BY AcquireStarts
<1>2. ASSUME NEW t \in Targets PROVE Paced(t) /\ Shares(t) /\ Named(t) /\ Whole(t)
  BY AcquireAssumption DEF Init, Fresh, Paced, Shares, Named, Whole, OnPage, InBrowser,
     Stages
<1>3. Launches
  BY DEF Init, Launches
<1> QED BY <1>1, <1>2, <1>3 DEF AcquireInv, Sound

LEMMA AcquireInvStays == ASSUME AcquireInv, [Next]_vars PROVE AcquireInv'
<1>1. Launches'
  BY LaunchesStay DEF AcquireInv
<1>2. ASSUME NEW t \in Targets, Moves(t) PROVE AcquireInv'
  <2>1. AcquireTypes'
    BY <1>2, TypesStay DEF AcquireInv
  <2>2. Sound(t)'
    BY <1>2, ShownStays, PacedStays, NamedStays, WholeStays DEF AcquireInv, Sound
  <2>3. ASSUME NEW u \in Targets \ {t} PROVE Sound(u)'
    BY <1>2, OthersStay, SameStaysSound DEF AcquireInv
  <2> QED BY <1>1, <2>1, <2>2, <2>3 DEF AcquireInv
<1>3. CASE Launched \/ BrowserDies \/ UNCHANGED vars
  <2>1. UNCHANGED <<open, pc, request, report, page, steady, crawl>> /\ launches' = launches
    BY <1>3 DEF Launched, BrowserDies, vars
  <2>2. AcquireTypes'
    BY <2>1 DEF AcquireInv, AcquireTypes, Over
  <2>3. \A u \in Targets : Same(u)
    BY <2>1 DEF Same
  <2> QED BY <1>1, <2>2, <2>3, SameStaysSound DEF AcquireInv
<1> QED BY <1>2, <1>3 DEF Next, Moves

\* Acquisition keeps what its invariant says of the browser and of every target:
\* types, the pace of its crawl, its context, the name of its refusal, its report.
THEOREM AcquisitionHolds == Spec => []AcquireInv
  BY AcquireInvStarts, AcquireInvStays, PTL DEF Spec

\* One browser for however many targets, and no context of a target that is
\* through (composition.mjs lazyBrowser, BRW-03).
THEOREM OneBrowserServesAll == Spec => []BrowserIsShared
<1>1. AcquireInv => BrowserIsShared
  BY DEF AcquireInv, AcquireTypes, Launches, Sound, Shares, BrowserIsShared
<1> QED BY <1>1, AcquisitionHolds, PTL

\* A challenge that stays one is reported as one (signals.mjs:4).
THEOREM RefusalsAreNamed == Spec => []ChallengeIsNamed
<1>1. AcquireInv => ChallengeIsNamed
  BY DEF AcquireInv, Sound, Named, ChallengeIsNamed
<1> QED BY <1>1, AcquisitionHolds, PTL

\* No feed and no cursor holds a shard (navigator.mjs:1, MAX_PAGES).
THEOREM CrawlsEnd == Spec => []CrawlIsBounded
<1>1. 2 ^ (StallThreshold - 2) = 2
  <2>1. StallThreshold - 2 = 1
    BY DEF StallThreshold
  <2>2. 2 ^ 1 = 2
    OBVIOUS
  <2> QED BY <2>1, <2>2
<1>2. AcquireInv => CrawlIsBounded
  BY <1>1 DEF AcquireInv, Sound, Paced, CrawlIsBounded
<1> QED BY <1>2, AcquisitionHolds, PTL

\* A full look hides no row from the reconciler (google-dom/index.mjs:264).
THEOREM FullLooksAddUp == Spec => []FullHidesNothing
<1>1. AcquireInv => FullHidesNothing
  BY DEF AcquireInv, Sound, Whole, Full, FullHidesNothing, Answered
<1> QED BY <1>1, AcquisitionHolds, PTL
=============================================================================
