------------------------------ MODULE Acquire ------------------------------
(***************************************************************************)
(* Stage 2 of a harvest: the four acquisition adapters behind acquireVia   *)
(* (cli/composition.mjs), and the browser that the targets of a shard      *)
(* share.  Targets are acquired one after the other, or at once when one   *)
(* outlives its budget (target-runner.mjs withBudget).                     *)
(*                                                                         *)
(* A page is live: it may change between any two looks at it.              *)
(***************************************************************************)
EXTENDS Extract, Sequences

CONSTANTS
  Targets,
  RequestsOf,          \* what each target may be asked for
  PagesOf,             \* the pages its url may show
  Shows,               \* what each of these pages shows
  Files, Bodies,       \* the CSV files and API responses there may be
  MaxReviews, PaginationBudget, BaseSettle,
  MaxPages,            \* MAX_PAGES of the Business Profile adapter
  FaultCap             \* bound: browser calls that throw, and its death

ASSUME AcquireAssumption ==
  /\ MaxReviews \in Nat \ {0} /\ PaginationBudget \in Nat \ {0}
  /\ BaseSettle \in Nat \ {0} /\ MaxPages \in Nat \ {0} /\ FaultCap \in Nat
  /\ \A t \in Targets : \A p \in PagesOf[t] : p \in DOMAIN Shows /\ Shows[p] \in Page
  /\ \A t \in Targets : \A r \in RequestsOf[t] : r.cap \in Nat
  /\ \A b \in Bodies : b.next \in BOOLEAN /\ b.entries \in Seq(BOOLEAN)
  /\ \A f \in Files : f.rows \in Seq(BOOLEAN)
  /\ None \notin {"ERR-BLOCKED-CHALLENGE", "cap_reached", "target_reached",
                  "exhausted", "stalled", "budget_exhausted"}

INSTANCE Paging

VARIABLES
  launching,           \* lazyBrowser's memoised promise
  launches,            \* how many browsers were launched
  dead,                \* the browser's process is gone
  open,                \* the targets whose context is open
  pc, request, report,
  page,                \* what the target's page shows
  steady,              \* history: the page has not changed since it loaded
  crawl,               \* the scrolling loop, or the paging one
  hurt,                \* history: a fault befell this target's own work
  faults

vars == <<launching, launches, dead, open, pc, request, report, page, steady,
          crawl, hurt, faults>>
browser == <<launching, launches, dead>>
trouble == <<hurt, faults>>

Stages == {"idle", "awaiting", "newpage", "goto", "check", "consent", "dismissed",
           "surface", "total", "count", "scroll", "look", "serialize", "closing",
           "request", "token", "fetch", "file", "done"}
InBrowser == Stages \ {"idle", "request", "token", "fetch", "file", "done"}
OnPage == InBrowser \ {"awaiting", "newpage", "goto", "closing"}

Fresh == [curve |-> FirstCount(0), elapsed |-> 0, silence |-> 0,
          advertised |-> None, stop |-> None, got |-> <<>>, turns |-> 0]

Init ==
  /\ launching = "none" /\ launches = 0 /\ dead = FALSE /\ open = {}
  /\ pc = [t \in Targets |-> "idle"]
  /\ request = [t \in Targets |-> None] /\ report = request /\ page = request
  /\ steady = [t \in Targets |-> TRUE] /\ hurt = [t \in Targets |-> FALSE]
  /\ crawl = [t \in Targets |-> Fresh]
  /\ faults = 0

On(t) == Shows[page[t]]

\* What the engine makes of each page, tabulated.
Verdict == [p \in DOMAIN Shows |-> ClassifySignals(Shows[p].signals)]
Extraction == [p \in DOMAIN Shows |-> [emptyStateSignal \in BOOLEAN |->
                 ExtractReviews(Serialized(Shows[p]), emptyStateSignal)]]

\* The nodes are counted in the whole document, and not in the surface.
Nodes == [p \in DOMAIN Shows |-> RowsIn(Shows[p]) + Shows[p].cards]

Goto(t, stage) == pc' = [pc EXCEPT ![t] = stage]
Fail(t, code, stage) ==
  /\ report' = [report EXCEPT ![t] = [ok |-> FALSE, code |-> code]]
  /\ Goto(t, stage)
Hand(t, result, stage) ==
  /\ report' = [report EXCEPT ![t] = result]
  /\ Goto(t, stage)

\* A call of the browser returns, or throws: it is dead, or this call failed.
Works(t) == ~dead /\ UNCHANGED trouble
Throws(t) ==
  \/ dead /\ UNCHANGED trouble
  \/ /\ ~dead /\ faults < FaultCap /\ faults' = faults + 1
     /\ hurt' = [hurt EXCEPT ![t] = TRUE]

\* A throw that reaches withTarget, with the context still to be closed.
Crashes(t) == Throws(t) /\ Fail(t, "ERR-BROWSER-CRASH", "closing")
-----------------------------------------------------------------------------
(***************************************************************************)
(* acquireVia, and the refusals that need no call.                         *)
(***************************************************************************)
Refusal(r) ==
  LET missing(code) == IF r.identified THEN None ELSE code
      secret == IF r.secret THEN missing("ERR-RESOLVE-NO-IDENTIFIER")
                            ELSE "ERR-CONFIG-SECRET-MISSING"
  IN  CASE r.adapter = "google:dom" ->
             IF ~r.identified THEN "ERR-RESOLVE-NO-IDENTIFIER"
             ELSE IF r.pack = None THEN "ERR-PARSE-SELECTOR-PACK" ELSE None
        [] r.adapter \in {"google:places-api", "google:business-profile-api"} -> secret
        [] r.adapter = "csv:file" -> missing("ERR-CONFIG-INVALID")
        [] OTHER -> "ERR-CONFIG-INVALID"

First(adapter) ==
  CASE adapter = "google:dom" -> "awaiting"
    [] adapter = "google:places-api" -> "request"
    [] adapter = "google:business-profile-api" -> "token"
    [] OTHER -> "file"

\* The promise is memoised, whatever becomes of it.
OpenTarget(t) ==
  IF launching = "none"
    THEN launching' = "pending" /\ launches' = launches + 1
    ELSE UNCHANGED <<launching, launches>>

Start(t) ==
  /\ pc[t] = "idle"
  /\ \E r \in RequestsOf[t] :
       /\ request' = [request EXCEPT ![t] = r]
       /\ IF Refusal(r) # None
            THEN Fail(t, Refusal(r), "done") /\ UNCHANGED <<launching, launches>>
            ELSE /\ Goto(t, First(r.adapter)) /\ UNCHANGED report
                 /\ IF r.adapter = "google:dom" THEN OpenTarget(t)
                                                ELSE UNCHANGED <<launching, launches>>
  /\ UNCHANGED <<dead, open, page, steady, crawl, trouble>>
-----------------------------------------------------------------------------
(***************************************************************************)
(* The browser (lazyBrowser, playwright-chromium.mjs).                     *)
(***************************************************************************)
Waiting == {t \in Targets : pc[t] = "awaiting"}
Hurts(ts) == hurt' = [t \in Targets |-> hurt[t] \/ t \in ts]

Launched ==
  /\ launching = "pending"
  /\ \/ launching' = "up" /\ UNCHANGED trouble
     \/ /\ launching' = "failed" /\ faults < FaultCap /\ faults' = faults + 1
        /\ Hurts(Waiting)
  /\ UNCHANGED <<launches, dead, open, pc, request, report, page, steady, crawl>>

BrowserDies ==
  /\ launching = "up" /\ ~dead /\ faults < FaultCap
  /\ dead' = TRUE /\ faults' = faults + 1
  /\ Hurts({t \in Targets : pc[t] \in InBrowser})
  /\ UNCHANGED <<launching, launches, open, pc, request, report, page, steady, crawl>>

\* No target was opened, so there is nothing to close.
LaunchRefused(t) ==
  /\ pc[t] = "awaiting" /\ launching = "failed"
  /\ Fail(t, "ERR-BROWSER-CRASH", "done")
  /\ UNCHANGED <<browser, open, request, page, steady, crawl, trouble>>

NewContext(t) ==
  /\ pc[t] = "awaiting" /\ launching = "up"
  /\ \/ /\ Works(t) /\ Goto(t, "newpage")
        /\ open' = open \cup {t} /\ UNCHANGED report
     \/ Throws(t) /\ Fail(t, "ERR-BROWSER-CRASH", "done") /\ UNCHANGED open
  /\ UNCHANGED <<browser, request, page, steady, crawl>>

\* Mutant: the context of a page that could not be made is left open.
MutNewPage(t) ==
  /\ pc[t] = "newpage"
  /\ \/ Works(t) /\ Goto(t, "goto") /\ UNCHANGED report
     \/ Throws(t) /\ Fail(t, "ERR-BROWSER-CRASH", "done")
  /\ UNCHANGED <<browser, open, request, page, steady, crawl>>

NewPage(t) ==
  /\ pc[t] = "newpage"
  /\ \/ Works(t) /\ Goto(t, "goto") /\ UNCHANGED <<report, open>>
     \/ /\ Throws(t) /\ Fail(t, "ERR-BROWSER-CRASH", "done")
        /\ open' = open \ {t}
  /\ UNCHANGED <<browser, request, page, steady, crawl>>

\* Page, then context, each tolerating that the other is gone.
Close(t) ==
  /\ pc[t] = "closing" /\ Goto(t, "done")
  /\ open' = open \ {t}
  /\ UNCHANGED <<browser, request, report, page, steady, crawl, trouble>>
-----------------------------------------------------------------------------
(***************************************************************************)
(* One target's page (navigator.mjs).                                      *)
(***************************************************************************)
PageChanges(t) ==
  /\ pc[t] \in OnPage
  /\ \E p \in PagesOf[t] \ {page[t]} : page' = [page EXCEPT ![t] = p]
  /\ steady' = [steady EXCEPT ![t] = FALSE]
  /\ UNCHANGED <<browser, open, pc, request, report, crawl, trouble>>

\* A page that does not load in time and a call that throws are one failure.
Navigate(t) ==
  /\ pc[t] = "goto"
  /\ \/ /\ Works(t) /\ Goto(t, "check") /\ UNCHANGED report
        /\ \E p \in PagesOf[t] : page' = [page EXCEPT ![t] = p]
     \/ /\ Works(t) \/ Throws(t)
        /\ Fail(t, "ERR-NAV-TIMEOUT", "closing") /\ UNCHANGED page
  /\ UNCHANGED <<browser, open, request, steady, crawl>>

CheckSignals(t) ==
  LET code == Verdict[page[t]]
  IN  /\ pc[t] = "check"
      /\ \/ /\ Works(t)
            /\ IF code \notin {None, "ERR-NAV-CONSENT-WALL"}
                 THEN Fail(t, code, "closing")
                 ELSE Goto(t, "consent") /\ UNCHANGED report
         \/ Crashes(t)
      /\ UNCHANGED <<browser, open, request, page, steady, crawl>>

\* One click at the control the pack declares, if it declares one.
HandleConsent(t) ==
  LET present == "consent" \in On(t).signals
      control == request[t].pack.control
      verdict == ClassifyConsent(present, FALSE, ~present)
  IN  /\ pc[t] = "consent"
      /\ \/ /\ Works(t)
            /\ CASE verdict = "absent" -> Goto(t, "surface") /\ UNCHANGED report
                 [] verdict # "absent" /\ control -> Goto(t, "dismissed") /\ UNCHANGED report
                 [] OTHER -> Fail(t, "ERR-NAV-CONSENT-WALL", "closing")
         \/ Crashes(t)
      /\ UNCHANGED <<browser, open, request, page, steady, crawl>>

\* Whether it worked is read off the page.
Dismissed(t) ==
  LET verdict == ClassifyConsent(TRUE, TRUE, "consent" \notin On(t).signals)
  IN  /\ pc[t] = "dismissed"
      /\ \/ /\ Works(t)
            /\ IF verdict = "dismissed" THEN Goto(t, "surface") /\ UNCHANGED report
                                        ELSE Fail(t, "ERR-NAV-CONSENT-WALL", "closing")
         \/ Crashes(t)
      /\ UNCHANGED <<browser, open, request, page, steady, crawl>>

\* Every throw is taken for a strategy that did not match.  The sort control,
\* which is clicked next, fails nothing.
WaitForSurface(t) ==
  /\ pc[t] = "surface"
  /\ \/ Works(t) /\ On(t).surface /\ Goto(t, "total") /\ UNCHANGED report
     \/ /\ (Works(t) /\ ~On(t).surface) \/ Throws(t)
        /\ Fail(t, "ERR-NAV-SURFACE-NOT-FOUND", "closing")
  /\ UNCHANGED <<browser, open, request, page, steady, crawl>>

ReadAdvertisedTotal(t) ==
  /\ pc[t] = "total"
  /\ \/ Works(t) /\ crawl' = [crawl EXCEPT ![t].advertised = On(t).total]
     \/ Throws(t) /\ UNCHANGED crawl
  /\ Goto(t, "count")
  /\ UNCHANGED <<browser, open, request, report, page, steady>>

Decide(t, c) ==
  LET stop == EvaluateStop(c.curve, c.elapsed, c.advertised)
  IN  /\ crawl' = [crawl EXCEPT ![t] = [c EXCEPT !.stop = stop]]
      /\ Goto(t, IF stop = None THEN "scroll" ELSE "serialize")

FirstLook(t) ==
  /\ pc[t] = "count"
  /\ \/ /\ Works(t) /\ UNCHANGED report
        /\ Decide(t, [crawl[t] EXCEPT !.curve = FirstCount(Nodes[page[t]])])
     \/ Crashes(t) /\ UNCHANGED crawl
  /\ UNCHANGED <<browser, open, request, page, steady>>

ScrollOnce(t) ==
  LET wait == Settle(crawl[t].curve.quiet)
  IN  /\ pc[t] = "scroll"
      /\ \/ /\ Works(t) /\ Goto(t, "look") /\ UNCHANGED report
            /\ crawl' = [crawl EXCEPT ![t].elapsed = @ + wait, ![t].silence = @ + wait]
         \/ Crashes(t) /\ UNCHANGED crawl
      /\ UNCHANGED <<browser, open, request, page, steady>>

Look(t) ==
  LET curve == Counted(crawl[t].curve, Nodes[page[t]])
      silence == IF curve.quiet = 0 THEN 0 ELSE crawl[t].silence
  IN  /\ pc[t] = "look"
      /\ \/ /\ Works(t) /\ UNCHANGED report
            /\ Decide(t, [crawl[t] EXCEPT !.curve = curve, !.silence = silence])
         \/ Crashes(t) /\ UNCHANGED crawl
      /\ UNCHANGED <<browser, open, request, page, steady>>
-----------------------------------------------------------------------------
(***************************************************************************)
(* What is handed on.  `seen` counts what the adapter was shown.           *)
(***************************************************************************)
AtMost(n, cap) == IF n > cap THEN cap ELSE n

\* Mutant: the navigator's word is passed through after the cap sliced rows off.
MutHarvestOf(t, extracted) ==
  [ok |-> TRUE, code |-> None,
   reviews |-> AtMost(extracted.reviews, request[t].cap),
   rejected |-> extracted.quarantined,
   seen |-> extracted.reviews + extracted.quarantined,
   stop |-> crawl[t].stop]

HarvestOf(t, extracted) ==
  LET cap == request[t].cap
  IN  [ok |-> TRUE, code |-> None,
       reviews |-> AtMost(extracted.reviews, cap),
       rejected |-> extracted.quarantined,
       seen |-> extracted.reviews + extracted.quarantined,
       stop |-> IF extracted.reviews > cap THEN "cap_reached" ELSE crawl[t].stop]

\* The empty-state signal is passed as a Boolean, so the pack's own is never
\* asked.
Serialize(t) ==
  LET emptyStateSignal == crawl[t].stop = "exhausted" /\ crawl[t].curve.count = 0
      extracted == Extraction[page[t]][emptyStateSignal]
  IN  /\ pc[t] = "serialize"
      /\ \/ /\ Works(t)
            /\ IF extracted.code # None
                 THEN Fail(t, extracted.code, "closing")
                 ELSE Hand(t, HarvestOf(t, extracted), "closing")
         \/ Crashes(t)
      /\ UNCHANGED <<browser, open, request, page, steady, crawl>>

Good(entries) == Cardinality({i \in DOMAIN entries : entries[i]})
Report(entries, seen, stop) ==
  [ok |-> TRUE, code |-> None, reviews |-> Good(entries),
   rejected |-> Len(entries) - Good(entries), seen |-> seen, stop |-> stop]

PlacesReviewCeiling == 5

\* Places: five of however many there are, and never more than a cap's worth.
RequestPlaces(t) ==
  /\ pc[t] = "request"
  /\ \E b \in Bodies :
       LET cap == AtMost(request[t].cap, PlacesReviewCeiling)
           entries == SubSeq(b.entries, 1, AtMost(Len(b.entries), cap))
       IN  CASE b.status = "OVER_QUERY_LIMIT" -> Fail(t, "ERR-RATE-LIMITED", "done")
             [] b.status = "OK" -> Hand(t, Report(entries, Len(b.entries), "cap_reached"), "done")
             [] OTHER -> Fail(t, "ERR-SOURCE-UNAVAILABLE", "done")
  /\ UNCHANGED <<browser, open, request, page, steady, crawl, trouble>>

ExchangeToken(t) ==
  /\ pc[t] = "token"
  /\ \/ Goto(t, "fetch") /\ UNCHANGED report
     \/ Fail(t, "ERR-AUTH-FAILED", "done")
  /\ UNCHANGED <<browser, open, request, page, steady, crawl, trouble>>

\* Business Profile: page after page, until the source offers no next one.
FetchPage(t) ==
  LET cap == request[t].cap
  IN  /\ pc[t] = "fetch"
      /\ \E b \in Bodies :
           LET got == crawl[t].got \o b.entries
               turns == crawl[t].turns + 1
           IN  IF b.status # "OK"
                 THEN /\ IF crawl[t].got = <<>>
                           THEN Fail(t, "ERR-SOURCE-UNAVAILABLE", "done")
                           ELSE Hand(t, Report(crawl[t].got, Len(crawl[t].got), "stalled"), "done")
                      /\ UNCHANGED crawl
                 ELSE /\ crawl' = [crawl EXCEPT ![t].got = got, ![t].turns = turns]
                      /\ CASE Len(got) >= cap ->
                                Hand(t, Report(SubSeq(got, 1, cap), Len(got), "cap_reached"), "done")
                           [] Len(got) < cap /\ ~b.next ->
                                Hand(t, Report(got, Len(got), "target_reached"), "done")
                           [] Len(got) < cap /\ b.next /\ turns = MaxPages ->
                                Hand(t, Report(got, Len(got), "stalled"), "done")
                           [] OTHER -> Goto(t, "fetch") /\ UNCHANGED report
      /\ UNCHANGED <<browser, open, request, page, steady, trouble>>

\* CSV: rows are read until the cap is full; a file whose rows are all
\* rejected, or that has no usable header, is broken.
ReadFile(t) ==
  /\ pc[t] = "file"
  /\ \E f \in Files :
       LET full == {k \in 0 .. Len(f.rows) : Good(SubSeq(f.rows, 1, k)) >= request[t].cap}
           rows == SubSeq(f.rows, 1, IF full = {} THEN Len(f.rows) ELSE Min(full))
           stop == IF full = {} THEN "target_reached" ELSE "cap_reached"
       IN  CASE ~f.readable -> Fail(t, "ERR-SOURCE-UNAVAILABLE", "done")
             [] f.readable /\ (~f.header \/ (rows # <<>> /\ Good(rows) = 0)) ->
                  Fail(t, "ERR-PARSE-STRUCTURE", "done")
             [] OTHER -> Hand(t, Report(rows, Len(f.rows), stop), "done")
  /\ UNCHANGED <<browser, open, request, page, steady, crawl, trouble>>
-----------------------------------------------------------------------------
Step(t) ==
  LaunchRefused(t) \/ NewContext(t) \/ NewPage(t) \/ Navigate(t) \/ CheckSignals(t)
    \/ HandleConsent(t) \/ Dismissed(t) \/ WaitForSurface(t) \/ ReadAdvertisedTotal(t)
    \/ FirstLook(t) \/ ScrollOnce(t) \/ Look(t) \/ Serialize(t) \/ Close(t)
    \/ RequestPlaces(t) \/ ExchangeToken(t) \/ FetchPage(t) \/ ReadFile(t)

Finished == \A t \in Targets : pc[t] = "done"

Next ==
  \/ Launched \/ BrowserDies
  \/ \E t \in Targets : Start(t) \/ Step(t) \/ PageChanges(t)
  \/ Finished /\ UNCHANGED vars

Spec == Init /\ [][Next]_vars
-----------------------------------------------------------------------------
\* One browser is launched for a shard however many targets ask for it at
\* once, and a target that is through, whatever threw on its way, holds no
\* context (composition.mjs lazyBrowser, BRW-03).
BrowserIsShared ==
  /\ launches <= 1
  /\ \A t \in open : pc[t] \in InBrowser \ {"awaiting"}

\* A page that has been a challenge ever since it loaded is reported as one:
\* not as a missing surface, and not as broken markup (signals.mjs:4).
ChallengeIsNamed ==
  \A t \in Targets :
    pc[t] = "done" /\ page[t] # None /\ steady[t] /\ "challenge" \in On(t).signals
      => report[t].code \in {"ERR-BLOCKED-CHALLENGE", "ERR-BROWSER-CRASH"}

Answered(t) == pc[t] = "done" /\ report[t].ok

\* A report that the reconciler takes for a full look accounts for everything
\* the adapter was shown: each row is handed on, or listed as rejected.  What a
\* cap cut off is never absent from the source (google-dom/index.mjs:264).
FullHidesNothing ==
  \A t \in Targets :
    Answered(t) /\ report[t].stop \in {"target_reached", "exhausted"}
      => report[t].seen = report[t].reviews + report[t].rejected

\* A feed is given up as quiet only after it was left alone three times, each
\* longer than the last (pagination.mjs:59).
StallIsPatient ==
  \A t \in Targets :
    Answered(t) /\ request[t].adapter = "google:dom"
                /\ report[t].stop \in {"stalled", "exhausted"}
      => crawl[t].silence >= 1 + BaseSettle + 2 * BaseSettle

\* However the feed behaves, the scrolling ends within one wait of its budget,
\* and the paging with its last page: no feed that keeps changing and no cursor
\* that keeps coming holds a shard (navigator.mjs:1, MAX_PAGES).
CrawlIsBounded ==
  \A t \in Targets :
    /\ crawl[t].elapsed < PaginationBudget + 2 ^ (StallThreshold - 2) * BaseSettle
    /\ crawl[t].turns <= MaxPages

\* A listing whose page says that it has no reviews is read as having none
\* (core/extract/index.mjs:23).
EmptyListingIsRead ==
  \A t \in Targets :
    pc[t] = "done" /\ page[t] # None /\ steady[t] /\ ~hurt[t]
                   /\ On(t).surface /\ RowsIn(On(t)) = 0
                   /\ On(t).signals = {"empty_state"} /\ On(t).inFeed = {"empty_state"}
      => report[t].ok

\* A browser that dies, or that cannot be launched, costs the targets that
\* were using it and no other (google-dom/index.mjs:197, INV-09).
CrashCostsItsTarget ==
  \A t \in Targets :
    pc[t] = "done" /\ report[t].code = "ERR-BROWSER-CRASH" => hurt[t]
=============================================================================
