------------------------------ MODULE Extract ------------------------------
(***************************************************************************)
(* What the DOM adapter makes of a page (core/extract, consent.mjs): which *)
(* declared signals it shows, whether that is a refusal, and which rows of *)
(* the feed become reviews.                                                *)
(*                                                                         *)
(* A page is the signals its text shows, those that its feed shows, whether*)
(* the surface is there, how many rows of each kind the feed holds, how    *)
(* many nodes elsewhere look like rows, and the total it advertises.  A    *)
(* rating is in tenths.                                                    *)
(***************************************************************************)
EXTENDS Integers, FiniteSets, FiniteSetsExt

CONSTANTS
  Rows,                \* the kinds of rows
  None                 \* JavaScript's null

Signals == {"challenge", "interstitial", "notice", "consent", "empty_state"}
Confidence ==
  [challenge |-> "high", interstitial |-> "medium", notice |-> "medium",
   consent |-> "medium", empty_state |-> "high"]

Page ==
  [signals : SUBSET Signals, inFeed : SUBSET Signals, surface : BOOLEAN,
   feed : [Rows -> Nat], cards : Nat, total : Nat \cup {None}]

RowsIn(page) == MapThenSumSet(LAMBDA r : page.feed[r], Rows)
-----------------------------------------------------------------------------
\* Mutant: a high signal needs a second one, as a medium one does.
MutClassifySignals(hits) ==
  LET challenge == hits \ {"empty_state", "consent"}
  IN  IF Cardinality(challenge) >= 2 THEN "ERR-BLOCKED-CHALLENGE"
      ELSE IF "consent" \in hits THEN "ERR-NAV-CONSENT-WALL"
      ELSE IF challenge # {} THEN "ERR-NAV-SURFACE-NOT-FOUND" ELSE None

\* A refusal comes before a consent wall, and that before a broken selector.
ClassifySignals(hits) ==
  LET challenge == hits \ {"empty_state", "consent"}
      of(level) == {s \in challenge : Confidence[s] = level}
  IN  IF of("high") # {} \/ Cardinality(of("medium")) >= 2 THEN "ERR-BLOCKED-CHALLENGE"
      ELSE IF "consent" \in hits THEN "ERR-NAV-CONSENT-WALL"
      ELSE IF of("medium") # {} THEN "ERR-NAV-SURFACE-NOT-FOUND" ELSE None

ClassifyConsent(present, attempted, surfaceAfter) ==
  CASE ~present -> "absent"
    [] present /\ attempted /\ surfaceAfter -> "dismissed"
    [] OTHER -> "wall"
-----------------------------------------------------------------------------
MaxRating == 5

\* Filled stars count only in a widget of five.
CountStars(filled, total) ==
  IF filled > 0 /\ (total = 0 \/ (total = MaxRating /\ filled <= total))
    THEN 10 * filled ELSE None

ExtractRating(row) == <<row.label, CountStars(row.filled, row.total), row.numeric>>

\* The first of the three parsers that reads a number decides, even when its
\* number is no rating.
ParseRating(row) ==
  LET read == {i \in DOMAIN ExtractRating(row) : ExtractRating(row)[i] # None}
  IN  IF read = {} THEN None ELSE ExtractRating(row)[Min(read)]

IsRating(value) == value # None /\ value % 10 = 0 /\ value \in 10 .. 10 * MaxRating

Quarantined(row) == ~IsRating(ParseRating(row)) \/ ~row.named

CheckStructure(page, emptyStateSignal) ==
  CASE ~page.surface -> "ERR-PARSE-STRUCTURE"
    [] page.surface /\ RowsIn(page) = 0 /\ ~emptyStateSignal -> "ERR-PARSE-EMPTY-UNEXPECTED"
    [] OTHER -> None

\* The surface that is gone was serialised as the empty string.
Serialized(page) ==
  [page EXCEPT !.signals = IF page.surface THEN page.inFeed ELSE {}, !.cards = 0]

\* The guard is asked again, of the serialised feed.
ExtractReviews(page, emptyStateSignal) ==
  LET blocked == ClassifySignals(page.signals)
      broken == CheckStructure(page, emptyStateSignal)
      bad == MapThenSumSet(LAMBDA r : page.feed[r], {r \in Rows : Quarantined(r)})
  IN  [code |-> IF blocked # None THEN blocked ELSE broken,
       reviews |-> RowsIn(page) - bad, quarantined |-> bad]
=============================================================================
