----------------------------- MODULE MCAcquire -----------------------------
\* The first target may be harvested by any adapter and meets pages of every
\* kind; the second is beside it in the browser.  Twenty reviews are
\* advertised, so that nineteen are 95% of them.
EXTENDS Acquire, TLC

CONSTANTS t1, t2

Fine == [label |-> 50, filled |-> 0, total |-> 0, numeric |-> None, named |-> TRUE]
Half == [label |-> None, filled |-> 3, total |-> 4, numeric |-> 45, named |-> TRUE]
Anon == [label |-> None, filled |-> 4, total |-> 5, numeric |-> None, named |-> FALSE]
MCRows == {Fine, Half, Anon}

Shown(signals, inFeed, surface, fine, half, anon, cards, total) ==
  [signals |-> signals, inFeed |-> inFeed, surface |-> surface,
   feed |-> (Fine :> fine) @@ (Half :> half) @@ (Anon :> anon),
   cards |-> cards, total |-> total]
MCShows ==
  [blank     |-> Shown({}, {}, FALSE, 0, 0, 0, 0, None),
   challenge |-> Shown({"challenge"}, {}, FALSE, 0, 0, 0, 0, None),
   quoted    |-> Shown({"challenge"}, {"challenge"}, TRUE, 19, 0, 0, 0, 20),
   notices   |-> Shown({"interstitial", "notice"}, {}, FALSE, 0, 0, 0, 0, None),
   notice    |-> Shown({"notice", "empty_state"}, {}, TRUE, 0, 0, 0, 0, None),
   cookie    |-> Shown({"consent"}, {}, TRUE, 0, 0, 0, 0, None),
   empty     |-> Shown({"empty_state"}, {"empty_state"}, TRUE, 0, 0, 0, 0, None),
   nearly    |-> Shown({}, {}, TRUE, 17, 1, 1, 0, 20),
   beside    |-> Shown({}, {}, TRUE, 18, 0, 0, 2, 20),
   huge      |-> Shown({}, {}, TRUE, 20, 1, 0, 1, None)]
MCPagesOf == (t1 :> DOMAIN MCShows) @@ (t2 :> {"blank"})

NoCap == 1000
Ask(adapter, cap) ==
  [adapter |-> adapter, cap |-> cap, identified |-> TRUE, secret |-> TRUE, pack |-> [control |-> FALSE]]
Dom == Ask("google:dom", NoCap)
Apis == {"google:places-api", "google:business-profile-api"}
MCRequestsOf ==
  (t1 :> {Dom, [Dom EXCEPT !.pack = [control |-> TRUE]], [Dom EXCEPT !.cap = 18],
          [Dom EXCEPT !.pack = None], Ask("csv:file", NoCap), Ask("csv:file", 1),
          [Ask("csv:file", 1) EXCEPT !.identified = FALSE], Ask("none", 1)}
         \cup {Ask(a, c) : a \in Apis, c \in {1, 3, NoCap}}
         \cup {[Ask(a, 1) EXCEPT !.secret = FALSE] : a \in Apis})
  @@ (t2 :> {Dom})

MCFiles == [readable : BOOLEAN, header : BOOLEAN,
            rows : {<<>>, <<FALSE>>, <<FALSE, TRUE>>, <<TRUE, FALSE, TRUE>>}]
MCBodies ==
  [status : {"OK", "OVER_QUERY_LIMIT", "failed"}, next : BOOLEAN,
   entries : {<<>>, <<TRUE>>, <<FALSE, TRUE>>, <<TRUE, TRUE, TRUE, TRUE, TRUE, TRUE>>}]
=============================================================================
