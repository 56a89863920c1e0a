--------------------------- MODULE MCPublication ---------------------------
\* Two shards.  Each has a target of its own, and t2 is in both plans, as it is
\* when a target becomes due between the starts of two shards.
EXTENDS Publication, TLC

CONSTANTS s1, s2, t1, t2
MCMaxVersion == (t1 :> 1) @@ (t2 :> 2)
MCOwned == (s1 :> {t1, t2}) @@ (s2 :> {t2})
=============================================================================
