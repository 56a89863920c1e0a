----------------------------- MODULE MCPipeline -----------------------------
(***************************************************************************)
(* Pipeline on a small instance.  Two heads are a five-star and a one-star *)
(* review: a one-star review beside a five-star one moves the mean by more *)
(* than the limit.  The limit on count drops lets one review of two go,    *)
(* and not both.                                                           *)
(***************************************************************************)
EXTENDS Pipeline

CONSTANTS a1, a2, h1, h2, c1, c2

MCAuthors  == {a1, a2}
MCOneHead  == {h1}
MCHeads    == {h1, h2}
MCOneRest  == {c1}
MCRests    == {c1, c2}

MCRating   == [h \in Heads |-> IF h = h1 THEN 500 ELSE 100]
MCIds      == Authors \X Heads
MCContents == Heads \X Rests

MCThresholds == [Defaults EXCEPT !.max_count_drop = 60]

NoForce   == [enabled |-> FALSE, scheduled |-> FALSE, reasoned |-> FALSE]
Force     == [enabled |-> TRUE,  scheduled |-> FALSE, reasoned |-> TRUE]
Scheduled == [enabled |-> TRUE,  scheduled |-> TRUE,  reasoned |-> TRUE]

MCUnforced == {NoForce}
MCForces   == {Force, Scheduled}

MCGit        == {"git"}
MCFilesystem == {"filesystem"}

\* The total is right, or one behind.  With half of the total being enough, one
\* review of two is a quiet list that is finished.
MCLags      == {-1, 0}
MCTrueTotal == {0}

MCReads   == {"text"}
MCAnyRead == {"text", "error", "garbled"}

Symmetry == Permutations(MCAuthors) \cup Permutations(MCRests)
=============================================================================
