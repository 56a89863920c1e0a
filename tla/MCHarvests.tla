----------------------------- MODULE MCHarvests -----------------------------
(***************************************************************************)
(* Harvests on a small instance.  One stop reason stands for each class    *)
(* reconcile tells apart: the harvests whose absences count (full and      *)
(* full_capped) and the ones that prove nothing (partial and failed).      *)
(***************************************************************************)
EXTENDS Harvests, TLC

CONSTANTS r1, r2, h1, h2

MCIds      == {r1, r2}
MCContents == {h1, h2}
MCReasons  == {"target_reached", "stalled"}

Symmetry == Permutations(MCIds) \cup Permutations(MCContents)
=============================================================================
