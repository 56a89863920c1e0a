------------------------------ MODULE MCShard ------------------------------
(***************************************************************************)
(* Shard on a small instance: three targets that run and one that does     *)
(* not.  Which of them cost twice as much, and which have succeeded, at    *)
(* instant 1, varies.  The second has a floor above its tier's cadence.    *)
(***************************************************************************)
EXTENDS Shard

MCTargets == 1 .. 4

MCClients ==
  << [enabled |-> TRUE,  cadence |-> 1, floor |-> 0],
     [enabled |-> TRUE,  cadence |-> 1, floor |-> 2],
     [enabled |-> TRUE,  cadence |-> 2, floor |-> 0],
     [enabled |-> FALSE, cadence |-> 1, floor |-> 0] >>

Health(last, costly) ==
  [t \in MCTargets |-> [last_success_at |-> IF t \in last THEN 1 ELSE Never,
                        cost |-> IF t \in costly THEN 2 ELSE 1]]

MCHealths ==
  {Health(last, costly) : last \in {{}, {1, 2}}, costly \in {{1}, {3}}}

MCVerdicts == {"allow", "deny", "throw"}
MCThrown   == {"ERR-TARGET-FAILED", "ERR-NAV-TIMEOUT"}
=============================================================================
