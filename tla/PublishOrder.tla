---------------------------- MODULE PublishOrder ----------------------------
(***************************************************************************)
(* What publication promises of the two branches, whoever pushes: neither  *)
(* loses what it has, and the state of a target never claims more than its *)
(* published payload (PUB-01, PUB-04).                                     *)
(***************************************************************************)
EXTENDS Naturals

CONSTANT Targets
VARIABLES data, state

Init == data = [t \in Targets |-> 0] /\ state = [t \in Targets |-> 0]

PublishPayload ==
  /\ \A t \in Targets : data'[t] >= data[t]
  /\ UNCHANGED state

RecordState ==
  /\ \A t \in Targets : state'[t] >= state[t] /\ state'[t] <= data[t]
  /\ UNCHANGED data

Next == PublishPayload \/ RecordState
Spec == Init /\ [][Next]_<<data, state>>
=============================================================================
