------------------------- MODULE PublicationProofs -------------------------
(***************************************************************************)
(* What Publication keeps for any number of shards and targets, for plans  *)
(* that overlap, and for any number of crashes and failing commands, where *)
(* every run starts from fresh checkouts: the state branch never claims a  *)
(* version that the data branch does not have, and the two branches are    *)
(* those of PublishOrder.                                                  *)
(*                                                                         *)
(* The argument: a file a shard is about to push is as new as the remote's *)
(* unless somebody pushed it since, and then the push is not accepted; and *)
(* by the time a shard turns to the state branch, the remote has every     *)
(* payload that its ledgers speak of.                                      *)
(***************************************************************************)
EXTENDS Publication, TLAPS

Early == {"idle", "cloning", "harvest"}
Publishing == {"commit", "push", "rejected"}

\* What a shard's checkout of a branch has that is not pushed.
Mine(s, b) == own[s][b] \cup staged[s][b]

Types ==
  /\ source \in [Targets -> Nat]
  /\ remote \in Contents
  /\ local \in [Shards -> Contents]
  /\ own \in [Shards -> Marks] /\ since \in [Shards -> Marks]
  /\ staged \in [Shards -> Marks]
  /\ pc \in [Shards -> Stages] /\ branch \in [Shards -> Branches]

RemoteInv ==
  \A t \in Targets : /\ remote["state"][t] <= remote["data"][t]
                     /\ remote["data"][t] <= source[t]

\* How far a shard has come, and what it has left to push.
ProgressInv(s) ==
  /\ pc[s] \in Early => own[s] = Nothing /\ staged[s] = Nothing
  /\ pc[s] \in Publishing /\ branch[s] = "data" =>
       /\ own[s]["state"] = {}
       /\ pc[s] = "commit" => own[s]["data"] = {}
       /\ pc[s] # "commit" => staged[s]["data"] = {}

\* What its files are worth, next to the remote's.
FileInv(s, t) ==
  /\ local[s]["data"][t] <= source[t]
  /\ t \notin Mine(s, "data") => local[s]["data"][t] <= remote["data"][t]
  /\ \A b \in Branches :
       t \in Mine(s, b) \ since[s][b] => local[s][b][t] >= remote[b][t]
  /\ pc[s] \in Publishing /\ t \in Mine(s, "state") =>
       local[s]["state"][t] <= IF branch[s] = "data" THEN local[s]["data"][t]
                                                     ELSE remote["data"][t]

ShardInv(s) == ProgressInv(s) /\ \A t \in Targets : FileInv(s, t)

PublicationInv == Types /\ RemoteInv /\ \A s \in Shards : ShardInv(s)
-----------------------------------------------------------------------------
LEMMA NothingIsMarks == Nothing \in Marks /\ \A b \in Branches : Nothing[b] = {}
  BY DEF Nothing, Marks

LEMMA UnpublishedIsFiles == Unpublished \in [Targets -> Nat] /\ \A t \in Targets : Unpublished[t] = 0
  BY DEF Unpublished

LEMMA PublicationStarts == ASSUME Init PROVE PublicationInv
<1>1. /\ remote \in Contents /\ \A b \in Branches, t \in Targets : remote[b][t] = 0
      /\ local = [s \in Shards |-> remote]
      /\ own = [s \in Shards |-> Nothing] /\ since = own /\ staged = own
      /\ source = [t \in Targets |-> 1]
      /\ pc = [s \in Shards |-> "idle"] /\ branch = [s \in Shards |-> "data"]
  BY UnpublishedIsFiles DEF Init, Contents
<1>2. Types
  BY <1>1, NothingIsMarks DEF Types, Stages, Branches
<1>3. RemoteInv
  BY <1>1 DEF RemoteInv, Branches
<1>4. ASSUME NEW s \in Shards PROVE ShardInv(s)
  <2>1. ProgressInv(s)
    BY <1>1 DEF ProgressInv, Early, Publishing
  <2>2. ASSUME NEW t \in Targets PROVE FileInv(s, t)
    BY <1>1, NothingIsMarks DEF FileInv, Publishing, Branches, Mine
  <2> QED BY <2>1, <2>2 DEF ShardInv
<1> QED BY <1>2, <1>3, <1>4 DEF PublicationInv

\* A shard that does nothing itself keeps its part of the invariant as long as
\* versions only grow and it is told of what others pushed.
LEMMA BystanderKept ==
  ASSUME PublicationInv, NEW s \in Shards,
         local'[s] = local[s], own'[s] = own[s], staged'[s] = staged[s],
         pc'[s] = pc[s], branch'[s] = branch[s],
         \A t \in Targets : source'[t] \in Nat /\ source[t] <= source'[t],
         remote' \in Contents,
         \A b \in Branches, t \in Targets :
           /\ remote[b][t] <= remote'[b][t]
           /\ remote'[b][t] = remote[b][t] \/ t \in since'[s][b] \/ pc[s] = "idle",
         \A b \in Branches : since[s][b] \subseteq since'[s][b]
  PROVE  ShardInv(s)'
<1>1. ProgressInv(s)'
  BY DEF PublicationInv, ShardInv, ProgressInv
<1>2. ASSUME NEW t \in Targets PROVE FileInv(s, t)'
  <2>1. /\ FileInv(s, t) /\ local[s] \in Contents /\ remote \in Contents
        /\ source[t] \in Nat
    BY DEF PublicationInv, ShardInv, Types
  <2>2. \A b \in Branches : /\ local[s][b][t] \in Nat /\ remote[b][t] \in Nat
                            /\ remote'[b][t] \in Nat
    BY <2>1 DEF Contents
  <2>3. \A b \in Branches : Mine(s, b)' = Mine(s, b)
    BY DEF Mine
  <2>4. pc[s] = "idle" => \A b \in Branches : Mine(s, b) = {}
    BY NothingIsMarks DEF PublicationInv, ShardInv, ProgressInv, Early, Mine
  <2>5. local'[s]["data"][t] <= source'[t]
    BY <2>1, <2>2 DEF FileInv, Branches
  <2>6. t \notin Mine(s, "data")' => local'[s]["data"][t] <= remote'["data"][t]
    BY <2>1, <2>2, <2>3 DEF FileInv, Branches
  <2>7. \A b \in Branches :
          t \in Mine(s, b)' \ since'[s][b] => local'[s][b][t] >= remote'[b][t]
    BY <2>1, <2>2, <2>3, <2>4 DEF FileInv
  <2>8. pc'[s] \in Publishing /\ t \in Mine(s, "state")' =>
          local'[s]["state"][t] <= IF branch'[s] = "data" THEN local'[s]["data"][t]
                                                          ELSE remote'["data"][t]
    BY <2>1, <2>2, <2>3 DEF FileInv, Branches
  <2> QED BY <2>5, <2>6, <2>7, <2>8 DEF FileInv
<1> QED BY <1>1, <1>2 DEF ShardInv
-----------------------------------------------------------------------------
\* Facts at a glance: what the invariant says of one file.
LEMMA FileFacts ==
  ASSUME PublicationInv, NEW s \in Shards, NEW t \in Targets
  PROVE  /\ FileInv(s, t) /\ source[t] \in Nat
         /\ \A b \in Branches : local[s][b][t] \in Nat /\ remote[b][t] \in Nat
         /\ branch[s] \in Branches
         /\ remote["state"][t] <= remote["data"][t] /\ remote["data"][t] <= source[t]
  BY DEF PublicationInv, ShardInv, RemoteInv, Types, Contents

\* A push that the remote takes.
LEMMA Landing ==
  ASSUME PublicationInv, FreshCheckout, NEW s \in Shards,
         pc[s] = "push", Accepts(s), Land(s)
  PROVE  /\ remote' \in Contents /\ since' \in [Shards -> Marks] /\ since'[s] = since[s]
         /\ \A t \in Targets :
              remote'[branch[s]][t] = IF t \in own[s][branch[s]] THEN local[s][branch[s]][t]
                                                                 ELSE remote[branch[s]][t]
         /\ \A b \in Branches \ {branch[s]} : remote'[b] = remote[b]
         /\ \A b \in Branches, t \in Targets : remote[b][t] <= remote'[b][t]
         /\ \A t \in Targets : /\ remote'["state"][t] <= remote'["data"][t]
                               /\ remote'["data"][t] <= source[t]
         /\ \A r \in Shards \ {s} :
              /\ \A b \in Branches : since[r][b] \subseteq since'[r][b]
              /\ \A b \in Branches, t \in Targets :
                   remote'[b][t] = remote[b][t] \/ t \in since'[r][b] \/ pc[r] = "idle"
<1> DEFINE b == branch[s]
           behind == {r \in Shards \ {s} : pc[r] # "idle"}
<1>1. Types /\ b \in Branches
  BY DEF PublicationInv, Types
<1>2. /\ remote' = [remote EXCEPT ![b] = Pushed(s, b)]
      /\ since' = [r \in Shards |-> IF r \in behind
                                     THEN [since[r] EXCEPT ![b] = @ \cup own[s][b]]
                                     ELSE since[r]]
  BY DEF Land
<1>3. /\ Pushed(s, b) \in [Targets -> Nat]
      /\ \A t \in Targets : Pushed(s, b)[t] = IF t \in own[s][b] THEN local[s][b][t]
                                                               ELSE remote[b][t]
  BY <1>1 DEF Pushed, Types, Contents
<1>4. /\ remote' \in Contents /\ remote'[b] = Pushed(s, b)
      /\ \A c \in Branches \ {b} : remote'[c] = remote[c]
  BY <1>1, <1>2, <1>3 DEF Types, Contents
<1>5. since' \in [Shards -> Marks] /\ since'[s] = since[s]
  BY <1>1, <1>2 DEF Types, Marks
<1>6. ASSUME NEW r \in Shards \ {s}
      PROVE  /\ \A c \in Branches : since[r][c] \subseteq since'[r][c]
             /\ pc[r] # "idle" => own[s][b] \subseteq since'[r][b]
  BY <1>1, <1>2 DEF Types, Marks
<1>7. \A t \in Targets : remote[b][t] <= remote'[b][t]
  <2> SUFFICES ASSUME NEW t \in Targets, t \in own[s][b] PROVE remote[b][t] <= local[s][b][t]
    BY <1>1, <1>3, <1>4, FileFacts
  <2> QED BY <1>1, FileFacts DEF FileInv, Mine, Accepts
<1>8. \A c \in Branches, t \in Targets : remote[c][t] <= remote'[c][t]
  BY <1>1, <1>4, <1>7, FileFacts
<1>9. ASSUME NEW t \in Targets
      PROVE  remote'["state"][t] <= remote'["data"][t] /\ remote'["data"][t] <= source[t]
  <2>1. CASE b = "data"
    <3>1. remote'["state"][t] = remote["state"][t] /\ "state" \in Branches
      BY <1>4, <2>1 DEF Branches
    <3>2. remote["data"][t] <= remote'["data"][t] /\ remote'["data"][t] \in Nat
      BY <1>1, <1>4, <1>7, <2>1 DEF Contents
    <3>3. remote'["data"][t] <= source[t]
      BY <1>3, <1>4, <2>1, FileFacts DEF FileInv
    <3>4. /\ remote["state"][t] \in Nat /\ remote["data"][t] \in Nat
          /\ remote["state"][t] <= remote["data"][t]
      BY FileFacts DEF Branches
    <3> QED BY <3>1, <3>2, <3>3, <3>4
  <2>2. CASE b = "state"
    <3>1. remote'["data"][t] = remote["data"][t]
      BY <1>4, <2>2 DEF Branches
    <3>2. t \in own[s][b] => local[s]["state"][t] <= remote["data"][t]
      BY <2>2, FileFacts DEF FileInv, Mine, Publishing
    <3>3. remote'["state"][t] = IF t \in own[s][b] THEN local[s]["state"][t]
                                                   ELSE remote["state"][t]
      BY <1>3, <1>4, <2>2
    <3>4. remote'["state"][t] <= remote["data"][t]
      BY <2>2, <3>2, <3>3, FileFacts
    <3>5. remote["data"][t] <= source[t]
      BY FileFacts
    <3> QED BY <3>1, <3>4, <3>5
  <2> QED BY <1>1, <2>1, <2>2 DEF Branches
<1>10. ASSUME NEW r \in Shards \ {s}, NEW c \in Branches, NEW t \in Targets
       PROVE  remote'[c][t] = remote[c][t] \/ t \in since'[r][c] \/ pc[r] = "idle"
  BY <1>3, <1>4, <1>6
<1> QED BY <1>3, <1>4, <1>5, <1>6, <1>8, <1>9, <1>10

\* ... and what the shard that pushed can say of its files then.
LEMMA Landed ==
  ASSUME PublicationInv, FreshCheckout, NEW s \in Shards, NEW t \in Targets,
         pc[s] = "push", Accepts(s), Land(s),
         own' = [own EXCEPT ![s][branch[s]] = {}],
         UNCHANGED <<source, local, staged>>
  PROVE  /\ local'[s]["data"][t] <= source'[t]
         /\ t \notin Mine(s, "data")' => local'[s]["data"][t] <= remote'["data"][t]
         /\ branch[s] = "data" => local'[s]["data"][t] <= remote'["data"][t]
         /\ \A b \in Branches :
              t \in Mine(s, b)' \ since'[s][b] => local'[s][b][t] >= remote'[b][t]
         /\ own' \in [Shards -> Marks]
         /\ \A b \in Branches : own'[s][b] = IF b = branch[s] THEN {} ELSE own[s][b]
         /\ \A r \in Shards \ {s} : own'[r] = own[r]
<1>1. Types /\ branch[s] \in Branches /\ FileInv(s, t)
  BY FileFacts DEF PublicationInv, Types
<1>2. /\ own' \in [Shards -> Marks]
      /\ \A b \in Branches : own'[s][b] = IF b = branch[s] THEN {} ELSE own[s][b]
      /\ \A r \in Shards \ {s} : own'[r] = own[r]
  BY <1>1 DEF Types, Marks
<1>3. local'[s]["data"][t] <= source'[t]
  BY <1>1 DEF FileInv
<1>4. \A b \in Branches :
        t \in Mine(s, b)' \ since'[s][b] => local'[s][b][t] >= remote'[b][t]
  <2> SUFFICES ASSUME NEW b \in Branches, t \in Mine(s, b)' \ since'[s][b]
               PROVE  local[s][b][t] >= remote'[b][t]
    OBVIOUS
  <2>1. t \in Mine(s, b) \ since[s][b]
    BY <1>2, Landing DEF Mine
  <2>2. local[s][b][t] >= remote[b][t] /\ local[s][b][t] \in Nat
    BY <1>1, <2>1, FileFacts DEF FileInv
  <2>3. remote'[b][t] = remote[b][t] \/ remote'[b][t] = local[s][b][t]
    BY <1>1, Landing
  <2> QED BY <2>2, <2>3
<1>5. t \notin Mine(s, "data") => local[s]["data"][t] <= remote'["data"][t]
  <2> SUFFICES ASSUME t \notin Mine(s, "data") PROVE local[s]["data"][t] <= remote'["data"][t]
    OBVIOUS
  <2>1. local[s]["data"][t] <= remote["data"][t] /\ "data" \in Branches
    BY <1>1 DEF FileInv, Branches
  <2>2. remote["data"][t] <= remote'["data"][t] /\ remote'["data"][t] \in Nat
    BY <2>1, Landing DEF Contents
  <2> QED BY <2>1, <2>2, FileFacts
<1>6. branch[s] = "data" /\ t \in own[s]["data"] => local[s]["data"][t] <= remote'["data"][t]
  BY Landing, FileFacts DEF Branches
<1>7. branch[s] = "data" => staged[s]["data"] = {}
  BY DEF PublicationInv, ShardInv, ProgressInv, Publishing
<1>8. branch[s] = "data" => local'[s]["data"][t] <= remote'["data"][t]
  BY <1>5, <1>6, <1>7 DEF Mine
<1>9. t \notin Mine(s, "data")' => local'[s]["data"][t] <= remote'["data"][t]
  BY <1>2, <1>5, <1>6 DEF Mine, Branches
<1> QED BY <1>2, <1>3, <1>4, <1>8, <1>9
-----------------------------------------------------------------------------
\* One lemma for each action.  The other shards are bystanders.

LEMMA OthersKept ==
  ASSUME PublicationInv, NEW s \in Shards,
         UNCHANGED <<source, remote>>,
         \A r \in Shards \ {s} :
           /\ local'[r] = local[r] /\ own'[r] = own[r] /\ staged'[r] = staged[r]
           /\ pc'[r] = pc[r] /\ branch'[r] = branch[r] /\ since'[r] = since[r],
         Types', ShardInv(s)'
  PROVE  PublicationInv'
<1>1. ASSUME NEW r \in Shards \ {s} PROVE ShardInv(r)'
  <2>1. /\ \A t \in Targets : source'[t] \in Nat /\ source[t] <= source'[t]
        /\ remote' \in Contents
        /\ \A b \in Branches, t \in Targets : remote[b][t] <= remote'[b][t]
    BY FileFacts DEF PublicationInv, Types
  <2>2. \A b \in Branches, t \in Targets : remote'[b][t] = remote[b][t]
    OBVIOUS
  <2> QED BY <2>1, <2>2, BystanderKept
<1>2. RemoteInv'
  BY DEF PublicationInv, RemoteInv
<1> QED BY <1>1, <1>2 DEF PublicationInv

LEMMA SourceChangesKept ==
  ASSUME PublicationInv, NEW t \in Targets, SourceChanges(t)
  PROVE  PublicationInv'
<1>1. /\ source' = [source EXCEPT ![t] = @ + 1]
      /\ UNCHANGED <<remote, local, own, since, staged, pc, branch>>
  BY DEF SourceChanges
<1>2. Types
  BY DEF PublicationInv
<1>3. Types' /\ \A u \in Targets : source[u] \in Nat /\ source'[u] \in Nat /\ source[u] <= source'[u]
  BY <1>1, <1>2 DEF Types
<1>4. ASSUME NEW s \in Shards PROVE ShardInv(s)'
  <2>1. \A b \in Branches, u \in Targets : remote[b][u] <= remote'[b][u]
    BY <1>1, FileFacts
  <2> QED BY <1>1, <1>2, <1>3, <2>1, BystanderKept DEF Types
<1>5. RemoteInv'
  <2> SUFFICES ASSUME NEW u \in Targets
               PROVE  remote["state"][u] <= remote["data"][u] /\ remote["data"][u] <= source'[u]
    BY <1>1 DEF RemoteInv
  <2>1. remote["data"][u] \in Nat /\ remote["state"][u] <= remote["data"][u]
          /\ remote["data"][u] <= source[u]
    BY <1>2 DEF PublicationInv, RemoteInv, Types, Contents, Branches
  <2> QED BY <1>3, <2>1
<1> QED BY <1>3, <1>4, <1>5 DEF PublicationInv

\* A checkout of one branch.
LEMMA CheckoutKept ==
  ASSUME PublicationInv, NEW s \in Shards, NEW b \in Branches, NEW next \in {"cloning", "harvest"},
         pc[s] \in Early, Fetched(s, b), Goto(s, next),
         UNCHANGED <<source, remote, staged, branch>>
  PROVE  PublicationInv'
<1>1. Types
  BY DEF PublicationInv
<1>2. Types'
  BY <1>1 DEF Types, Fetched, Goto, Contents, Marks, Stages
<1>3. /\ own[s] = Nothing /\ staged[s] = Nothing
      /\ own'[s] = Nothing /\ staged'[s] = Nothing /\ pc'[s] = next
  <2>1. own[s] = Nothing /\ staged[s] = Nothing
    BY DEF PublicationInv, ShardInv, ProgressInv
  <2>2. own'[s] = [Nothing EXCEPT ![b] = {}] /\ staged'[s] = staged[s] /\ pc'[s] = next
    BY <1>1, <2>1 DEF Types, Fetched, Goto
  <2> QED BY <2>1, <2>2 DEF Nothing
<1>4. /\ local'[s][b] = remote[b]
      /\ \A c \in Branches \ {b} : local'[s][c] = local[s][c]
  BY <1>1 DEF Types, Fetched, Contents
<1>5. ASSUME NEW t \in Targets PROVE FileInv(s, t)'
  <2>1. \A c \in Branches : Mine(s, c)' = {} /\ Mine(s, c) = {}
    BY <1>3, NothingIsMarks DEF Mine
  <2>2. local'[s]["data"][t] <= remote["data"][t]
    BY <1>4, <2>1, FileFacts DEF FileInv, Branches
  <2>3. local'[s]["data"][t] <= source[t]
    BY <1>4, FileFacts DEF FileInv, Branches
  <2> QED BY <2>1, <2>2, <2>3 DEF FileInv, Branches
<1>6. ShardInv(s)'
  BY <1>3, <1>5 DEF ShardInv, ProgressInv, Publishing
<1> QED BY <1>1, <1>2, <1>6, OthersKept DEF Types, Fetched, Goto

LEMMA HarvestKept ==
  ASSUME PublicationInv, NEW s \in Shards, Harvest(s)
  PROVE  PublicationInv'
<1>1. Types /\ pc[s] = "harvest"
  BY DEF PublicationInv, Harvest
<1>2. PICK done \in SUBSET Owned[s] :
        LET unchanged(t) == local[s]["data"][t] = source[t]
            written == [b \in Branches |->
                          IF b = "state" THEN done ELSE {t \in done : ~unchanged(t)}]
        IN  /\ staged' = [staged EXCEPT ![s] = written]
            /\ local' = [local EXCEPT ![s] = [b \in Branches |-> [t \in Targets |->
                           IF t \in written[b] THEN source[t] ELSE @[b][t]]]]
  BY DEF Harvest
<1> DEFINE written == [b \in Branches |->
              IF b = "state" THEN done ELSE {t \in done : ~(local[s]["data"][t] = source[t])}]
           files == [b \in Branches |-> [t \in Targets |->
              IF t \in written[b] THEN source[t] ELSE local[s][b][t]]]
<1>3. /\ staged' = [staged EXCEPT ![s] = written]
      /\ local' = [local EXCEPT ![s] = files]
  BY <1>1, <1>2 DEF Types
<1>4. done \subseteq Targets
  BY <1>2, PublicationAssumption
<1>5. written \in Marks
  BY <1>4 DEF Marks
<1>6. files \in Contents
  BY <1>1, FileFacts DEF Contents
<1>7. /\ written["state"] = done
      /\ written["data"] = {t \in done : ~(local[s]["data"][t] = source[t])}
      /\ \A b \in Branches, t \in Targets :
           files[b][t] = IF t \in written[b] THEN source[t] ELSE local[s][b][t]
  BY DEF Branches
<1> HIDE DEF written, files
<1>8. /\ UNCHANGED <<source, remote, own, since>>
      /\ branch' = [branch EXCEPT ![s] = "data"] /\ pc' = [pc EXCEPT ![s] = "commit"]
  BY DEF Harvest, Goto
<1>9. Types'
  BY <1>1, <1>3, <1>5, <1>6, <1>8 DEF Types, Stages, Branches
<1>10. /\ local'[s] = files /\ staged'[s] = written
       /\ branch'[s] = "data" /\ pc'[s] = "commit"
  BY <1>1, <1>3, <1>8 DEF Types
<1>11. \A b \in Branches : own[s][b] = {} /\ staged[s][b] = {}
  BY <1>1, NothingIsMarks DEF PublicationInv, ShardInv, ProgressInv, Early
<1>12. \A b \in Branches : Mine(s, b)' = written[b] /\ Mine(s, b) = {}
  BY <1>8, <1>10, <1>11 DEF Mine
<1>13. ASSUME NEW t \in Targets PROVE FileInv(s, t)'
  <2>1. local'[s]["data"][t] <= source'[t]
    BY <1>7, <1>8, <1>10, FileFacts DEF FileInv, Branches
  <2>2. t \notin Mine(s, "data")' => local'[s]["data"][t] <= remote'["data"][t]
    BY <1>7, <1>8, <1>10, <1>12, FileFacts DEF FileInv, Branches
  <2>3. ASSUME NEW b \in Branches
        PROVE  t \in Mine(s, b)' \ since'[s][b] => local'[s][b][t] >= remote'[b][t]
    <3>1. remote[b][t] <= source[t]
      <4>1. remote["data"][t] \in Nat /\ remote["state"][t] \in Nat /\ source[t] \in Nat
        BY FileFacts DEF Branches
      <4> QED BY <4>1, FileFacts DEF Branches
    <3>2. remote[b][t] \in Nat /\ source[t] \in Nat
      BY FileFacts
    <3> QED BY <1>7, <1>8, <1>10, <1>12, <3>1, <3>2
  <2>4. t \in Mine(s, "state")' => local'[s]["state"][t] <= local'[s]["data"][t]
    <3> SUFFICES ASSUME t \in done PROVE files["state"][t] <= files["data"][t]
      BY <1>7, <1>10, <1>12 DEF Branches
    <3>1. files["state"][t] = source[t] /\ files["data"][t] = source[t]
      BY <1>7 DEF Branches
    <3> QED BY <3>1, FileFacts
  <2> QED BY <1>10, <2>1, <2>2, <2>3, <2>4 DEF FileInv
<1>14. ShardInv(s)'
  BY <1>8, <1>10, <1>11, <1>13 DEF ShardInv, ProgressInv, Early, Publishing, Branches
<1> QED BY <1>1, <1>3, <1>8, <1>9, <1>14, OthersKept DEF Types

LEMMA CommitKept ==
  ASSUME PublicationInv, NEW s \in Shards, Commit(s)
  PROVE  PublicationInv'
<1> DEFINE b == branch[s]
<1>1. Types /\ pc[s] = "commit" /\ b \in Branches
  BY DEF PublicationInv, Commit, HasStagedChanges, Types
<1>2. /\ own' = [own EXCEPT ![s][b] = @ \cup staged[s][b]]
      /\ staged' = [staged EXCEPT ![s][b] = {}]
      /\ UNCHANGED <<source, remote, local, since>>
  BY DEF Commit, HasStagedChanges
<1>3. \/ /\ staged[s][b] = {} /\ b = "data"
         /\ branch' = [branch EXCEPT ![s] = "state"] /\ pc' = [pc EXCEPT ![s] = "commit"]
      \/ /\ staged[s][b] = {} /\ b # "data"
         /\ branch' = branch /\ pc' = [pc EXCEPT ![s] = "over"]
      \/ branch' = branch /\ pc' = [pc EXCEPT ![s] = "push"]
  BY DEF Commit, HasStagedChanges, Proceed, Goto
<1>4. Types'
  <2>1. own' \in [Shards -> Marks] /\ staged' \in [Shards -> Marks]
    BY <1>1, <1>2 DEF Types, Marks
  <2>2. pc' \in [Shards -> Stages] /\ branch' \in [Shards -> Branches]
    BY <1>1, <1>3 DEF Types, Stages, Branches
  <2> QED BY <1>1, <1>2, <2>1, <2>2 DEF Types
<1>5. \A c \in Branches :
        /\ own'[s][c] = IF c = b THEN own[s][c] \cup staged[s][c] ELSE own[s][c]
        /\ staged'[s][c] = IF c = b THEN {} ELSE staged[s][c]
  BY <1>1, <1>2 DEF Types, Marks
<1>6. \A c \in Branches : Mine(s, c)' = Mine(s, c)
  BY <1>5 DEF Mine
<1>7. ProgressInv(s)
  BY DEF PublicationInv, ShardInv
<1>8. ProgressInv(s)'
  BY <1>1, <1>3, <1>5, <1>7 DEF ProgressInv, Early, Publishing, Branches, Types
<1>9. ASSUME NEW t \in Targets PROVE FileInv(s, t)'
  <2>1. /\ local'[s]["data"][t] <= source'[t]
        /\ t \notin Mine(s, "data")' => local'[s]["data"][t] <= remote'["data"][t]
        /\ \A c \in Branches :
             t \in Mine(s, c)' \ since'[s][c] => local'[s][c][t] >= remote'[c][t]
    BY <1>2, <1>6, FileFacts DEF FileInv, Branches
  <2>2. pc'[s] \in Publishing /\ t \in Mine(s, "state")' =>
          local'[s]["state"][t] <= IF branch'[s] = "data" THEN local'[s]["data"][t]
                                                          ELSE remote'["data"][t]
    <3>1. CASE /\ staged[s][b] = {} /\ b = "data" /\ branch'[s] = "state"
      <4>1. t \notin Mine(s, "data")
        BY <1>1, <1>7, <3>1 DEF ProgressInv, Publishing, Mine
      <4>2. local[s]["data"][t] <= remote["data"][t]
        BY <4>1, FileFacts DEF FileInv
      <4>3. t \in Mine(s, "state") => local[s]["state"][t] <= local[s]["data"][t]
        BY <1>1, <3>1, FileFacts DEF FileInv, Publishing
      <4>4. /\ local[s]["data"][t] \in Nat /\ remote["data"][t] \in Nat
            /\ local[s]["state"][t] \in Nat
        BY FileFacts DEF Branches
      <4> QED BY <1>2, <1>6, <3>1, <4>2, <4>3, <4>4 DEF Branches
    <3>2. CASE pc'[s] = "over"
      BY <3>2 DEF Publishing
    <3>3. CASE branch'[s] = branch[s]
      BY <1>1, <1>2, <1>6, <3>3, FileFacts DEF FileInv, Publishing, Branches
    <3> QED BY <1>1, <1>3, <3>1, <3>2, <3>3 DEF Types
  <2> QED BY <2>1, <2>2 DEF FileInv
<1> QED BY <1>1, <1>2, <1>3, <1>4, <1>8, <1>9, OthersKept DEF Types, ShardInv

LEMMA PushKept ==
  ASSUME PublicationInv, FreshCheckout, NEW s \in Shards, Push(s)
  PROVE  PublicationInv'
<1> DEFINE b == branch[s]
<1>1. Types /\ pc[s] = "push" /\ b \in Branches /\ Accepts(s) /\ Land(s)
  BY DEF PublicationInv, Push, Types
<1>2. own' = [own EXCEPT ![s][b] = {}] /\ UNCHANGED <<source, local, staged>>
  BY DEF Push
<1>3. \/ /\ b = "data"
         /\ branch' = [branch EXCEPT ![s] = "state"] /\ pc' = [pc EXCEPT ![s] = "commit"]
      \/ /\ b # "data"
         /\ branch' = branch /\ pc' = [pc EXCEPT ![s] = "over"]
  BY DEF Push, Proceed, Goto
<1>4. own' \in [Shards -> Marks]
  BY <1>1, <1>2 DEF Types, Marks
<1>5. pc' \in [Shards -> Stages] /\ branch' \in [Shards -> Branches]
  BY <1>1, <1>3 DEF Types, Stages, Branches
<1>6. Types'
  BY <1>1, <1>2, <1>4, <1>5, Landing DEF Types
<1>7. RemoteInv'
  BY <1>1, <1>2, Landing DEF RemoteInv
<1>8. ProgressInv(s)'
  BY <1>1, <1>3 DEF ProgressInv, Early, Publishing, Branches, Types
<1>9. ASSUME NEW t \in Targets PROVE FileInv(s, t)'
  <2>1. /\ local'[s]["data"][t] <= source'[t]
        /\ t \notin Mine(s, "data")' => local'[s]["data"][t] <= remote'["data"][t]
        /\ \A c \in Branches :
             t \in Mine(s, c)' \ since'[s][c] => local'[s][c][t] >= remote'[c][t]
    BY <1>1, <1>2, Landed
  <2>2. CASE b = "data" /\ branch'[s] = "state"
    <3>1. local[s]["data"][t] <= remote'["data"][t]
      BY <1>1, <1>2, <2>2, Landed
    <3>2. t \in Mine(s, "state")' => t \in Mine(s, "state")
      BY <1>1, <1>2, <2>2, Landed DEF Mine, Branches
    <3>3. t \in Mine(s, "state") => local[s]["state"][t] <= local[s]["data"][t]
      BY <1>1, <2>2, FileFacts DEF FileInv, Publishing
    <3>4. /\ local[s]["data"][t] \in Nat /\ remote'["data"][t] \in Nat
          /\ local[s]["state"][t] \in Nat
      BY <1>1, Landing, FileFacts DEF Branches, Contents
    <3>5. t \in Mine(s, "state")' => local'[s]["state"][t] <= remote'["data"][t]
      BY <1>2, <3>1, <3>2, <3>3, <3>4
    <3> QED BY <2>1, <2>2, <3>5 DEF FileInv
  <2>3. CASE pc'[s] = "over"
    BY <2>1, <2>3 DEF FileInv, Publishing
  <2> QED BY <1>1, <1>3, <2>2, <2>3 DEF Types
<1>10. ASSUME NEW r \in Shards \ {s} PROVE ShardInv(r)'
  <2>1. /\ local'[r] = local[r] /\ own'[r] = own[r] /\ staged'[r] = staged[r]
        /\ pc'[r] = pc[r] /\ branch'[r] = branch[r]
    BY <1>1, <1>2, <1>3 DEF Types
  <2>2. \A t \in Targets : source'[t] \in Nat /\ source[t] <= source'[t]
    BY <1>1, <1>2 DEF Types
  <2> QED BY <1>1, <2>1, <2>2, BystanderKept, Landing
<1> QED BY <1>6, <1>7, <1>8, <1>9, <1>10 DEF PublicationInv, ShardInv

LEMMA PushRejectedKept ==
  ASSUME PublicationInv, FreshCheckout, NEW s \in Shards, PushRejected(s)
  PROVE  PublicationInv'
<1> DEFINE b == branch[s]
<1>1. /\ Types /\ pc[s] = "push" /\ b \in Branches
      /\ pc' = [pc EXCEPT ![s] = "rejected"] /\ UNCHANGED <<source, local, staged, branch>>
  BY DEF PublicationInv, PushRejected, Goto, Types
<1>2. pc'[s] = "rejected" /\ pc' \in [Shards -> Stages]
  BY <1>1 DEF Types, Stages
<1>3. CASE UNCHANGED <<remote, since, own>>
  <2>1. Types'
    BY <1>1, <1>2, <1>3 DEF Types
  <2>2. ProgressInv(s)'
    BY <1>1, <1>2, <1>3 DEF PublicationInv, ShardInv, ProgressInv, Early, Publishing
  <2>3. ASSUME NEW t \in Targets PROVE FileInv(s, t)'
    BY <1>1, <1>2, <1>3, FileFacts DEF FileInv, Publishing, Mine
  <2> QED BY <1>1, <1>3, <2>1, <2>2, <2>3, OthersKept DEF Types, ShardInv
<1>4. CASE Accepts(s) /\ Land(s) /\ own' = [own EXCEPT ![s][b] = {}]
  <2>1. own' \in [Shards -> Marks]
    BY <1>1, <1>4 DEF Types, Marks
  <2>2. Types'
    BY <1>1, <1>2, <1>4, <2>1, Landing DEF Types
  <2>3. RemoteInv'
    BY <1>1, <1>4, Landing DEF RemoteInv
  <2>4. \A c \in Branches : own'[s][c] = IF c = b THEN {} ELSE own[s][c]
    BY <1>1, <1>4 DEF Types, Marks
  <2>5. ProgressInv(s)'
    BY <1>1, <1>2, <2>4
       DEF PublicationInv, ShardInv, ProgressInv, Early, Publishing, Branches
  <2>6. ASSUME NEW t \in Targets PROVE FileInv(s, t)'
    <3>1. /\ local'[s]["data"][t] <= source'[t]
          /\ t \notin Mine(s, "data")' => local'[s]["data"][t] <= remote'["data"][t]
          /\ \A c \in Branches :
               t \in Mine(s, c)' \ since'[s][c] => local'[s][c][t] >= remote'[c][t]
      BY <1>1, <1>4, Landed
    <3>2. t \in Mine(s, "state")' => t \in Mine(s, "state")
      BY <1>1, <2>4 DEF Mine, Branches
    <3>3. b # "data" => remote'["data"] = remote["data"]
      BY <1>1, <1>4, Landing DEF Branches
    <3>4. pc'[s] \in Publishing /\ t \in Mine(s, "state")' =>
            local'[s]["state"][t] <= IF branch'[s] = "data" THEN local'[s]["data"][t]
                                                            ELSE remote'["data"][t]
      BY <1>1, <3>2, <3>3, FileFacts DEF FileInv, Publishing
    <3> QED BY <3>1, <3>4 DEF FileInv
  <2>7. ASSUME NEW r \in Shards \ {s} PROVE ShardInv(r)'
    <3>1. /\ local'[r] = local[r] /\ own'[r] = own[r] /\ staged'[r] = staged[r]
          /\ pc'[r] = pc[r] /\ branch'[r] = branch[r]
      BY <1>1, <1>4 DEF Types
    <3>2. \A t \in Targets : source'[t] \in Nat /\ source[t] <= source'[t]
      BY <1>1 DEF Types
    <3> QED BY <1>1, <1>4, <3>1, <3>2, BystanderKept, Landing
  <2> QED BY <2>2, <2>3, <2>5, <2>6, <2>7 DEF PublicationInv, ShardInv
<1> QED BY <1>3, <1>4 DEF PushRejected

LEMMA RebaseKept ==
  ASSUME PublicationInv, NEW s \in Shards, Rebase(s)
  PROVE  PublicationInv'
<1> DEFINE b == branch[s]
<1>1. Types /\ pc[s] = "rejected" /\ b \in Branches /\ ~Conflicts(s)
  BY DEF PublicationInv, Rebase, Types
<1>2. /\ local' = [local EXCEPT ![s][b] = Pushed(s, b)]
      /\ since' = [since EXCEPT ![s][b] = {}]
      /\ pc' = [pc EXCEPT ![s] = "push"]
      /\ UNCHANGED <<source, remote, own, staged, branch>>
  BY DEF Rebase, Goto
<1>3. /\ Pushed(s, b) \in [Targets -> Nat]
      /\ \A t \in Targets : Pushed(s, b)[t] = IF t \in own[s][b] THEN local[s][b][t]
                                                               ELSE remote[b][t]
  BY <1>1 DEF Pushed, Types, Contents
<1>4. Types'
  <2>1. local' \in [Shards -> Contents] /\ since' \in [Shards -> Marks]
    BY <1>1, <1>2, <1>3 DEF Types, Contents, Marks
  <2>2. pc' \in [Shards -> Stages]
    BY <1>1, <1>2 DEF Types, Stages
  <2> QED BY <1>1, <1>2, <2>1, <2>2 DEF Types
<1>5. \A c \in Branches, t \in Targets :
        local'[s][c][t] = IF c = b /\ t \notin own[s][c] THEN remote[c][t] ELSE local[s][c][t]
  BY <1>1, <1>2, <1>3 DEF Types, Contents
<1>6. \A c \in Branches : since'[s][c] = IF c = b THEN {} ELSE since[s][c]
  BY <1>1, <1>2 DEF Types, Marks
<1>7. pc'[s] = "push"
  BY <1>1, <1>2 DEF Types
<1>8. ProgressInv(s) /\ ProgressInv(s)'
  BY <1>1, <1>2, <1>7 DEF PublicationInv, ShardInv, ProgressInv, Early, Publishing
<1>9. \A c \in Branches : Mine(s, c)' = Mine(s, c)
  BY <1>2 DEF Mine
<1>10. ASSUME NEW t \in Targets PROVE FileInv(s, t)'
  <2>1. local'[s]["data"][t] <= source[t]
    BY <1>5, FileFacts DEF FileInv, Branches
  <2>2. t \notin Mine(s, "data") => local'[s]["data"][t] <= remote["data"][t]
    BY <1>5, FileFacts DEF FileInv, Branches
  <2>3. ASSUME NEW c \in Branches, t \in Mine(s, c) \ since'[s][c]
        PROVE  local'[s][c][t] >= remote[c][t]
    <3>1. CASE c = b /\ t \notin own[s][c]
      BY <1>5, <3>1, FileFacts
    <3>2. CASE c = b /\ t \in own[s][c]
      <4>1. t \notin since[s][c]
        BY <1>1, <3>2 DEF Conflicts
      <4> QED BY <1>5, <2>3, <3>2, <4>1, FileFacts DEF FileInv
    <3>3. CASE c # b
      BY <1>5, <1>6, <2>3, <3>3, FileFacts DEF FileInv
    <3> QED BY <3>1, <3>2, <3>3
  <2>4. t \in Mine(s, "state") =>
          local'[s]["state"][t] <= IF b = "data" THEN local'[s]["data"][t]
                                                 ELSE remote["data"][t]
    <3> SUFFICES ASSUME t \in Mine(s, "state")
                 PROVE  local'[s]["state"][t] <= IF b = "data" THEN local'[s]["data"][t]
                                                               ELSE remote["data"][t]
      OBVIOUS
    <3>1. local[s]["state"][t] <= IF b = "data" THEN local[s]["data"][t]
                                                ELSE remote["data"][t]
      BY <1>1, FileFacts DEF FileInv, Publishing
    <3>2. /\ local[s]["data"][t] \in Nat /\ remote["data"][t] \in Nat
          /\ local[s]["state"][t] \in Nat
      BY FileFacts DEF Branches
    <3>3. CASE b = "data"
      <4>1. local'[s]["state"][t] = local[s]["state"][t]
        BY <1>5, <3>3 DEF Branches
      <4>2. t \notin own[s]["data"] => local[s]["data"][t] <= remote["data"][t]
        BY <1>1, <1>8, <3>3, FileFacts DEF FileInv, ProgressInv, Publishing, Mine
      <4>3. local'[s]["data"][t] = IF t \notin own[s]["data"] THEN remote["data"][t]
                                                             ELSE local[s]["data"][t]
        BY <1>5, <3>3 DEF Branches
      <4> QED BY <3>1, <3>2, <3>3, <4>1, <4>2, <4>3
    <3>4. CASE b # "data"
      <4>1. \/ local'[s]["state"][t] = local[s]["state"][t]
            \/ local'[s]["state"][t] = remote["state"][t]
        BY <1>5 DEF Branches
      <4> QED BY <3>1, <3>2, <3>4, <4>1, FileFacts
    <3> QED BY <3>3, <3>4
  <2>5. /\ t \notin Mine(s, "data")' => local'[s]["data"][t] <= remote'["data"][t]
        /\ \A c \in Branches :
             t \in Mine(s, c)' \ since'[s][c] => local'[s][c][t] >= remote'[c][t]
    BY <1>2, <1>9, <2>2, <2>3 DEF Branches
  <2>6. t \in Mine(s, "state")' =>
          local'[s]["state"][t] <= IF branch'[s] = "data" THEN local'[s]["data"][t]
                                                          ELSE remote'["data"][t]
    BY <1>2, <1>9, <2>4 DEF Branches
  <2> QED BY <1>2, <2>1, <2>5, <2>6 DEF FileInv
<1> QED BY <1>1, <1>2, <1>4, <1>8, <1>10, OthersKept DEF Types, ShardInv

\* However a shard's run is cut short.
LEMMA OverKept ==
  ASSUME PublicationInv, NEW s \in Shards, Goto(s, "over"),
         UNCHANGED <<source, remote, local, own, since, staged, branch>>
  PROVE  PublicationInv'
<1>1. Types
  BY DEF PublicationInv
<1>2. pc' \in [Shards -> Stages] /\ pc'[s] = "over"
  BY <1>1 DEF Types, Goto, Stages
<1>3. Types'
  BY <1>1, <1>2 DEF Types
<1>4. ShardInv(s)'
  <2>1. ProgressInv(s)'
    BY <1>2 DEF ProgressInv, Early, Publishing
  <2>2. ASSUME NEW t \in Targets PROVE FileInv(s, t)'
    BY <1>2, FileFacts DEF FileInv, Publishing, Mine
  <2> QED BY <2>1, <2>2 DEF ShardInv
<1> QED BY <1>1, <1>3, <1>4, OthersKept DEF Types, Goto

LEMMA JobEndsKept ==
  ASSUME PublicationInv, FreshCheckout, NEW s \in Shards, JobEnds(s)
  PROVE  PublicationInv'
<1>1. Types
  BY DEF PublicationInv
<1> DEFINE empty == [b \in Branches |-> Unpublished]
<1>2. /\ staged' = [staged EXCEPT ![s] = Nothing]
      /\ branch' = [branch EXCEPT ![s] = "data"]
      /\ local' = [local EXCEPT ![s] = empty]
      /\ own' = [own EXCEPT ![s] = Nothing]
      /\ since' = [since EXCEPT ![s] = Nothing]
      /\ pc' = [pc EXCEPT ![s] = "idle"]
      /\ UNCHANGED <<source, remote>>
  BY DEF JobEnds, Goto
<1>3. /\ empty \in Contents
      /\ \A b \in Branches, t \in Targets : empty[b][t] = 0
  BY UnpublishedIsFiles DEF Contents
<1> HIDE DEF empty
<1>4. Types'
  BY <1>1, <1>2, <1>3, NothingIsMarks DEF Types, Stages, Branches
<1>5. /\ local'[s] = empty /\ own'[s] = Nothing /\ staged'[s] = Nothing
      /\ pc'[s] = "idle"
  BY <1>1, <1>2 DEF Types
<1>6. \A b \in Branches : Mine(s, b)' = {}
  BY <1>5, NothingIsMarks DEF Mine
<1>7. ShardInv(s)'
  <2>1. ProgressInv(s)'
    BY <1>5 DEF ProgressInv, Publishing
  <2>2. ASSUME NEW t \in Targets PROVE FileInv(s, t)'
    <3>1. local'[s]["data"][t] = 0
      BY <1>3, <1>5 DEF Branches
    <3>2. source[t] \in Nat /\ remote["data"][t] \in Nat /\ UNCHANGED <<source, remote>>
      BY <1>2, FileFacts DEF Branches
    <3>3. local'[s]["data"][t] <= source'[t] /\ local'[s]["data"][t] <= remote'["data"][t]
      BY <3>1, <3>2
    <3>4. /\ t \notin Mine(s, "state")'
          /\ \A b \in Branches : t \notin Mine(s, b)'
      BY <1>6 DEF Branches
    <3> QED BY <3>3, <3>4 DEF FileInv
  <2> QED BY <2>1, <2>2 DEF ShardInv
<1> QED BY <1>1, <1>2, <1>4, <1>7, OthersKept DEF Types

LEMMA PublicationKept ==
  ASSUME FreshCheckout
  PROVE  PublicationInv /\ [Next]_vars => PublicationInv'
<1> SUFFICES ASSUME PublicationInv, [Next]_vars PROVE PublicationInv'
  OBVIOUS
<1>1. ASSUME NEW t \in Targets, SourceChanges(t) PROVE PublicationInv'
  BY <1>1, SourceChangesKept
<1>2. ASSUME NEW s \in Shards, CheckoutData(s) PROVE PublicationInv'
  BY <1>2, CheckoutKept DEF CheckoutData, Branches, Early
<1>3. ASSUME NEW s \in Shards, CheckoutState(s) PROVE PublicationInv'
  BY <1>3, CheckoutKept DEF CheckoutState, Branches, Early
<1>4. ASSUME NEW s \in Shards, Harvest(s) \/ Commit(s) PROVE PublicationInv'
  BY <1>4, HarvestKept, CommitKept
<1>5. ASSUME NEW s \in Shards, Push(s) \/ PushRejected(s) PROVE PublicationInv'
  BY <1>5, PushKept, PushRejectedKept
<1>6. ASSUME NEW s \in Shards, GiveUp(s) \/ RebaseThrows(s) \/ Crash(s) PROVE PublicationInv'
  BY <1>6, OverKept DEF GiveUp, RebaseThrows, Crash
<1>7. ASSUME NEW s \in Shards, Rebase(s) \/ JobEnds(s) PROVE PublicationInv'
  BY <1>7, RebaseKept, JobEndsKept
<1>8. CASE UNCHANGED vars
  <2>1. PublicationInv
    OBVIOUS
  <2> QED BY <1>8, <2>1
          DEF vars, PublicationInv, Types, RemoteInv, ShardInv, ProgressInv, FileInv, Mine
<1> QED BY <1>1, <1>2, <1>3, <1>4, <1>5, <1>6, <1>7, <1>8 DEF Next, PublishStep

LEMMA PublicationHolds == ASSUME FreshCheckout PROVE Spec => []PublicationInv
  BY PublicationStarts, PublicationKept, PTL DEF Spec

\* However many shards publish, overlap, crash or give up, the state branch
\* never claims a version the data branch does not have (publishInOrder).
THEOREM StateIsNeverAhead == ASSUME FreshCheckout PROVE Spec => []RemoteStateNeverAhead
<1>1. PublicationInv => RemoteStateNeverAhead
  BY DEF PublicationInv, RemoteInv, RemoteStateNeverAhead
<1> QED BY <1>1, PublicationHolds, PTL
-----------------------------------------------------------------------------
\* Refinement.

LEMMA LandKeepsOrder ==
  ASSUME PublicationInv, FreshCheckout, NEW s \in Shards,
         pc[s] = "push", Accepts(s), Land(s)
  PROVE  Order!Next
<1>1. branch[s] \in Branches /\ Types
  BY DEF PublicationInv, Types
<1>2. CASE branch[s] = "data"
  <2>1. remote'["state"] = remote["state"] /\ "data" \in Branches
    BY <1>2, Landing DEF Branches
  <2>2. \A t \in Targets : remote["data"][t] <= remote'["data"][t]
    BY <2>1, Landing
  <2>3. \A t \in Targets : remote["data"][t] \in Nat /\ remote'["data"][t] \in Nat
    BY <2>1, Landing, FileFacts DEF Contents
  <2> QED BY <2>1, <2>2, <2>3 DEF Order!Next, Order!PublishPayload
<1>3. CASE branch[s] = "state"
  <2>1. remote'["data"] = remote["data"] /\ "state" \in Branches
    BY <1>3, Landing DEF Branches
  <2>2. \A t \in Targets : /\ remote["state"][t] <= remote'["state"][t]
                           /\ remote'["state"][t] <= remote'["data"][t]
    BY <2>1, Landing
  <2>3. \A t \in Targets : remote["state"][t] \in Nat /\ remote'["state"][t] \in Nat
    BY <2>1, Landing, FileFacts DEF Contents
  <2> QED BY <2>1, <2>2, <2>3 DEF Order!Next, Order!RecordState
<1> QED BY <1>1, <1>2, <1>3 DEF Branches

\* Seen from the remote, all shards together are PublishOrder: nothing that
\* was pushed is taken back, and the payload goes first (pushWithRebase).
THEOREM PublicationKeepsOrder == ASSUME FreshCheckout PROVE Spec => KeepsOrder
<1>1. Init => Order!Init
  BY DEF Init, Order!Init, Unpublished, Branches
<1>2. PublicationInv /\ [Next]_vars => [Order!Next]_<<remote["data"], remote["state"]>>
  <2> SUFFICES ASSUME PublicationInv, [Next]_vars, remote' # remote PROVE Order!Next
    OBVIOUS
  <2>1. PICK s \in Shards : Push(s) \/ PushRejected(s)
    BY DEF Next, PublishStep, vars, SourceChanges, CheckoutData, CheckoutState, Harvest,
           Commit, GiveUp, Rebase, RebaseThrows, JobEnds, Crash
  <2>2. pc[s] = "push" /\ Accepts(s) /\ Land(s)
    BY <2>1 DEF Push, PushRejected
  <2> QED BY <2>2, LandKeepsOrder
<1> QED BY <1>1, <1>2, PublicationHolds, PTL DEF Spec, KeepsOrder, Order!Spec
=============================================================================
