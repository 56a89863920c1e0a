---------------------------- MODULE Publication ----------------------------
(***************************************************************************)
(* Publishing to the `data` and `state` branches (infra/git.mjs,           *)
(* adapters/publisher/git-data.mjs): shards with checkouts of both         *)
(* branches, hash-gated staging, one commit per shard and branch, the push *)
(* that fetches and rebases when it is rejected, and publishInOrder, which *)
(* touches the state only when the payload has landed.                     *)
(*                                                                         *)
(* A branch is the version it holds of every target's files.  What a push  *)
(* asks of the remote's history is only whether it moved since the         *)
(* checkout last saw it, so a checkout keeps the targets that others       *)
(* changed since then.                                                     *)
(***************************************************************************)
EXTENDS Naturals, FiniteSets

CONSTANTS
  Shards, Targets,
  Owned,               \* the targets each shard's plan gave it
  FreshCheckout,       \* every run starts from checkouts made for it
  MaxVersion,          \* bound: versions of each listing at the source
  FaultCap             \* bound: crashes and failing commands

ASSUME PublicationAssumption ==
  /\ Owned \in [Shards -> SUBSET Targets]
  /\ FreshCheckout \in BOOLEAN
  /\ MaxVersion \in [Targets -> Nat \ {0}] /\ FaultCap \in Nat

VARIABLES
  source,              \* the listing as the source shows it
  remote,              \* the two branches
  local,               \* the files of each shard's checkouts
  own,                 \* targets of local commits that are not on the remote
  since,               \* targets others pushed since the last fetch
  staged,              \* the publisher's set of staged paths, by target
  pc, branch, attempt, \* where publishInOrder is, and its push
  faults

vars == <<source, remote, local, own, since, staged, pc, branch, attempt, faults>>

Branches == {"data", "state"}
Stages == {"idle", "cloning", "harvest", "commit", "push", "rejected", "over"}
MaxPushAttempts == 3

Contents == [Branches -> [Targets -> Nat]]
Marks == [Branches -> SUBSET Targets]
Nothing == [b \in Branches |-> {}]
Unpublished == [t \in Targets |-> 0]
-----------------------------------------------------------------------------
Init ==
  /\ source = [t \in Targets |-> 1]
  /\ remote = [b \in Branches |-> Unpublished]
  /\ local = [s \in Shards |-> remote]
  /\ own = [s \in Shards |-> Nothing] /\ since = own /\ staged = own
  /\ pc = [s \in Shards |-> "idle"] /\ branch = [s \in Shards |-> "data"]
  /\ attempt = [s \in Shards |-> 0]
  /\ faults = 0

Goto(s, stage) == pc' = [pc EXCEPT ![s] = stage]

SourceChanges(t) ==
  /\ source[t] < MaxVersion[t]
  /\ source' = [source EXCEPT ![t] = @ + 1]
  /\ UNCHANGED <<remote, local, own, since, staged, pc, branch, attempt, faults>>

Fetched(s, b) ==
  /\ local' = [local EXCEPT ![s][b] = remote[b]]
  /\ own' = [own EXCEPT ![s][b] = {}]
  /\ since' = [since EXCEPT ![s][b] = {}]

\* The job checks out the one branch, then the other.
CheckoutData(s) ==
  /\ pc[s] = "idle"
  /\ IF FreshCheckout THEN Fetched(s, "data") ELSE UNCHANGED <<local, own, since>>
  /\ Goto(s, "cloning")
  /\ UNCHANGED <<source, remote, staged, branch, attempt, faults>>

CheckoutState(s) ==
  /\ pc[s] = "cloning"
  /\ IF FreshCheckout THEN Fetched(s, "state") ELSE UNCHANGED <<local, own, since>>
  /\ Goto(s, "harvest")
  /\ UNCHANGED <<source, remote, staged, branch, attempt, faults>>

\* Some of the shard's targets are harvested.  A payload whose files are
\* already as they should be is neither written nor staged; a ledger always
\* is, since it records the harvest.
Harvest(s) ==
  /\ pc[s] = "harvest"
  /\ \E done \in SUBSET Owned[s] :
       LET unchanged(t) == local[s]["data"][t] = source[t]
           written == [b \in Branches |->
                         IF b = "state" THEN done ELSE {t \in done : ~unchanged(t)}]
       IN  /\ staged' = [staged EXCEPT ![s] = written]
           /\ local' = [local EXCEPT ![s] = [b \in Branches |-> [t \in Targets |->
                          IF t \in written[b] THEN source[t] ELSE @[b][t]]]]
  /\ branch' = [branch EXCEPT ![s] = "data"]
  /\ Goto(s, "commit")
  /\ UNCHANGED <<source, remote, own, since, attempt, faults>>

\* What follows a branch that is done with: the state after the payload.
Proceed(s) ==
  IF branch[s] = "data"
    THEN branch' = [branch EXCEPT ![s] = "state"] /\ Goto(s, "commit")
    ELSE UNCHANGED branch /\ Goto(s, "over")

\* Mutant: the files are never added to git's index, so nothing is committed.
MutCommit(s) ==
  /\ pc[s] = "commit"
  /\ staged' = [staged EXCEPT ![s][branch[s]] = {}]
  /\ attempt' = [attempt EXCEPT ![s] = 1]
  /\ Proceed(s)
  /\ UNCHANGED <<source, remote, local, own, since, faults>>

HasStagedChanges(s) == staged[s][branch[s]] # {}

\* Nothing staged makes no commit, and a branch without a new commit counts
\* as pushed.
Commit(s) ==
  LET b == branch[s]
  IN  /\ pc[s] = "commit"
      /\ own' = [own EXCEPT ![s][b] = @ \cup staged[s][b]]
      /\ staged' = [staged EXCEPT ![s][b] = {}]
      /\ attempt' = [attempt EXCEPT ![s] = 1]
      /\ IF HasStagedChanges(s) THEN Goto(s, "push") /\ UNCHANGED branch ELSE Proceed(s)
      /\ UNCHANGED <<source, remote, local, since, faults>>

\* The remote takes a push when it has not moved since the last fetch.
Accepts(s) == since[s][branch[s]] = {}
Pushed(s, b) ==
  [t \in Targets |-> IF t \in own[s][b] THEN local[s][b][t] ELSE remote[b][t]]

Land(s) ==
  LET b == branch[s]
      behind == {r \in Shards \ {s} : ~FreshCheckout \/ pc[r] # "idle"}
  IN  /\ remote' = [remote EXCEPT ![b] = Pushed(s, b)]
      /\ since' = [r \in Shards |-> IF r \in behind
                                     THEN [since[r] EXCEPT ![b] = @ \cup own[s][b]]
                                     ELSE since[r]]

\* Mutant: push --force.
MutPush(s) ==
  /\ pc[s] = "push"
  /\ remote' = [remote EXCEPT ![branch[s]] = local[s][branch[s]]]
  /\ own' = [own EXCEPT ![s][branch[s]] = {}]
  /\ Proceed(s)
  /\ UNCHANGED <<source, local, since, staged, attempt, faults>>

Push(s) ==
  /\ pc[s] = "push" /\ Accepts(s)
  /\ Land(s)
  /\ own' = [own EXCEPT ![s][branch[s]] = {}]
  /\ Proceed(s)
  /\ UNCHANGED <<source, local, staged, attempt, faults>>

\* Rejected: the remote moved, or the command failed, perhaps after the remote
\* had taken the commits.
PushRejected(s) ==
  /\ pc[s] = "push"
  /\ \/ ~Accepts(s) /\ UNCHANGED <<remote, since, own, faults>>
     \/ /\ faults < FaultCap /\ faults' = faults + 1
        /\ UNCHANGED <<remote, since, own>>
     \/ /\ faults < FaultCap /\ faults' = faults + 1
        /\ Accepts(s) /\ Land(s)
        /\ own' = [own EXCEPT ![s][branch[s]] = {}]
  /\ Goto(s, "rejected")
  /\ UNCHANGED <<source, local, staged, branch, attempt>>

\* Mutant: the state is recorded whatever became of the payload.
MutGiveUp(s) ==
  /\ pc[s] = "rejected" /\ attempt[s] = MaxPushAttempts
  /\ Proceed(s)
  /\ UNCHANGED <<source, remote, local, own, since, staged, attempt, faults>>

\* Out of attempts: ERR-PUBLISH-CONFLICT, and after the payload no state.
GiveUp(s) ==
  /\ pc[s] = "rejected" /\ attempt[s] = MaxPushAttempts
  /\ Goto(s, "over")
  /\ UNCHANGED <<source, remote, local, own, since, staged, branch, attempt, faults>>

\* Fetch and rebase.  Two changes of one file conflict; a command that fails
\* throws past the loop, and the shard's run is over.
Conflicts(s) == since[s][branch[s]] \cap own[s][branch[s]] # {}

\* Mutant: the attempts are not counted.
MutRebase(s) ==
  LET b == branch[s]
  IN  /\ pc[s] = "rejected" /\ ~Conflicts(s)
      /\ local' = [local EXCEPT ![s][b] = Pushed(s, b)]
      /\ since' = [since EXCEPT ![s][b] = {}]
      /\ Goto(s, "push")
      /\ UNCHANGED <<source, remote, own, staged, branch, attempt, faults>>

Rebase(s) ==
  LET b == branch[s]
  IN  /\ pc[s] = "rejected" /\ attempt[s] < MaxPushAttempts /\ ~Conflicts(s)
      /\ local' = [local EXCEPT ![s][b] = Pushed(s, b)]
      /\ since' = [since EXCEPT ![s][b] = {}]
      /\ attempt' = [attempt EXCEPT ![s] = @ + 1]
      /\ Goto(s, "push")
      /\ UNCHANGED <<source, remote, own, staged, branch, faults>>

RebaseThrows(s) ==
  /\ pc[s] = "rejected" /\ attempt[s] < MaxPushAttempts
  /\ \/ Conflicts(s) /\ UNCHANGED faults
     \/ faults < FaultCap /\ faults' = faults + 1
  /\ Goto(s, "over")
  /\ UNCHANGED <<source, remote, local, own, since, staged, branch, attempt>>

\* The process dies between two commands.
Crash(s) ==
  /\ pc[s] \notin {"idle", "over"} /\ faults < FaultCap
  /\ faults' = faults + 1
  /\ Goto(s, "over")
  /\ UNCHANGED <<source, remote, local, own, since, staged, branch, attempt>>

\* The staged set goes with the process, and the runner's disk with the job;
\* where it stays, the checkouts stay with their unpushed commits.
JobEnds(s) ==
  /\ pc[s] = "over" /\ Goto(s, "idle")
  /\ staged' = [staged EXCEPT ![s] = Nothing]
  /\ branch' = [branch EXCEPT ![s] = "data"]
  /\ attempt' = [attempt EXCEPT ![s] = 0]
  /\ IF FreshCheckout
       THEN /\ local' = [local EXCEPT ![s] = [b \in Branches |-> Unpublished]]
            /\ own' = [own EXCEPT ![s] = Nothing]
            /\ since' = [since EXCEPT ![s] = Nothing]
       ELSE UNCHANGED <<local, own, since>>
  /\ UNCHANGED <<source, remote, faults>>

PublishStep(s) ==
  CheckoutState(s) \/ Commit(s) \/ Push(s) \/ PushRejected(s) \/ GiveUp(s)
    \/ Rebase(s) \/ RebaseThrows(s) \/ JobEnds(s)

Next ==
  \/ \E t \in Targets : SourceChanges(t)
  \/ \E s \in Shards : CheckoutData(s) \/ Harvest(s) \/ PublishStep(s) \/ Crash(s)

Spec == Init /\ [][Next]_vars

\* The schedule starts every shard again and again, a process that is not
\* killed goes on, and a harvest of all its targets succeeds now and then.
FullHarvest(s) == Harvest(s) /\ staged'[s]["state"] = Owned[s]
FairSpec ==
  Spec /\ \A s \in Shards :
            WF_vars(CheckoutData(s)) /\ WF_vars(PublishStep(s)) /\ SF_vars(FullHarvest(s))
-----------------------------------------------------------------------------
TypeOK ==
  /\ source \in [Targets -> Nat] /\ \A t \in Targets : source[t] <= MaxVersion[t]
  /\ remote \in Contents
  /\ local \in [Shards -> Contents]
  /\ own \in [Shards -> Marks] /\ since \in [Shards -> Marks]
  /\ staged \in [Shards -> Marks]
  /\ pc \in [Shards -> Stages] /\ branch \in [Shards -> Branches]
  /\ attempt \in [Shards -> 0 .. MaxPushAttempts]
  /\ faults \in 0 .. FaultCap

\* Whatever dies or is rejected, and even when two shards have one target, the
\* state branch never claims a version the data branch does not have
\* (git-data.mjs:19, EDR-025).
RemoteStateNeverAhead ==
  \A t \in Targets : remote["state"][t] <= remote["data"][t]

\* The branches are those of the abstract specification: nothing another shard
\* pushed is ever taken back (git.mjs:4), and the payload goes first.
Order == INSTANCE PublishOrder WITH data <- remote["data"], state <- remote["state"]
KeepsOrder == Order!Spec

\* Once the source and the faults have come to rest, the payload of every
\* planned target reaches the branch, however many pushes were lost before: a
\* run that finds nothing to stage must not hide a commit that never landed
\* (git-data.mjs:202).
PayloadArrives ==
  <>[](\A s \in Shards : \A t \in Owned[s] : remote["data"][t] = source[t])

\* publishInOrder comes back: the push loop ends landed, conflicted or thrown.
RunEnds == \A s \in Shards : pc[s] # "idle" ~> pc[s] = "idle"
=============================================================================
