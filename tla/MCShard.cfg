\* Two shards, four targets, two instants; both budgets are given.
SPECIFICATION FairSpec
CONSTANTS
  Targets <- MCTargets
  Clients <- MCClients
  Healths <- MCHealths
  Verdicts <- MCVerdicts
  Thrown <- MCThrown
  ShardCount = 2
  TargetBudget = TRUE
  RunBudget = TRUE
  MaxTime = 2
INVARIANTS
  PlanIsSound
  EveryTargetAccounted
  ExitIsHonest
PROPERTIES
  EveryShardEnds
\* A harvest ends.
CHECK_DEADLOCK FALSE
