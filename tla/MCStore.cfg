SPECIFICATION StoreSpec
CONSTANTS
  Files = {"ledger", "budget"}
  Durable = {"budget"}
  MaxWrites = 2
  MaxRecords = 3
  MaxKills = 2
INVARIANTS
  OldOrNew
  DurableHolds
  LossIsBounded
\* The bounds are reached.
CHECK_DEADLOCK FALSE
