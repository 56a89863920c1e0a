SPECIFICATION FairSpec
CONSTANTS
  PerHour = 2
  PerDay = 3
  HourLength = 1
  DayLength = 2
  FailureThreshold = 2
  BaseCooldown = 1
  MaxCooldown = 2
  TripCap = 2
  CrashCap = 1
  Failures <- MCFailures
  Targets <- MCTargets
INVARIANTS
  BudgetHolds
  OneTrial
  HalfOpenIsExplained
PROPERTIES
  OpenCircuitIsTried
  CallEnds
