SPECIFICATION AlertsSpec
CONSTANTS
  Plan <- MCPlan
  Conditions <- MCConditions
  NoError = NoError
  MaxFaults = 2
INVARIANTS
  OneIssuePerTarget
PROPERTIES
  CriticalIsHeard
  ClearedIsClosed
