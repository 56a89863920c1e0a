------------------------------ MODULE MCAlerts ------------------------------
\* Two targets, a condition of the source that is critical, and one of a target
\* that is not.
EXTENDS Alerts
MCPlan == <<"t1", "t2">>
MCConditions == {"BLOCKED-CHALLENGE", "PARSE-STRUCTURE"}
=============================================================================
