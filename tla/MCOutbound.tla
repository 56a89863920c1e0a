----------------------------- MODULE MCOutbound -----------------------------
\* Two requests an hour, three a day of two hours, a tick each; two failures open
\* the circuit for one tick, then for two.  One code for each retry allowance,
\* a blocked class and a code the table does not know.
EXTENDS Outbound

MCFailures == {"NET-TIMEOUT", "HTTP-429", "BLOCKED-CHALLENGE", "UNKNOWN"}

\* An official API without a record, and the two pages the gate turns away: one
\* nobody authorised, one whose directive is unknown under `block`.
MCTargets ==
  {[access |-> "api", authorised |-> FALSE, mode |-> "warn", robots |-> "unknown"],
   [access |-> "dom", authorised |-> FALSE, mode |-> "warn", robots |-> "yes"],
   [access |-> "dom", authorised |-> TRUE, mode |-> "block", robots |-> "unknown"]}
=============================================================================
