------------------------------- MODULE Errors -------------------------------
(***************************************************************************)
(* The error taxonomy (core/model/errors.mjs) and the retry policy that    *)
(* infra/retry/policy.mjs makes of it.  A code is its name without the     *)
(* ERR- prefix; the codes are grouped as the table groups them.            *)
(***************************************************************************)
EXTENDS Naturals

PolicyCodes == {"POLICY-KILLSWITCH", "POLICY-UNAUTHORIZED", "POLICY-ROBOTS",
                "POLICY-BUDGET", "POLICY-BREAKER-OPEN"}
ConfigCodes == {"CONFIG-INVALID", "CONFIG-VERSION", "CONFIG-SECRET-MISSING"}
ResolveCodes == {"RESOLVE-NO-IDENTIFIER", "RESOLVE-NOTFOUND",
                 "RESOLVE-AMBIGUOUS", "IDENTITY-DRIFT"}
NetCodes == {"NET-DNS", "NET-TIMEOUT", "NET-RESET", "NET-TLS"}
HttpCodes == {"HTTP-429", "HTTP-5XX", "HTTP-4XX", "HTTP-403"}
BrowserCodes == {"BROWSER-LAUNCH", "BROWSER-CRASH", "BROWSER-OOM"}
NavCodes == {"NAV-TIMEOUT", "NAV-SURFACE-NOT-FOUND", "NAV-CONSENT-WALL",
             "BUDGET-TARGET"}
BlockedCodes == {"BLOCKED-CHALLENGE", "BLOCKED-UNUSUAL-TRAFFIC", "BLOCKED-GEO"}
ParseCodes == {"PARSE-STRUCTURE", "PARSE-EMPTY-UNEXPECTED",
               "PARSE-FIELD-REQUIRED", "PARSE-RATING-INVALID",
               "PARSE-SELECTOR-PACK"}
ContentCodes == {"CLEAN-MARKUP-SURVIVED", "VALIDATE-QUARANTINE-RATE",
                 "VALIDATE-AGGREGATE"}
StateCodes == {"STATE-CORRUPT", "STATE-WRITE"}
GateCodes == {"GATE-REJECT-COUNT-DROP", "GATE-REJECT-RATING-SHIFT",
              "GATE-REJECT-EMPTY", "GATE-REJECT-COVERAGE",
              "GATE-REJECT-SCHEMA"}
PublishCodes == {"PUBLISH-CONFLICT", "PUBLISH-AUTH", "INTERNAL-INVARIANT",
                 "INTERNAL-UNCLASSIFIED"}

Codes == PolicyCodes \cup ConfigCodes \cup ResolveCodes \cup NetCodes
           \cup HttpCodes \cup BrowserCodes \cup NavCodes \cup BlockedCodes
           \cup ParseCodes \cup ContentCodes \cup StateCodes \cup GateCodes
           \cup PublishCodes

\* The retry column: three, two or one attempts; every other class has none.
Thrice == {"NET-DNS", "NET-TIMEOUT", "NET-RESET", "HTTP-5XX",
           "PUBLISH-CONFLICT"}
Twice == {"NET-TLS", "HTTP-429", "NAV-TIMEOUT", "STATE-WRITE"}
Once == {"BROWSER-LAUNCH", "BROWSER-CRASH"}

ExpandRetry(code) ==
  CASE code \in Thrice -> 3
    [] code \in Twice  -> 2
    [] code \in Once   -> 1
    [] OTHER           -> 0

\* What a code nobody classified gets: the policy table fails closed.
UnknownPolicy == 0

PolicyFor(code) == IF code \in Codes THEN ExpandRetry(code) ELSE UnknownPolicy

\* The severity column: the classes whose runs page somebody.
CriticalCodes ==
  {"BLOCKED-CHALLENGE", "BLOCKED-UNUSUAL-TRAFFIC", "CLEAN-MARKUP-SURVIVED",
   "GATE-REJECT-EMPTY", "GATE-REJECT-SCHEMA", "PUBLISH-AUTH",
   "INTERNAL-INVARIANT", "INTERNAL-UNCLASSIFIED"}
HighCodes ==
  {"IDENTITY-DRIFT", "HTTP-429", "HTTP-403", "NAV-SURFACE-NOT-FOUND",
   "NAV-CONSENT-WALL", "PARSE-STRUCTURE", "PARSE-EMPTY-UNEXPECTED",
   "STATE-CORRUPT"}

\* The breaker column: the classes of which one answer is to stop the source
\* from being contacted.  Nothing in src/ reads it.
OpensBreaker == {"BLOCKED-CHALLENGE", "BLOCKED-UNUSUAL-TRAFFIC"}

\* The scope column: the classes that invalidate a whole source.
SourceCodes ==
  {"POLICY-BREAKER-OPEN", "HTTP-429", "HTTP-403", "NAV-CONSENT-WALL"}
    \cup BlockedCodes
\* ... and those that invalidate the run.  Every other class is one target's,
\* one record's or one shard's.
RunCodes ==
  {"CONFIG-VERSION", "CONFIG-SECRET-MISSING", "BROWSER-LAUNCH",
   "PARSE-SELECTOR-PACK", "PUBLISH-AUTH", "INTERNAL-INVARIANT"}
=============================================================================
