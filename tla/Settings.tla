------------------------------ MODULE Settings ------------------------------
(***************************************************************************)
(* A client's configuration on its way from a file to a harvest: the six   *)
(* layers and their trace (app/config), the semantic rules V-1 to V-12,    *)
(* validate-config, the registry's targets, the preflight's authorisation  *)
(* check and the choice of the adapter.                                    *)
(*                                                                         *)
(* A layer is the set of its leaves: a path, which is a sequence of keys,  *)
(* and a value.  No leaf's path begins another's.  A value has a kind and, *)
(* if it is a number, a size, in percent for a ratio; a switch has 1 or 0. *)
(* What is no setting (the listings with their overrides, the              *)
(* authorisation) is a field of the document.  Nothing in src/ reads       *)
(* client files yet: the workflows' intent, that an edit validate-config   *)
(* passes is merged and harvested, is the actions Merge and Harvest.       *)
(***************************************************************************)
EXTENDS Integers, FiniteSets, SequencesExt

CONSTANTS
  Documents,     \* the client files an operator may write
  Stem,          \* of the file's name
  Environments,  \* what the environment may hold
  Foreign,       \* names of variables that do not begin with TPRE_
  Profiles, Flags,   \* what other callers of the loader pass
  Defaults,      \* the first layer
  SecretPaths,   \* paths whose value the trace may not show
  None

Number(n) == [kind |-> "number", size |-> n]
Switch(n) == [kind |-> "boolean", size |-> n]
Other(kind) == [kind |-> kind, size |-> 0]
Leaf(path, value) == [path |-> path, value |-> value]

Listings(document) == Range(document.listings)
Overrides == UNION {{l.overrides : l \in Listings(d)} : d \in Documents}

\* A name stands for one path, and a path has one name (knownVariables).
ASSUME SettingsAssumption ==
  /\ \A layer \in {Defaults} \cup Profiles \cup Overrides \cup Flags
                    \cup {d.leaves : d \in Documents} :
       /\ \A l \in layer : l.path \in Seq(STRING) \ {<<>>}
       /\ \A l, k \in layer : IsPrefix(l.path, k.path) => l = k
  /\ \A env \in Environments : \A v, w \in env :
       v.name = w.name \/ (v.path = w.path /\ v.path # <<>>) => v = w
  /\ None \notin Documents
  /\ None \notin {"blank", "true", "false"}

VARIABLES
  draft,       \* the document being edited, None at first
  environment, \* the variables the commands are run with
  loaded,      \* what the loader returned for these two, None before
  report,      \* what validate-config said of the draft, None before
  merged,      \* the document the workflows let through
  verdict      \* what became of each of its listings at a harvest

settingsVars == <<draft, environment, loaded, report, merged, verdict>>
-----------------------------------------------------------------------------
\* The layers.

\* A leaf of the overlay replaces what lies at its path, below it, or above it:
\* objects merge, and everything else, a list too, is replaced.
MergeLayer(base, overlay) ==
  {l \in base : \A o \in overlay : ~IsPrefix(l.path, o.path) /\ ~IsPrefix(o.path, l.path)}
    \cup overlay

LayerNames == <<"defaults", "profile", "client", "listing", "environment", "flags">>

TraceValue(path, value) ==
  IF path \notin SecretPaths THEN value
  ELSE Other(IF value.kind = "null" THEN "unset" ELSE "set")

\* Mutant: the first layer to name a path keeps it.
MutTraceOf(layers) ==
  [path \in UNION {{l.path : l \in layers[n]} : n \in 1..6} |->
     LET naming(n) == {l \in layers[n] : l.path = path}
         first == CHOOSE n \in 1..6 : naming(n) # {} /\ \A k \in 1..n - 1 : naming(k) = {}
     IN  [layer |-> LayerNames[first],
          value |-> TraceValue(path, (CHOOSE l \in naming(first) : TRUE).value)]]

\* The last layer to name a path, and what it said.  A path that a later layer
\* replaced with its whole object stays in the trace.
TraceOf(layers) ==
  [path \in UNION {{l.path : l \in layers[n]} : n \in 1..6} |->
     LET naming(n) == {l \in layers[n] : l.path = path}
         last == CHOOSE n \in 1..6 : naming(n) # {} /\ \A k \in n + 1..6 : naming(k) = {}
     IN  [layer |-> LayerNames[last],
          value |-> TraceValue(path, (CHOOSE l \in naming(last) : TRUE).value)]]

ResolveLayers(layers) == FoldLeft(MergeLayer, {}, layers)
-----------------------------------------------------------------------------
\* The environment: each variable with the path its name stands for, <<>> if
\* none, and what its text reads as.

RunVariables == {"TPRE_FORCE_PUBLISH", "TPRE_FORCE_REASON", "TPRE_LOG_LEVEL",
                 "TPRE_SHARD_INDEX", "TPRE_SHARD_COUNT", "TPRE_DRY_RUN"}

Ours(env) == {v \in env : v.name \notin RunVariables \cup Foreign}
IsSetting(v)  == \E l \in Defaults : l.path = v.path

\* The values a text may stand for, by the kind of the default: none if it is
\* refused.  A default of null takes the text as it is.
Coerce(v) ==
  LET default == (CHOOSE l \in Defaults : l.path = v.path).value.kind IN
  CASE default = "number"  -> IF v.raw = "digits" THEN {Number(v.size)} ELSE {}
    [] default = "boolean" -> IF v.raw = "switch" THEN {Switch(v.size)} ELSE {}
    [] default = "list"    -> {Other("list")}
    [] OTHER               -> {Other("text")}

\* Mutant: a variable nobody knows is passed over.
MutEnvironmentErrors(env) == {v \in Ours(env) : IsSetting(v) /\ Coerce(v) = {}}
EnvironmentErrors(env) == {v \in Ours(env) : ~IsSetting(v) \/ Coerce(v) = {}}

EnvironmentLayer(env) ==
  UNION {{Leaf(v.path, value) : value \in Coerce(v)} : v \in {u \in Ours(env) : IsSetting(u)}}
-----------------------------------------------------------------------------
\* app/config/limits.mjs: what no layer may go beyond.

AtMost(n) == [floor |-> -1000000000, ceiling |-> n]
AtLeast(n) == [floor |-> n, ceiling |-> 1000000000]
Within(f, c) == [floor |-> f, ceiling |-> c]
Limits == {
  <<<<"nav", "max_reviews">>, AtMost(5000)>>,
  <<<<"nav", "scroll_timeout_ms">>, AtMost(120000)>>,
  <<<<"nav", "expansion_cap">>, AtMost(1000)>>,
  <<<<"reconcile", "removal_confirmations">>, Within(2, 10)>>,
  <<<<"reconcile", "coverage_min">>, Within(50, 100)>>,
  <<<<"reconcile", "near_duplicate_threshold">>, Within(80, 100)>>,
  <<<<"budget_target_ms">>, AtMost(300000)>>,
  <<<<"budget_run_ms">>, AtMost(900000)>>,
  <<<<"inter_target_delay_ms">>, AtLeast(5000)>>,
  <<<<"min_request_delay_ms">>, AtLeast(250)>>,
  <<<<"source_hourly_budget">>, AtMost(600)>>,
  <<<<"source_daily_budget">>, AtMost(6000)>>,
  <<<<"max_parallel">>, AtMost(8)>>,
  <<<<"cadence_floor_hours">>, AtLeast(1)>>}

\* Only a number is held against its limits.
CheckLimits(leaves) ==
  {l \in leaves : /\ l.value.kind = "number"
                  /\ \E limit \in Limits :
                       /\ limit[1] = l.path
                       /\ l.value.size \notin limit[2].floor .. limit[2].ceiling}
-----------------------------------------------------------------------------
\* The loader.

ConfigVersion == 1
Migrates(client) == client.version \in {None, ConfigVersion}
MigrateLayer(client) ==
  IF client = None THEN {}
  ELSE MergeLayer(client.leaves, {Leaf(<<"config_version">>, Number(ConfigVersion))})

Refused == [ok |-> FALSE, config |-> {}, trace |-> <<>>, run |-> {}]

LoadConfig(profile, client, listing, env, flags) ==
  LET layers == <<Defaults, profile, MigrateLayer(client), listing,
                  EnvironmentLayer(env), flags>>
      config == ResolveLayers(layers)
  IN  IF \/ EnvironmentErrors(env) # {}
         \/ client # None /\ ~Migrates(client)
         \/ CheckLimits(config) # {}
      THEN Refused
      ELSE [ok |-> TRUE, config |-> config, trace |-> TraceOf(layers),
            run |-> {v.name : v \in env} \cap RunVariables]
-----------------------------------------------------------------------------
\* The authorisation.  A record gives each field None, "blank", "true",
\* "false", "number", or a text.

Fields == {"authorized_by", "authorization_date", "relationship", "evidence_ref",
           "scope_ack"}
Relationships == {"owner", "authorized_agent"}
Texts == Relationships \cup {"text"}

\* Mutant: any answer acknowledges the scope.
MutMissingFields(record) ==
  IF record = None THEN Fields ELSE {f \in Fields : record[f] \in {None, "blank"}}
MissingFields(record) ==
  IF record = None THEN Fields
  ELSE {f \in Fields : IF f = "scope_ack" THEN record[f] # "true"
                                          ELSE record[f] \in {None, "blank"}}

RecordFor(document, listing) ==
  IF listing.authorization # None THEN listing.authorization ELSE document.authorization

\* Preflight check 4: the client's record only, and texts only.
AdmittedBy(record) ==
  /\ record # None
  /\ record["scope_ack"] = "true"
  /\ \A f \in Fields \ {"scope_ack"} : record[f] \in Texts
  /\ record["relationship"] \in Relationships
-----------------------------------------------------------------------------
\* The semantic rules.

At(document, path, test(_)) == \E l \in document.leaves : l.path = path /\ test(l.value)

SlugDiffersFromStem(document) == document.slug \notin {None, Stem}
ListingKeysRepeat(document) ==
  ~IsInjective([i \in DOMAIN document.listings |-> document.listings[i].key])
DomUnauthorised(document) ==
  \E l \in Listings(document) :
    /\ l.adapter = "google:dom"
    /\ LET record == RecordFor(document, l) IN
       MissingFields(record) # {} \/ record["relationship"] \notin Relationships
SecretsMissing(document, env) ==
  \E s \in document.secrets : \A v \in env : v.name = s => v.raw = "blank"
\* What lies at the file's own paths: a listing's overrides are not looked at.
CeilingBreached(document) == CheckLimits(document.leaves) # {}
SearchForbidden(document) == document.allow_search = "false"
NoIdentifier(document) == \E l \in Listings(document) : ~l.identified
NoExpectedName(document) == \E l \in Listings(document) : ~l.expected_name
MinRatingUnjustified(document) ==
  ~document.notes /\ At(document, <<"display", "min_rating">>, LAMBDA v : v.kind # "null")
SchemaOrgUnacknowledged(document) ==
  LET on(key) == At(document, <<"publish", key>>, LAMBDA v : v = Switch(1))
  IN  on("schema_org") /\ ~on("schema_org_policy_acknowledged")
DropRatioInsane(document) ==
  At(document, <<"gate", "max_count_drop_ratio">>, LAMBDA v : v.kind = "number" /\ v.size > 50)
TierContradictsCadence(document) == document.tier = "premium" /\ document.cadence = "daily"

Broken(rule, document, env) ==
  CASE rule = "V-1"  -> SlugDiffersFromStem(document)
    [] rule = "V-2"  -> ListingKeysRepeat(document)
    [] rule = "V-3"  -> DomUnauthorised(document)
    [] rule = "V-4"  -> SecretsMissing(document, env)
    [] rule = "V-5"  -> CeilingBreached(document)
    [] rule = "V-6"  -> SearchForbidden(document) /\ NoIdentifier(document)
    [] rule = "V-7"  -> NoExpectedName(document)
    [] rule = "V-8"  -> MinRatingUnjustified(document)
    [] rule = "V-9"  -> SchemaOrgUnacknowledged(document)
    [] rule = "V-10" -> DropRatioInsane(document)
    [] rule = "V-11" -> ~SearchForbidden(document) /\ NoIdentifier(document)
    [] rule = "V-12" -> TierContradictsCadence(document)

BlockingRules == {"V-1", "V-2", "V-3", "V-4", "V-5", "V-6", "V-7"}
Warnings == {"V-8", "V-9", "V-10", "V-11", "V-12"}

ValidateSemantics(document, env) ==
  {rule \in BlockingRules \cup Warnings : Broken(rule, document, env)}
-----------------------------------------------------------------------------
\* A harvest of what is merged.

Adapters == {"csv:file", "google:dom", "google:places-api", "google:business-profile-api"}
AccessMethod(l) == IF l.access_method = None THEN "dom" ELSE l.access_method

Harvested(document, l) ==
  CASE ~document.enabled \/ ~l.enabled -> "not due"
    [] AccessMethod(l) = "dom" /\ ~AdmittedBy(document.authorization) -> "unauthorised"
    [] OTHER -> IF l.adapter \in Adapters THEN l.adapter ELSE "no adapter"
-----------------------------------------------------------------------------
SettingsInit ==
  /\ draft = None
  /\ environment \in Environments
  /\ loaded = None
  /\ report = None
  /\ merged = None
  /\ verdict = <<>>

Edit ==
  /\ draft' \in Documents
  /\ loaded' = None
  /\ report' = None
  /\ UNCHANGED <<environment, merged, verdict>>

SetEnvironment ==
  /\ environment' \in Environments
  /\ loaded' = None
  /\ UNCHANGED <<draft, report, merged, verdict>>

\* validate-config: the loader gets the file and the environment only.
Validate ==
  /\ draft # None
  /\ loaded' = LoadConfig({}, draft, {}, environment, {})
  /\ LET findings == ValidateSemantics(draft, environment) IN
     report' = [findings |-> findings,
                blocked |-> ~loaded'.ok \/ findings \cap BlockingRules # {}]
  /\ UNCHANGED <<draft, environment, merged, verdict>>

\* Another caller of the loader, with every layer: the fourth is what a
\* listing of the file overrides, or nothing.
ListingLayers(document) ==
  {{}} \cup (IF document = None THEN {} ELSE {l.overrides : l \in Listings(document)})

Load ==
  /\ \E profile \in Profiles, listing \in ListingLayers(draft), flags \in Flags :
       loaded' = LoadConfig(profile, draft, listing, environment, flags)
  /\ UNCHANGED <<draft, environment, report, merged, verdict>>

\* The pull request: green, and merged some time later.
Merge ==
  /\ report # None
  /\ ~report.blocked
  /\ merged' = draft
  /\ verdict' = <<>>
  /\ UNCHANGED <<draft, environment, loaded, report>>

Harvest ==
  /\ merged # None
  /\ verdict' = [i \in DOMAIN merged.listings |-> Harvested(merged, merged.listings[i])]
  /\ UNCHANGED <<draft, environment, loaded, report, merged>>

SettingsNext == Edit \/ SetEnvironment \/ Validate \/ Load \/ Merge \/ Harvest

SettingsSpec == SettingsInit /\ [][SettingsNext]_settingsVars
-----------------------------------------------------------------------------
\* The trace explains the result: every setting of a loaded configuration is
\* what the trace says it is (resolveLayers merges and traces separately, by
\* two different walks of the same objects).
TraceNamesTheWinner ==
  loaded # None =>
    \A l \in loaded.config : loaded.trace[l.path].value = TraceValue(l.path, l.value)

\* No variable of the engine's is set in vain: a configuration loads only if
\* each is one of the run's, or has decided its setting, unless a flag named
\* that setting, a part of it or what it is a part of (readEnvironment, and the
\* order of the layers).
VariableIsHeard ==
  (loaded # None /\ loaded.ok) =>
    \A v \in environment : v.name \notin Foreign =>
      \/ v.name \in loaded.run
      \/ \E l \in loaded.config : l.path = v.path /\ l.value \in Coerce(v)
      \/ \E path \in DOMAIN loaded.trace :
           /\ IsPrefix(path, v.path) \/ IsPrefix(v.path, path)
           /\ loaded.trace[path].layer = "flags"

\* Not kept.  No override that is merged goes beyond a limit: V-5 reads the
\* paths of the file itself, and validate-config passes the loader no listing
\* layer, so overrides are first held to the limits by the run that loads them.
OverridesAreBounded ==
  merged # None => \A l \in Listings(merged) : CheckLimits(l.overrides) = {}

\* The pages of a source are read only for a client whose record is complete,
\* acknowledges the scope and names a permitted relationship.
DomIsAuthorised ==
  \A i \in DOMAIN verdict : verdict[i] = "google:dom" =>
    LET record == RecordFor(merged, merged.listings[i]) IN
    /\ record # None
    /\ record["scope_ack"] = "true"
    /\ record["relationship"] \in Relationships
    /\ \A f \in Fields : record[f] \notin {None, "blank"}

\* What may merge may run: validate-config and the preflight answer alike for
\* a listing that reads pages.
ValidatedIsAdmitted ==
  \A i \in DOMAIN verdict :
    merged.listings[i].adapter = "google:dom" => verdict[i] # "unauthorised"
=============================================================================
