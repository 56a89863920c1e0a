------------------------------ MODULE Resolver ------------------------------
(***************************************************************************)
(* Which listing a client's configuration means, run after run             *)
(* (adapters/acquisition/google-dom/resolver.mjs with its two pure         *)
(* siblings listing-identity.mjs and name-match.mjs).                      *)
(*                                                                         *)
(* The composition root wires the static resolver, so nothing in src/      *)
(* calls this one yet; its caller here resolves one listing, once a run.   *)
(* The platform may rename a listing, let it point somewhere else or drop  *)
(* it between any two looks, and answers a search with what it likes.  The *)
(* operator may change the configuration between two runs.                 *)
(*                                                                         *)
(* A name is the sequence of its words after folding.  An identifier is    *)
(* the listing it denotes, by place id or by cid.                          *)
(***************************************************************************)
EXTENDS Naturals, FiniteSets, FiniteSetsExt, SequencesExt

CONSTANTS
  Ids,             \* listings of the platform
  Words, LegalForms, \* words of names, and those of them that are legal forms
  Names,           \* the names listings may show
  Configs,         \* the configurations the operator may write
  Threshold,       \* resolution.identity_threshold, in percent
  TTL,             \* days a cached identity is trusted
  NoId

Config == [place_id : Ids \cup {NoId}, cid : Ids \cup {NoId},
           url : ({"place_id", "cid"} \X Ids) \cup {NoId},
           search : BOOLEAN, allow_search : BOOLEAN,
           expected_name : Names \cup {<<>>}]

ASSUME ResolverAssumption ==
  /\ LegalForms \subseteq Words
  /\ Names \subseteq Seq(Words) \ {<<>>}
  /\ Configs \subseteq Config
  /\ Threshold \in 1..100
  /\ TTL \in Nat \ {0}
  /\ NoId \notin Ids

VARIABLES
  config,       \* the listing's identity and resolution settings
  shown,        \* the name each listing shows, <<>> when it is gone
  leads,        \* the listing each identifier leads to
  cache,        \* the identity cached for this listing, NoId at first
  age,          \* days since the cache was verified, up to TTL
  pc,
  plan,         \* the route chosen
  page,         \* what openListing read
  result,       \* the last resolution: a code, or the canonical id
  sinceSuccess, \* history: days since a resolution succeeded, up to TTL
  matching,     \* history: how many search answers matched
  drifted       \* history: the id that drifted, until the operator acts

resolverVars == <<config, shown, leads, cache, age, pc, plan, page, result,
          sinceSuccess, matching, drifted>>
world == <<config, shown, leads>>

\* A legal form at the end of a name says nothing, unless it is all there is.
NormaliseName(name) ==
  LET kept == {i \in 2..Len(name) : name[i] \notin LegalForms} \cup {1}
  IN  SubSeq(name, 1, Max(kept))

\* The share of the shorter name's words that the longer one has.
Similar(left, right) ==
  /\ left # <<>> /\ right # <<>>
  /\ LET a == Range(NormaliseName(left))
         b == Range(NormaliseName(right))
     IN  100 * Cardinality(a \cap b)
           >= Threshold * Min({Cardinality(a), Cardinality(b)})

CacheIsFresh == cache # NoId /\ age < TTL

Route(via, kind, id) == [via |-> via, kind |-> kind, id |-> id]
Unresolvable == Route("none", "none", NoId)

\* The first route that has something to go by.
PlanResolution ==
  IF config.place_id # NoId THEN Route("explicit_place_id", "place_id", config.place_id)
  ELSE IF config.cid # NoId THEN Route("explicit_cid", "cid", config.cid)
  ELSE IF CacheIsFresh THEN Route("cache", "place_id", cache)
  ELSE IF config.url # NoId THEN Route("url", config.url[1], config.url[2])
  ELSE IF config.search /\ config.allow_search THEN Route("search", "search", NoId)
  ELSE Unresolvable

NoPlan == Route("none", "none", NoId)
NoPage == [id |-> NoId, name |-> <<>>]

ResolverInit ==
  /\ config \in Configs
  /\ shown \in [Ids -> Names]
  /\ leads = [id \in Ids |-> id]
  /\ cache = NoId
  /\ age = TTL
  /\ pc = "idle"
  /\ plan = NoPlan
  /\ page = NoPage
  /\ result = "none"
  /\ sinceSuccess = TTL
  /\ matching = 0
  /\ drifted = NoId

Finish(answer) ==
  /\ result' = answer
  /\ pc' = "idle"
  /\ plan' = NoPlan
  /\ page' = NoPage

Choose ==
  /\ pc = "idle"
  /\ matching' = 0
  /\ IF PlanResolution.via = "none"
     THEN Finish("RESOLVE-NO-IDENTIFIER")
     ELSE /\ plan' = PlanResolution
          /\ pc' = IF PlanResolution.kind = "search" THEN "searching" ELSE "opening"
          /\ UNCHANGED <<page, result>>
  /\ UNCHANGED <<world, cache, age, sinceSuccess, drifted>>

\* A listing that is gone opens as nothing.
OpenListing ==
  /\ pc = "opening"
  /\ LET id == leads[plan.id] IN
       IF shown[id] = <<>>
       THEN Finish("RESOLVE-NOTFOUND")
       ELSE /\ page' = [id |-> id, name |-> shown[id]]
            /\ pc' = "verifying"
            /\ UNCHANGED <<plan, result>>
  /\ UNCHANGED <<world, cache, age, sinceSuccess, matching, drifted>>

\* The one candidate there is to choose; none if there are several.
ChooseCandidate(candidates) == IF Cardinality(candidates) = 1 THEN candidates ELSE {}

\* The platform answers a search with listings it has, under their names.
Search ==
  /\ pc = "searching"
  /\ \E found \in SUBSET {id \in Ids : shown[id] # <<>>} :
       LET scored == {id \in found : Similar(shown[id], config.expected_name)} IN
         /\ matching' = Cardinality(scored)
         /\ \/ /\ ChooseCandidate(scored) = {}
               /\ Finish(IF scored = {} THEN "RESOLVE-NOTFOUND" ELSE "RESOLVE-AMBIGUOUS")
            \/ \E id \in ChooseCandidate(scored) :
                 /\ plan' = [plan EXCEPT !.id = id]
                 /\ pc' = "opening"
                 /\ UNCHANGED <<page, result>>
  /\ UNCHANGED <<world, cache, age, sinceSuccess, drifted>>

VerifyIdentity == Similar(page.name, config.expected_name)

\* Mutant: an identity that came from the cache is not written back.
MutRemember ==
  IF plan.via = "cache" THEN UNCHANGED <<cache, age>> ELSE cache' = page.id /\ age' = 0
\* The identity is cached anew after every verification.
Remember == cache' = page.id /\ age' = 0

Verify ==
  /\ pc = "verifying"
  /\ \/ /\ VerifyIdentity
        /\ Remember
        /\ Finish("ok")
        /\ sinceSuccess' = 0
        /\ drifted' = IF page.id = drifted THEN NoId ELSE drifted
     \/ /\ ~VerifyIdentity
        /\ Finish("IDENTITY-DRIFT")
        /\ drifted' = cache
        /\ UNCHANGED <<cache, age, sinceSuccess>>
  /\ UNCHANGED <<world, matching>>

\* A call to the browser, the search or the cache throws, or the run dies.
Throw ==
  /\ pc # "idle"
  /\ Finish("thrown")
  /\ UNCHANGED <<world, cache, age, sinceSuccess, matching, drifted>>

NextDay ==
  /\ pc = "idle"
  /\ age' = IF age < TTL THEN age + 1 ELSE age
  /\ sinceSuccess' = IF sinceSuccess < TTL THEN sinceSuccess + 1 ELSE sinceSuccess
  /\ UNCHANGED <<world, cache, pc, plan, page, result, matching, drifted>>

\* The platform renames a listing, drops it, or merges it into another.
Retitle ==
  /\ \E id \in Ids, name \in Names \cup {<<>>} :
       name # shown[id] /\ shown' = [shown EXCEPT ![id] = name]
  /\ UNCHANGED <<config, leads, cache, age, pc, plan, page, result, sinceSuccess, matching, drifted>>

Redirect ==
  /\ \E id, other \in Ids :
       /\ leads[id] = id /\ id # other /\ leads[other] = other
       /\ leads' = [leads EXCEPT ![id] = other]
  /\ UNCHANGED <<config, shown, cache, age, pc, plan, page, result, sinceSuccess, matching, drifted>>

Configure ==
  /\ pc = "idle"
  /\ config' \in Configs \ {config}
  /\ drifted' = NoId
  /\ UNCHANGED <<shown, leads, cache, age, pc, plan, page, result, sinceSuccess, matching>>

ResolverNext ==
  \/ Choose \/ OpenListing \/ Search \/ Verify \/ Throw
  \/ NextDay \/ Retitle \/ Redirect \/ Configure

ResolverSpec == ResolverInit /\ [][ResolverNext]_resolverVars
-----------------------------------------------------------------------------
Identified == config.place_id # NoId \/ config.cid # NoId \/ config.url # NoId

\* The platform is asked to search only for a listing without an identifier of
\* its own that no run of the last TTL days has verified.
SearchIsLast ==
  pc = "searching" => ~Identified /\ sinceSuccess = TTL

\* A listing adopted by search was the only answer that matched.
NeverGuesses ==
  [][pc = "verifying" /\ pc' = "idle" /\ result' = "ok" /\ plan.via = "search"
       => matching = 1]_resolverVars

\* The same business under another legal form, or with its town added, is no
\* drift.
SameBusinessIsNoDrift ==
  [][pc = "verifying" /\ pc' = "idle" /\ result' = "IDENTITY-DRIFT"
       => config.expected_name = <<>>
            \/ ~IsPrefix(NormaliseName(config.expected_name), page.name)]_resolverVars

\* resolver.mjs: after a drift verdict the last known good identity stays, so
\* that no later run adopts another listing by search before a human looked.
DriftIsNotSearchedAway ==
  [][pc = "verifying" /\ pc' = "idle" /\ result' = "ok" /\ drifted # NoId
       => plan.via # "search"]_resolverVars
=============================================================================
