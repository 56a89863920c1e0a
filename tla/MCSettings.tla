----------------------------- MODULE MCSettings -----------------------------
\* One client file in thirteen versions: a plain one, and twelve that each differ
\* from it where a rule, a layer or a record can go wrong.
EXTENDS Settings

MCDefaults ==
  {Leaf(<<"config_version">>, Number(1)),
   Leaf(<<"nav", "max_reviews">>, Number(1000)),
   Leaf(<<"reconcile", "removal_confirmations">>, Number(3)),
   Leaf(<<"display", "languages">>, Other("null")),
   Leaf(<<"publish", "schema_org">>, Switch(0))}
MCSecretPaths == {<<"places_api_key">>}

Signed == [f \in Fields |-> IF f = "scope_ack" THEN "true"
                            ELSE IF f = "relationship" THEN "owner" ELSE "text"]
Listing == [key |-> "main", adapter |-> "google:dom", access_method |-> None,
            authorization |-> None, identified |-> TRUE, expected_name |-> TRUE,
            enabled |-> TRUE, overrides |-> {}]
Document == [slug |-> "acme", version |-> 1, leaves |-> {}, listings |-> <<Listing>>,
             authorization |-> Signed, secrets |-> {}, allow_search |-> "false",
             enabled |-> TRUE, notes |-> TRUE, tier |-> "standard", cadence |-> None]
MCDocuments ==
  {Document,
   [Document EXCEPT !.leaves = {Leaf(<<"nav", "max_reviews">>, Number(6000))}],
   [Document EXCEPT !.leaves = {Leaf(<<"display", "languages">>, Other("list")),
                                Leaf(<<"places_api_key">>, Other("text"))}],
   [Document EXCEPT !.leaves = {Leaf(<<"display">>, Other("null"))},
                    !.secrets = {"PLACES_API_KEY"}],
   [Document EXCEPT !.leaves = {Leaf(<<"publish", "schema_org">>, Switch(1))},
                    !.listings[1].overrides = {Leaf(<<"display", "languages">>, Other("null"))}],
   [Document EXCEPT !.listings[1].overrides =
                      {Leaf(<<"reconcile", "removal_confirmations">>, Number(1))}],
   [Document EXCEPT !.version = 2, !.slug = "acne"],
   [Document EXCEPT !.authorization["scope_ack"] = "false",
                    !.listings[1].access_method = "api"],
   [Document EXCEPT !.authorization["authorization_date"] = "number"],
   [Document EXCEPT !.authorization = None, !.listings[1].authorization = Signed],
   [Document EXCEPT !.authorization = None, !.listings[1].adapter = "google:places-api",
                    !.listings[1].access_method = "api"],
   [Document EXCEPT !.authorization["relationship"] = "blank", !.enabled = FALSE],
   [Document EXCEPT !.listings = <<Listing, [Listing EXCEPT !.key = "branch",
                          !.identified = FALSE, !.adapter = "file:csv"]>>,
                    !.allow_search = None]}

Variable(name, path, raw, size) == [name |-> name, path |-> path, raw |-> raw, size |-> size]
Reviews(raw, n) == Variable("TPRE_NAV_MAX_REVIEWS", <<"nav", "max_reviews">>, raw, n)
MCEnvironments ==
  {{Variable("PLACES_API_KEY", <<>>, "word", 0)},
   {Reviews("digits", 2000), Variable("TPRE_DRY_RUN", <<>>, "switch", 0)},
   {Reviews("digits", 6000)}, {Reviews("word", 0)},
   {Variable("TPRE_PUBLISH_SCHEMA_ORG", <<"publish", "schema_org">>, "switch", 0)},
   {Variable("TPRE_NAV_MAX_REVIEW", <<>>, "digits", 2000)},
   {Variable("TPRE_DISPLAY_LANGUAGES", <<"display", "languages">>, "word", 0),
    Variable("PLACES_API_KEY", <<>>, "blank", 0)}}
MCForeign == {"PLACES_API_KEY"}

MCProfiles == {{}, {Leaf(<<"display", "languages">>, Other("list")),
                    Leaf(<<"nav", "max_reviews">>, Number(7000))}}
MCFlags == {{}, {Leaf(<<"nav", "max_reviews">>, Number(50))}}
=============================================================================
