----------------------------- MODULE MCResolver -----------------------------
\* Two listings.  The names are a business under two legal forms, its branch
\* with the town added, and another business.
EXTENDS Resolver

MCWords    == {"acme", "dental", "ltd", "limited", "leeds", "bakery"}
MCLegalForms == {"ltd", "limited"}
MCExpected == <<"acme", "dental", "ltd">>
MCNames    == {MCExpected, <<"acme", "dental", "limited">>,
               <<"acme", "dental", "leeds">>, <<"bakery">>}

Plain == [place_id |-> NoId, cid |-> NoId, url |-> NoId, search |-> FALSE,
          allow_search |-> FALSE, expected_name |-> MCExpected]
MCConfigs ==
  {[Plain EXCEPT !.place_id = "p1"],
   [Plain EXCEPT !.cid = "p2", !.search = TRUE, !.allow_search = TRUE],
   [Plain EXCEPT !.url = <<"cid", "p1">>],
   [Plain EXCEPT !.search = TRUE, !.allow_search = TRUE],
   [Plain EXCEPT !.search = TRUE],
   [Plain EXCEPT !.search = TRUE, !.allow_search = TRUE, !.expected_name = <<>>]}
=============================================================================
