---------------------------- MODULE MCCanaryRun ----------------------------
(* Two users, three documents in two collections, and the responses that     *)
(* tell right from wrong for them.                                           *)
EXTENDS CanaryRun

MCUserOrder == <<"u1", "u2">>
MCDocOrder == <<"d1", "d2", "d3">>
MCGroups == [u1 |-> {"staff"}, u2 |-> {"staff", "legal"}]
MCCollection == [d1 |-> "handbook", d2 |-> "cases", d3 |-> "cases"]
MCMarks == [d1 |-> {"handbook"}, d2 |-> {"cases", "old"}, d3 |-> {"cases"}]

Group(g, docs) == [kind |-> "group", subject |-> g, docs |-> docs]
User(u, docs) == [kind |-> "user", subject |-> u, docs |-> docs]

(* Grants by group with a denial; a user's grant against a group's denial,   *)
(* either way round; everything allowed but for one; and no evaluation.      *)
MCPolicies ==
  {[evaluated |-> TRUE, default |-> "deny", userFirst |-> FALSE,
    grants |-> {Group("staff", {"d1", "d2"}), Group("legal", {"d3"})}, denies |-> {User("u1", {"d2"})}],
   [evaluated |-> TRUE, default |-> "allow", userFirst |-> FALSE,
    grants |-> {}, denies |-> {Group("staff", {"d3"})}],
   [evaluated |-> FALSE, default |-> "allow", userFirst |-> FALSE, grants |-> {}, denies |-> {}]}
  \cup
  {[evaluated |-> TRUE, default |-> "deny", userFirst |-> first,
    grants |-> {Group("staff", {"d1"}), User("u2", {"d2"})}, denies |-> {Group("legal", {"d2"})}] :
     first \in BOOLEAN}

Plain == [perUser |-> 2, maxQueries |-> 20, strict |-> FALSE, network |-> TRUE,
          failOnReview |-> FALSE, known |-> {"u1", "u2"}, tokens |-> {"u1"}]

MCOptions ==
  {Plain,
   [Plain EXCEPT !.perUser = 1, !.failOnReview = TRUE],
   [Plain EXCEPT !.maxQueries = 3],
   [Plain EXCEPT !.strict = TRUE],
   [Plain EXCEPT !.strict = TRUE, !.tokens = {"u1", "u2"}],
   [Plain EXCEPT !.network = FALSE, !.perUser = 4],
   [Plain EXCEPT !.known = {"u1"}, !.perUser = 3]}

Json(docs) == [kind |-> "json", shown |-> docs, context |-> {}, tagged |-> FALSE, echoed |-> FALSE, answered |-> TRUE]

MCResponses ==
  {Json({}), Json({"d1"}), Json({"d2"}), Json({"d3"}),
   [Json({"d2"}) EXCEPT !.tagged = TRUE],
   [Json({}) EXCEPT !.echoed = TRUE],
   [Json({"d1"}) EXCEPT !.answered = FALSE],
   [Json({"d1"}) EXCEPT !.context = {"d3"}],
   [Json({"d3"}) EXCEPT !.kind = "opaque"],
   [Json({}) EXCEPT !.kind = "auth"],
   [Json({}) EXCEPT !.kind = "error"]}
=============================================================================
