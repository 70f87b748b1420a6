--------------------------- MODULE MCEgressGuard ---------------------------
(* Instances of the page: a chat form with a prompt box and a button, beside *)
(* a search form whose box also matches the prompt selectors; or the chat    *)
(* form alone.  One prompt per verdict.                                      *)
EXTENDS EgressGuard

CONSTANTS box, button, form, searchBox, searchForm, clean, contact, code, key

MCFormOf == (box :> form) @@ (button :> form) @@ (searchBox :> searchForm)

SingleFormOf == (box :> form) @@ (button :> form)

(* Under the default policy: ALLOW, WARN, REDIRECT, BLOCK.                   *)
MCPatternsIn ==
  (clean :> {}) @@ (contact :> {"email", "dob"}) @@ (code :> {"fence"}) @@ (key :> {"private_key"})

ThreePatternsIn == [p \in {clean, contact, code} |-> MCPatternsIn[p]]

DefaultPolicy ==
  [mode |-> "enforce", default_action |-> "ALLOW", warn_score |-> 20,
   redirect_score |-> 45, block_score |-> 70,
   category_actions |->
     [secrets |-> "BLOCK", source_code |-> "REDIRECT", customer_records |-> "REDIRECT",
      health_data |-> "BLOCK", legal_text |-> "REDIRECT", internal_identifiers |-> "WARN",
      personal_data |-> "WARN", financial_data |-> "BLOCK"],
   continue |-> {"WARN"}, destination |-> TRUE, copy |-> TRUE]

(* A stricter pilot that shows a Continue button on BLOCK and on nothing     *)
(* else.                                                                     *)
BlockCodePolicy ==
  [DefaultPolicy EXCEPT !.category_actions["source_code"] = "BLOCK", !.continue = {"BLOCK"}]

MCPolicies == {DefaultPolicy, BlockCodePolicy}

OnlyDefault == {DefaultPolicy}
=============================================================================
