--------------------------- MODULE EgressDecision ---------------------------
(* How prompt-egress-guard turns the patterns its detectors find in a prompt *)
(* into one action: detectors, score, thresholds, category actions, mode.    *)
(* Regular expressions are abstracted to the set of patterns they find.      *)
EXTENDS Integers, FiniteSets, FiniteSetsExt

Action     == {"ALLOW", "WARN", "REDIRECT", "BLOCK"}
Mode       == {"observe", "warn", "enforce"}

ActionRank == [ALLOW |-> 0, WARN |-> 1, REDIRECT |-> 2, BLOCK |-> 3]

Category == {"secrets", "source_code", "customer_records", "health_data",
             "legal_text", "internal_identifiers", "personal_data", "financial_data"}

(* The patterns of each detector; "entropy" is the separate entropy scan,    *)
(* which reports under the category "secrets".                               *)
Patterns == [
  secrets              |-> {"private_key", "bearer", "api_key", "connection", "jwt", "entropy"},
  source_code          |-> {"fence", "declaration", "import", "stack_trace", "sql",
                            "repository", "indentation"},
  customer_records     |-> {"customer_id", "ticket", "contact"},
  health_data          |-> {"patient_id", "clinical", "medication"},
  legal_text           |-> {"privilege", "contract", "litigation", "matter"},
  internal_identifiers |-> {"labeled_id", "private_ip", "hostname", "internal_ticket"},
  personal_data        |-> {"email", "phone", "dob", "address", "national_id"},
  financial_data       |-> {"card", "bank", "payroll", "tax", "payment_secret"}]

Pattern == UNION {Patterns[c] : c \in Category}

(* The categories with at least one match: runDetectors drops the others.    *)
Matched(found) == {c \in Category : Patterns[c] \cap found # {}}

At(c, found) == Patterns[c] \cap found

(* Both customer-identifier reasons are pushed together, one for the others. *)
CustomerReasons(found) ==
  Cardinality(At("customer_records", found)) + (IF "customer_id" \in found THEN 1 ELSE 0)

HealthRecord(found) == "patient_id" \in found /\ found \cap {"clinical", "medication"} # {}

StrongSecret(found) == At("secrets", found) \ {"entropy"} # {}

(* The entropy scan adds 45 to a strong secret, capped at 100, and stands    *)
(* alone at 45.                                                              *)
SecretScore(found) ==
  CASE StrongSecret(found) /\ "entropy" \in found -> 100
    [] StrongSecret(found) /\ "entropy" \notin found -> 90
    [] OTHER -> 45

SourceCodeScore(found) == IF found \cap {"fence", "stack_trace"} # {} THEN 45 ELSE 35

PersonalDataScore(found) == IF Cardinality(At("personal_data", found)) >= 2 THEN 25 ELSE 15

RiskScore(c, found) ==
  CASE c = "secrets"              -> SecretScore(found)
    [] c = "source_code"          -> SourceCodeScore(found)
    [] c = "customer_records"     -> IF CustomerReasons(found) >= 2 THEN 50 ELSE 0
    [] c = "health_data"          -> IF HealthRecord(found) THEN 80 ELSE 20
    [] c = "legal_text"           -> 50
    [] c = "internal_identifiers" -> 15
    [] c = "personal_data"        -> PersonalDataScore(found)
    [] c = "financial_data"       -> 80

CombineScores(found) ==
  LET total == MapThenSumSet(LAMBDA c : RiskScore(c, found), Matched(found))
  IN  IF total > 100 THEN 100 ELSE total

ActionFromThresholds(score, policy) ==
  CASE score >= policy.block_score                                        -> "BLOCK"
    [] score < policy.block_score /\ score >= policy.redirect_score       -> "REDIRECT"
    [] score < policy.redirect_score /\ score < policy.block_score
         /\ score >= policy.warn_score                                    -> "WARN"
    [] OTHER                                                              -> policy.default_action

StrongestAction(actions) ==
  CHOOSE a \in actions \cup {"ALLOW"} :
    \A b \in actions \cup {"ALLOW"} : ActionRank[b] <= ActionRank[a]

ApplyPolicyMode(action, mode) ==
  CASE mode = "observe"                                             -> "ALLOW"
    [] mode = "warn" /\ ActionRank[action] > ActionRank["WARN"]     -> "WARN"
    [] OTHER                                                        -> action

(* The action for a score and a set of matched categories (decideAction and  *)
(* the same expression inlined in scanPrompt).                               *)
DecideAction(score, categories, policy) ==
  ApplyPolicyMode(
    StrongestAction({ActionFromThresholds(score, policy)}
                      \cup {policy.category_actions[c] : c \in categories}),
    policy.mode)

ScanAction(found, policy) == DecideAction(CombineScores(found), Matched(found), policy)

(* What validatePolicy accepts: strictly increasing thresholds, any default. *)
PolicyValid(policy) ==
  /\ policy.mode \in Mode
  /\ policy.default_action \in Action
  /\ policy.category_actions \in [Category -> Action]
  /\ policy.warn_score \in 0..100
  /\ policy.redirect_score \in 0..100
  /\ policy.block_score \in 0..100
  /\ policy.block_score > policy.redirect_score
  /\ policy.redirect_score > policy.warn_score
=============================================================================
