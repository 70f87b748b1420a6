-------------------------- MODULE CutoverDecision --------------------------
(* s3-compat-replay: from the statuses of the probes of a run to the         *)
(* compatibility summary, the cutover recommendation and the capability      *)
(* ledger.  A status of FAIL stands for a probe with a BLOCKER mismatch, and *)
(* REVIEW for one whose mismatches are all REVIEW.                           *)
EXTENDS Naturals, Sequences

Status     == {"PASS", "FAIL", "REVIEW", "SKIP"}
Confidence == {"LOW", "MEDIUM", "HIGH"}

Has(results, status) == \E i \in DOMAIN results : results[i] = status

(* The probes that count as required: a plan with none falls back to every   *)
(* probe but the static lifecycle review.                                    *)
RequiredIn(plan) ==
  LET marked == {i \in DOMAIN plan : plan[i].required}
  IN  IF marked # {} THEN marked
      ELSE {i \in DOMAIN plan : plan[i].id # "lifecycle_static_review"}

RequiredSkipped(plan, results) ==
  \E i \in RequiredIn(plan) \cap DOMAIN results : results[i] = "SKIP"

(* Mutant: a skipped required probe does not count.                          *)
SkipsForgiven(plan, results) ==
  CASE results = <<>>                                           -> "REVIEW"
    [] results # <<>> /\ Has(results, "FAIL")                   -> "FAIL"
    [] results # <<>> /\ ~Has(results, "FAIL") /\ Has(results, "REVIEW") -> "REVIEW"
    [] OTHER                                                    -> "PASS"

TargetStatus(plan, results) ==
  CASE results = <<>>                         -> "REVIEW"
    [] results # <<>> /\ Has(results, "FAIL") -> "FAIL"
    [] results # <<>> /\ ~Has(results, "FAIL")
         /\ (RequiredSkipped(plan, results) \/ Has(results, "REVIEW")) -> "REVIEW"
    [] OTHER                                  -> "PASS"

(* base: what confidence_from_profile makes of the source evidence.          *)
SummaryConfidence(base, results) ==
  CASE results = <<>>                                               -> "LOW"
    [] results # <<>> /\ Has(results, "SKIP") /\ base = "MEDIUM"    -> "LOW"
    [] results # <<>> /\ Has(results, "SKIP") /\ base # "MEDIUM"    -> "MEDIUM"
    [] OTHER                                                        -> base

Recommendation(plan, results, base) ==
  LET target == TargetStatus(plan, results)
  IN  CASE results = <<>>                       -> "REVIEW"
        [] results # <<>> /\ target = "FAIL"    -> "BLOCK"
        [] results # <<>> /\ target # "FAIL"
             /\ (target = "REVIEW" \/ SummaryConfidence(base, results) = "LOW") -> "REVIEW"
        [] OTHER                                -> "PROCEED_WITH_CAVEATS"

(* Mutant: a passed probe of the family hides a failed one.                  *)
PassWins(statuses) ==
  CASE "PASS" \in statuses -> "PASS"
    [] "PASS" \notin statuses /\ "FAIL" \in statuses -> "FAIL"
    [] statuses \cap {"PASS", "FAIL"} = {} /\ "REVIEW" \in statuses -> "REVIEW"
    [] statuses = {"SKIP"} -> "SKIP"
    [] OTHER -> "NOT_RUN"

AggregateStatus(statuses) ==
  CASE "FAIL" \in statuses                                                -> "FAIL"
    [] "FAIL" \notin statuses /\ "REVIEW" \in statuses                    -> "REVIEW"
    [] statuses \cap {"FAIL", "REVIEW"} = {} /\ "SKIP" \in statuses       -> "SKIP"
    [] statuses = {"PASS"}                                                -> "PASS"
    [] OTHER                                                              -> "NOT_RUN"

(* The worst severity of some mismatches.                                    *)
Worst(severities) ==
  CASE "BLOCKER" \in severities                             -> "BLOCKER"
    [] severities \cap {"BLOCKER", "REVIEW"} = {"REVIEW"}   -> "REVIEW"
    [] OTHER                                                -> "INFO"

(* The families of the ledger: those of the plan, those the usage profile    *)
(* shows and those a mismatch is booked on, whether or not they have probes. *)
LedgerFamilies(plan, observed, booked) ==
  {plan[i].family : i \in DOMAIN plan} \cup observed \cup {b[1] : b \in booked}

(* A row of the ledger: how the probes of the family went, and how bad the   *)
(* mismatches are that are booked on it, each a pair of family and severity. *)
Ledger(plan, results, observed, booked) ==
  [f \in LedgerFamilies(plan, observed, booked) |->
     [status   |-> AggregateStatus({IF i \in DOMAIN results THEN results[i] ELSE "NOT_RUN" :
                                      i \in {j \in DOMAIN plan : plan[j].family = f}}),
      severity |-> Worst({b[2] : b \in {c \in booked : c[1] = f}})]]
=============================================================================
