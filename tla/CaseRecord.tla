----------------------------- MODULE CaseRecord -----------------------------
(* stateful-storage-fit: a corpus case, what each command makes of the case  *)
(* it has loaded, and what validate-case, evaluate-corpus and the quality    *)
(* gate conclude from it.  Of a review, an outcome and an impact only what   *)
(* these conclusions use is kept: its status and its quality score.          *)
EXTENDS Integers, Sequences, Functions

Fit == {"PASS", "REVIEW", "FAIL"}
NoFit == "none"
Review == [fit : Fit, score : 0..100]
Outcome == [status : {"success", "storage_failure", "neutral"}, score : 0..100]
Life == {"unknown", "created", "engine_analyzed", "review_in_progress", "expert_reviewed",
         "needs_adjudication", "adjudicated", "awaiting_outcome", "outcome_linked"}

(* described: the case has its id, origins, profile and engine decision.     *)
Case ==
  [described : BOOLEAN, origin : {"real", "generated", "unknown"}, reviews : Seq(Review),
   adjudication : Fit \cup {NoFit}, outcomes : Seq(Outcome), impacts : Nat, life : Life]

(* What an empty file loads as: a case with no field at all.                 *)
BlankCase ==
  [described |-> FALSE, origin |-> "unknown", reviews |-> <<>>, adjudication |-> NoFit,
   outcomes |-> <<>>, impacts |-> 0, life |-> "unknown"]

(* A case made by create-case, of either origin, and the case template.      *)
NewCases ==
  {[BlankCase EXCEPT !.described = TRUE, !.origin = origin, !.life = "engine_analyzed"] :
     origin \in {"real", "generated"}}
  \cup {[BlankCase EXCEPT !.described = TRUE, !.origin = "real", !.life = "created"]}

-----------------------------------------------------------------------------
Consensus(reviews) ==
  IF reviews # <<>> /\ \A i \in DOMAIN reviews : reviews[i].fit = reviews[1].fit
    THEN reviews[1].fit ELSE NoFit

Decisive(outcome) == outcome.status # "neutral"

DecisiveOutcome(case) == \E i \in DOMAIN case.outcomes : Decisive(case.outcomes[i])

(* Mutant: the lifecycle is worked out from the reviews before this one.     *)
ReviewedLate(case, review) ==
  [case EXCEPT !.reviews = Append(@, review),
     !.life = IF Len(case.reviews) < 2 THEN "review_in_progress"
              ELSE IF Consensus(case.reviews) # NoFit THEN "expert_reviewed" ELSE "needs_adjudication"]

(* Mutant: a review replaces the reviews before it.                          *)
ReviewedAlone(case, review) ==
  [case EXCEPT !.reviews = <<review>>, !.life = "review_in_progress"]

WithReview(case, review) ==
  LET reviews == Append(case.reviews, review)
  IN  [case EXCEPT !.reviews = reviews,
         !.life = IF Len(reviews) < 2 THEN "review_in_progress"
                  ELSE IF Consensus(reviews) # NoFit THEN "expert_reviewed" ELSE "needs_adjudication"]

WithAdjudication(case, fit) == [case EXCEPT !.adjudication = fit, !.life = "adjudicated"]

WithOutcome(case, outcome) ==
  [case EXCEPT !.outcomes = Append(@, outcome),
     !.life = IF Decisive(outcome) THEN "outcome_linked"
              ELSE IF @ = "outcome_linked" THEN @ ELSE "awaiting_outcome"]

WithImpact(case) == [case EXCEPT !.impacts = @ + 1]

-----------------------------------------------------------------------------
(* The mean score of some records is 70 or more; of none it is 0.            *)
GoodQuality(records) ==
  /\ records # <<>>
  /\ FoldFunction(+, 0, [i \in DOMAIN records |-> records[i].score]) >= 70 * Len(records)

Agreed(case) == Len(case.reviews) >= 2 /\ Consensus(case.reviews) # NoFit

(* Mutant: an unknown origin is all the origin there is to check.            *)
KnownOriginOnly(case) == case.origin = "unknown"

Synthetic(case) == case.origin = "generated"

(* validate_case: trusted_label, calibration_ready and valid.                *)
TrustedLabel(case) ==
  /\ \/ case.adjudication # NoFit
     \/ Agreed(case) /\ GoodQuality(case.reviews)
  /\ ~Synthetic(case)

CalibrationReady(case) ==
  TrustedLabel(case) /\ DecisiveOutcome(case) /\ GoodQuality(case.outcomes)

(* Mutant: the fields of a case are not checked.                             *)
ValidUndescribed(case) ==
  Len(case.reviews) >= 2 /\ case.adjudication = NoFit => Consensus(case.reviews) # NoFit

Valid(case) ==
  /\ case.described
  /\ Len(case.reviews) >= 2 /\ case.adjudication = NoFit => Consensus(case.reviews) # NoFit

(* quality-gate, in the calibration mode, on the report of validate-case.    *)
CalibrationGate(case) == Valid(case) /\ CalibrationReady(case)

(* evaluate-corpus: its own source of the label, its trust in the case, and  *)
(* the status it takes the case to have.                                     *)
(* Mutant: reviews that disagree are looked at before outcomes.              *)
SourceReviewsFirst(case) ==
  IF Consensus(case.reviews) # NoFit THEN "expert_consensus"
  ELSE IF case.reviews # <<>> THEN "expert_reviewed_no_consensus"
  ELSE IF DecisiveOutcome(case) THEN "outcome_linked" ELSE "unlabelled"

LabelSource(case) ==
  IF DecisiveOutcome(case) THEN "outcome_linked"
  ELSE IF Consensus(case.reviews) # NoFit THEN "expert_consensus"
  ELSE IF case.reviews # <<>> THEN "expert_reviewed_no_consensus" ELSE "unlabelled"

TrustedInCorpus(case) ==
  /\ LabelSource(case) \in {"outcome_linked", "expert_consensus", "adjudicated"}
  /\ ~Synthetic(case)
  /\ case.described

ExpectedStatus(case) ==
  IF case.adjudication # NoFit THEN case.adjudication ELSE Consensus(case.reviews)
=============================================================================
