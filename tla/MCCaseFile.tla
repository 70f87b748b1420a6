----------------------------- MODULE MCCaseFile -----------------------------
(* Two processes that may overlap, and the records that tell cases apart:    *)
(* complete and bare ones, reviews that agree or not.                        *)
EXTENDS CaseFile, TLC

CONSTANTS p1, p2

MCReviews == {[fit |-> "PASS", score |-> 90], [fit |-> "FAIL", score |-> 30]}

(* --status alone scores 70; a file with nothing but a status scores 40.     *)
MCOutcomes ==
  {[status |-> "success", score |-> 40], [status |-> "storage_failure", score |-> 70],
   [status |-> "neutral", score |-> 100]}

Symmetry == Permutations(Processes)
=============================================================================
