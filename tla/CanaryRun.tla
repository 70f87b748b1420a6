------------------------------ MODULE CanaryRun ------------------------------
(* rag-permission-canary: one pack generated for a policy and run against an *)
(* endpoint, which may answer anything or nothing; the verdict on the run,   *)
(* and the boundary table made from it.                                      *)
EXTENDS CanaryPolicy

CONSTANTS Policies, Options, Responses

ASSUME ResponsesAssumption ==
  \A r \in Responses : r.kind \in {"json", "opaque", "auth", "error"}

(* Both are integers of the command line; a negative max_queries, which       *)
(* would cut cases off the pack's end, is left out.                          *)
ASSUME OptionsAssumption ==
  \A o \in Options : o.perUser \in Int /\ o.maxQueries \in Nat

VARIABLES
  policy, opts,  \* the policy, and the options of generate and run
  phase,         \* "generate", "refused", "run", "done" or "raised"
  pack,          \* the test cases
  results        \* of each case run: its case, status and response

vars == <<policy, opts, phase, pack, results>>

NoResponse == [kind |-> "none", shown |-> {}, context |-> {}, tagged |-> FALSE, echoed |-> FALSE, answered |-> FALSE]

Init ==
  /\ policy \in Policies /\ opts \in Options
  /\ phase = "generate" /\ pack = <<>> /\ results = <<>>

-----------------------------------------------------------------------------
(* A strict generation wants its number of cases, and some of either kind.   *)
(* The run takes the first max_queries of them.                              *)
Generate ==
  /\ phase = "generate"
  /\ LET cases == Pack(policy, opts.perUser)
         refused ==
           /\ opts.strict
           /\ \/ Insufficient(policy, opts.perUser)
              \/ AllowedPart(policy, opts.perUser) = <<>>
              \/ ForbiddenPart(policy, opts.perUser) = <<>>
     IN  IF refused THEN phase' = "refused" /\ UNCHANGED pack
         ELSE phase' = "run" /\ pack' = UpTo(opts.maxQueries, cases)
  /\ UNCHANGED <<policy, opts, results>>

Running == phase = "run" /\ Len(results) < Len(pack)
current == pack[Len(results) + 1]

Record(status, response) ==
  /\ results' = Append(results, [case |-> current, status |-> status, response |-> response])
  /\ UNCHANGED <<policy, opts, phase, pack>>

(* A dry run, a run without network, or a user the run does not have.        *)
Skipped == ~opts.network \/ current.user \notin opts.known

SkipCase == Running /\ Skipped /\ Record("SKIPPED", NoResponse)

(* A strict run gives up where the token of a user is missing.               *)
TokenMissing ==
  /\ Running /\ ~Skipped
  /\ opts.strict /\ current.user \notin opts.tokens
  /\ phase' = "raised"
  /\ UNCHANGED <<policy, opts, pack, results>>

SendCase ==
  /\ Running /\ ~Skipped
  /\ ~opts.strict \/ current.user \in opts.tokens
  /\ \E response \in Responses :
       Record(StatusOf(policy, opts.strict, current, response), response)

Finish ==
  /\ phase = "run" /\ Len(results) = Len(pack)
  /\ phase' = "done"
  /\ UNCHANGED <<policy, opts, pack, results>>

Next == Generate \/ SkipCase \/ TokenMissing \/ SendCase \/ Finish

Spec == Init /\ [][Next]_vars

-----------------------------------------------------------------------------
All == {results[i] : i \in DOMAIN results}

Has(status) == \E r \in All : r.status = status

PassedBothWays(user) ==
  {"ALLOWED", "FORBIDDEN"} \subseteq
    {r.case.expected : r \in {r \in All : r.status = "PASS" /\ r.case.user = user}}

(* Mutant: the passes of all users count together.                           *)
AggregateTogether ==
  IF results = <<>> THEN "INSUFFICIENT_DATA"
  ELSE IF Has("FAIL") THEN "FAIL"
  ELSE IF Has("REVIEW") \/ Has("SKIPPED") THEN "REVIEW"
  ELSE IF \E r, s \in All : r.case.expected = "ALLOWED" /\ s.case.expected = "FORBIDDEN"
    THEN "PASS" ELSE "REVIEW"

Aggregate ==
  IF results = <<>> THEN "INSUFFICIENT_DATA"
  ELSE IF Has("FAIL") THEN "FAIL"
  ELSE IF Has("REVIEW") \/ Has("SKIPPED") THEN "REVIEW"
  ELSE IF \A r \in All : PassedBothWays(r.case.user) THEN "PASS" ELSE "REVIEW"

ReleaseDecision ==
  IF Aggregate = "PASS" THEN "ALLOW_NEXT_STAGE"
  ELSE IF Aggregate = "FAIL" THEN "BLOCK_RELEASE"
  ELSE IF Aggregate = "REVIEW" THEN "HUMAN_REVIEW_REQUIRED"
  ELSE "INSUFFICIENT_DATA"

(* The exit code of generate, or of the run that followed.                   *)
ExitCode ==
  IF phase = "refused" THEN IF Insufficient(policy, opts.perUser) THEN 2 ELSE 1
  ELSE IF phase = "raised" THEN 1
  ELSE IF Aggregate = "FAIL" THEN 2
  ELSE IF Aggregate = "REVIEW" /\ opts.failOnReview THEN 3 ELSE 0

(* The access matrix and the boundary table: a failed case is booked on its  *)
(* target, whichever document leaked.                                        *)
LeakFound(user, doc) ==
  \E r \in All : r.status = "FAIL" /\ r.case.user = user /\ r.case.target = doc

EvidenceMissing(user, doc) ==
  /\ ExpectedAccess(policy, user, doc) = "ALLOWED"
  /\ \E i \in DOMAIN pack : pack[i] = [user |-> user, target |-> doc, expected |-> "ALLOWED"]
  /\ ~\E r \in All : /\ r.case = [user |-> user, target |-> doc, expected |-> "ALLOWED"]
                     /\ r.status = "PASS"

(* Mutant: a boundary whose evidence is missing is looked at first.          *)
ReviewBeforeFail(user, collection) ==
  LET docs == {d \in Docs : Collection[d] = collection}
  IN  IF \E d \in docs : EvidenceMissing(user, d) THEN "REVIEW"
      ELSE IF \E d \in docs : LeakFound(user, d) THEN "FAIL"
      ELSE IF \E i \in DOMAIN pack : pack[i].user = user /\ pack[i].target \in docs
        THEN "PASS" ELSE "UNTESTED"

Boundary(user, collection) ==
  LET docs == {d \in Docs : Collection[d] = collection}
  IN  IF \E d \in docs : LeakFound(user, d) THEN "FAIL"
      ELSE IF \E d \in docs : EvidenceMissing(user, d) THEN "REVIEW"
      ELSE IF \E i \in DOMAIN pack : pack[i].user = user /\ pack[i].target \in docs
        THEN "PASS" ELSE "UNTESTED"

Boundaries == {Boundary(u, Collection[d]) : u \in Users, d \in Docs}

-----------------------------------------------------------------------------
(* A finished run in which the endpoint gave a user, in a surface the runner *)
(* reads, evidence of any document the policy forbids that user, blocks the  *)
(* release and ends with code 2, whichever case it happened in               *)
(* (leakage_detect.py: detect_leakage, scoring.py: _aggregate).              *)
LeakBlocksRelease ==
  phase = "done" =>
    \A r \in All :
      /\ r.response.kind = "json"
      /\ (r.response.shown \cup r.response.context) \cap ForbiddenDocs(policy, r.case.user) # {}
      => ReleaseDecision = "BLOCK_RELEASE" /\ ExitCode = 2

(* A release is let through only when every case was sent, and every user    *)
(* tested had the evidence of an allowed document, or the query, come back   *)
(* in one case, and in another asked in vain for a forbidden one             *)
(* (scoring.py: _aggregate).                                                 *)
ReleaseNeedsBothWays ==
  phase = "done" /\ ReleaseDecision = "ALLOW_NEXT_STAGE" =>
    /\ Len(results) = Len(pack)
    /\ \A r \in All : r.response.kind \in {"json", "opaque"}
    /\ \A r \in All :
         /\ \E s \in All :
              /\ s.case.user = r.case.user /\ s.case.expected = "ALLOWED"
              /\ s.case.target \in s.response.shown \/ s.response.echoed
         /\ \E s \in All :
              /\ s.case.user = r.case.user /\ s.case.expected = "FORBIDDEN"
              /\ s.response.kind = "json" => s.case.target \notin s.response.shown

(* A denied document is never the target of an allowed case, except where    *)
(* rules for users come first and one of them grants it (permissions.py:     *)
(* expected_access, canary_generate.py: generate_canary_pack).               *)
DeniedIsNeverAllowed ==
  \A i \in DOMAIN pack : pack[i].expected = "ALLOWED" =>
    LET user == pack[i].user  doc == pack[i].target
    IN  \/ Matching(policy.denies, user, doc) = {}
        \/ /\ policy.userFirst
           /\ OfUser(Matching(policy.grants, user, doc)) # {}
           /\ OfUser(Matching(policy.denies, user, doc)) = {}

Whole == phase \in {"run", "done"} /\ opts.maxQueries >= TargetTotal(opts.perUser)

(* The boundary table of a pack run whole shows a failed boundary exactly    *)
(* when the run fails, and a passed run leaves none to review                *)
(* (access_matrix.py: build_boundary_coverage, scoring.py: _aggregate).      *)
BoundariesAgree ==
  phase = "done" /\ Whole =>
    /\ ("FAIL" \in Boundaries) <=> (Aggregate = "FAIL")
    /\ Aggregate = "PASS" => "REVIEW" \notin Boundaries
=============================================================================
