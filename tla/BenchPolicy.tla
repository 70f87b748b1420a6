----------------------------- MODULE BenchPolicy -----------------------------
(* inference-placement-bench, the rules of a run: which endpoints a workload *)
(* may be sent to (validators.py, constraints.py) and the plan (plan.py);    *)
(* and what is made of the samples: metrics.py, scoring.py and the choice of *)
(* recommendation.py.                                                        *)
(*                                                                           *)
(* An endpoint profile is a record; None stands for a field left out.  A     *)
(* sample has a status, a latency (NoTime when none was taken), whether it   *)
(* carried text, and whether its tokens were counted by the endpoint.        *)
(* Latencies, rates and costs are integers.                                  *)
EXTENDS Integers, FiniteSets, SequencesExt

CONSTANT None

NoTime == -1

-----------------------------------------------------------------------------
(* Whether a declared label is in the list of a constraint; no list, or an   *)
(* empty one, allows all labels, an undeclared one included.                 *)
InList(label, allowed) == allowed = {} \/ label \in allowed

(* The field of the location each list of the constraints is about.          *)
LocationField == {"country", "region", "zone", "operator"}

DeclaredLocationAllowed(location, rules) ==
  IF location = None
    THEN ~rules.required
    ELSE \A f \in LocationField : InList(location[f], rules.allowed[f])

(* url: "https", "lab" (http to a local host) or "bad" (any other).          *)
UrlAllowed(endpoint) == endpoint.url \in {"https", "lab"}

(* The environment variable of the credentials is looked up only in a strict *)
(* plan.                                                                     *)
AuthConfigValid(endpoint, strict) == ~strict \/ endpoint.auth # "missing"

StreamingSupported(endpoint, workload) ==
  workload.streaming => endpoint.streaming /\ endpoint.mode = "streaming"

(* needed <= offered, where either may be undeclared.                        *)
Fits(needed, offered) ==
  IF needed = None \/ offered = None THEN TRUE ELSE needed <= offered

ImplementedTypes == {"chat_text", "completion_text", "embedding"}

WorkloadTypeSupported(endpoint, workload) ==
  workload.type \in endpoint.types \cap ImplementedTypes

EndpointEligible(endpoint, workload, rules, strict) ==
  /\ UrlAllowed(endpoint)
  /\ ~endpoint.authHeaderOverride
  /\ AuthConfigValid(endpoint, strict)
  /\ WorkloadTypeSupported(endpoint, workload)
  /\ StreamingSupported(endpoint, workload)
  /\ Fits(workload.context, endpoint.context)
  /\ strict => Fits(workload.output, endpoint.output)
  /\ DeclaredLocationAllowed(endpoint.location, rules)

(* The number of measured requests: --max-requests only lowers what the      *)
(* workload says, and is not checked to be positive.                         *)
MeasuredRequests(workload, limit) ==
  IF limit = None \/ limit >= workload.measured THEN workload.measured ELSE limit

(* The plan of a command line.  Endpoints are named by their position.       *)
BuildPlan(endpoints, workload, constraints, options) ==
  [endpoints |-> endpoints,
   workload |-> workload,
   constraints |-> constraints,
   eligible |-> {i \in DOMAIN endpoints :
                   EndpointEligible(endpoints[i], workload, constraints.location, options.strict)},
   warmups |-> workload.warmups,
   measured |-> MeasuredRequests(workload, options.limit),
   concurrency |-> workload.concurrency]

-----------------------------------------------------------------------------
Having(samples, status) == {s \in samples : s.status = status}

Timed(samples) == {s \in samples : s.latency # NoTime}

CeilDiv(a, b) == (a + b - 1) \div b

(* The value with that rank in the sorted latencies: the least that so many  *)
(* of them do not exceed.                                                    *)
AtRank(samples, rank) ==
  Min({v \in {s.latency : s \in samples} : Cardinality({s \in samples : s.latency <= v}) >= rank})

(* Mutant: the rank is rounded down.                                         *)
PercentileRoundedDown(samples, pct) ==
  IF samples = {} THEN NoTime ELSE AtRank(samples, (pct * Cardinality(samples)) \div 100)

(* percentile: nearest rank in the sorted latencies.                         *)
Percentile(samples, pct) ==
  IF samples = {} THEN NoTime ELSE AtRank(samples, CeilDiv(pct * Cardinality(samples), 100))

(* aggregate_samples over the measured samples of one endpoint.  The first   *)
(* token of a stream is taken to come with its only chunk, so at its end;    *)
(* without text there is none.                                               *)
Aggregate(samples, streaming, countFailures) ==
  LET success == Having(samples, "SUCCESS")
  IN  [measured |-> Cardinality(samples),
       success  |-> Cardinality(success),
       error    |-> Cardinality(Having(samples, "ERROR")),
       timeout  |-> Cardinality(Having(samples, "TIMEOUT")),
       p95      |-> Percentile(Timed(IF countFailures THEN samples ELSE success), 95),
       firstP95 |-> Percentile({s \in success : streaming /\ s.text}, 95),
       exact    |-> \E s \in success : s.exact]

-----------------------------------------------------------------------------
(* _worse over a set of verdicts.                                            *)
Worst(verdicts) ==
  IF "FAIL" \in verdicts THEN "FAIL" ELSE IF "REVIEW" \in verdicts THEN "REVIEW" ELSE "PASS"

(* _threshold_upper with a margin of 10 %; NoTarget when none is set.        *)
NoTarget == -1

ThresholdUpper(value, target) ==
  IF target = NoTarget THEN "PASS"
  ELSE IF value = NoTime THEN "REVIEW"
  ELSE IF value <= target THEN "PASS"
  ELSE IF 100 * value <= 110 * target THEN "REVIEW" ELSE "FAIL"

(* count / measured as a percentage against its target.                      *)
RateMissed(count, measured, target) == target # NoTarget /\ 100 * count > target * measured

AllOneWay(m) == m.success = 0 /\ (m.timeout = m.measured \/ m.error = m.measured)

(* evaluate_benchmark_status.  speed is the verdict on the throughput, which *)
(* the clock decides; economics says whether there is a rate card.           *)
BenchmarkStatus(m, targets, minSuccess, speed, economics) ==
  IF m.measured = 0 THEN "ELIGIBLE_NOT_RUN"
  ELSE IF AllOneWay(m) \/ RateMissed(m.error, m.measured, targets.errorPct)
                       \/ RateMissed(m.timeout, m.measured, targets.timeoutPct)
    THEN "FAIL"
    ELSE LET enough  == IF m.success >= minSuccess THEN "PASS" ELSE "REVIEW"
             counted == IF m.success > 0 /\ ~m.exact THEN "REVIEW" ELSE "PASS"
             priced  == IF economics THEN "PASS" ELSE "REVIEW"
         IN  Worst({enough, ThresholdUpper(m.p95, targets.p95), ThresholdUpper(m.firstP95, targets.firstP95),
                    speed, counted, priced})

(* What the throughput may turn out to be: nothing per second when nothing   *)
(* succeeded.                                                                *)
Speeds(m, targets) ==
  IF ~targets.throughput THEN {"PASS"} ELSE IF m.success = 0 THEN {"FAIL"} ELSE {"PASS", "REVIEW", "FAIL"}

-----------------------------------------------------------------------------
(* build_recommendation: the status, from those of the endpoints.            *)
RecommendationStatus(results) ==
  LET seen == {results[i].status : i \in DOMAIN results}
  IN  IF seen = {} THEN "INSUFFICIENT_DATA"
      ELSE IF "PASS" \in seen THEN "RECOMMENDED"
      ELSE IF "REVIEW" \in seen THEN "NO_CLEAR_WINNER_REVIEW_REQUIRED"
      ELSE IF "ELIGIBLE_NOT_RUN" \in seen THEN "INSUFFICIENT_DATA"
      ELSE "NO_ENDPOINT_MEETS_CONSTRAINTS"

Passing(results) == {i \in DOMAIN results : results[i].status = "PASS"}

(* _none_high: an endpoint without a latency comes last.                     *)
NoFaster(a, b) == b.p95 = NoTime \/ (a.p95 # NoTime /\ a.p95 <= b.p95)

(* _choose_pass_endpoint.  For lowest_latency the least p95, then the least  *)
(* error rate; ties go by id, so either way.  The other objectives weigh     *)
(* throughput and costs, and may choose any that passes.                     *)
Recommendable(results, objective) ==
  LET passing == Passing(results)
      fastest == {i \in passing : \A j \in passing : NoFaster(results[i], results[j])}
  IN  IF objective = "lowest_latency"
        THEN {i \in fastest : \A j \in fastest :
                results[i].error * results[j].measured <= results[j].error * results[i].measured}
        ELSE passing
=============================================================================
