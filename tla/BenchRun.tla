------------------------------ MODULE BenchRun ------------------------------
(* The run of inference-placement-bench: http_client.run_benchmark_plan with *)
(* its pool of threads, the simulator's transport, and the recommendation.   *)
(*                                                                           *)
(* The requests of an endpoint are its jobs 1 .. warmups + measured.  A job  *)
(* is taken up by the main thread (warmups) or by a worker, reaches the      *)
(* endpoint or the simulator, and is answered; jobs in flight do so in any   *)
(* order.  The simulator decides by the number the request gets on arrival;  *)
(* a real endpoint answers as it likes, and a stream need never end, since   *)
(* the timeout is one of each read.                                          *)
EXTENDS BenchPolicy

CONSTANTS Inputs,    \* the plans and command lines a run may have
          Latencies  \* bound: the latencies a request may take

ASSUME LatenciesAssumption == Latencies \subseteq Nat

(* An input has the plan, the options it was planned with, and those of the  *)
(* run; a plan is one that build_plan makes.                                 *)
ASSUME InputsAssumption ==
  \A in \in Inputs :
    /\ in.plan = BuildPlan(in.plan.endpoints, in.plan.workload, in.plan.constraints, in.planned)
    /\ Len(in.plan.endpoints) \in Nat /\ DOMAIN in.plan.endpoints = 1 .. Len(in.plan.endpoints)
    /\ in.plan.warmups \in Nat /\ in.plan.measured \in Nat
    /\ {in.plan.constraints.targets.p95, in.plan.constraints.targets.errorPct, in.plan.constraints.targets.timeoutPct} \subseteq Int

VARIABLES
  input,          \* the plan, and the options of the run
  phase,          \* "measuring", "measured", "recommended" or how it ended early
  at,             \* the endpoint being measured
  job,            \* of each job of that endpoint: "waiting", "taken", "sent" or "done"
  number,         \* of each of these jobs: its number at the simulator
  counts,         \* of each endpoint: how many requests the simulator has had for it
  samples,        \* the samples taken
  results,        \* of each endpoint measured so far: its status and metrics
  recommendation, \* what was recommended
  contacted       \* (history) the endpoints to whose host a request went out

vars == <<input, phase, at, job, number, counts, samples, results, recommendation, contacted>>

-----------------------------------------------------------------------------
plan == input.plan

Endpoints == DOMAIN plan.endpoints

Jobs == 1 .. plan.warmups + plan.measured

Measured(j) == j > plan.warmups

(* SimulatorTransport: one endpoint for each host, the last one with an      *)
(* enabled simulator; it replaces the network for every endpoint as soon as  *)
(* the plan has one.                                                         *)
Simulated == {i \in Endpoints : plan.endpoints[i].simulator # None}

Servers(i) == {s \in Simulated : plan.endpoints[s].host = plan.endpoints[i].host}

Server(i) == CHOOSE s \in Servers(i) : \A t \in Servers(i) : t <= s

(* _deterministic_hit: every k-th request, where k is 100 / rate rounded to  *)
(* the nearest, at a half to the even neighbour.                             *)
Hit(rate, n) ==
  LET low == 100 \div rate
      twice == 2 * (100 % rate)
      period == IF twice > rate \/ (twice = rate /\ low % 2 = 1) THEN low + 1 ELSE low
  IN  IF rate = 0 THEN FALSE ELSE rate >= 100 \/ n % period = 0

(* What the n-th request of a simulated endpoint comes to.                   *)
SimulatedStatus(server, n) ==
  IF Hit(server.simulator.timeoutRate, n) THEN "TIMEOUT"
  ELSE IF Hit(server.simulator.errorRate, n) THEN "ERROR" ELSE "SUCCESS"

(* A stream in answer to a client that expects JSON does not parse; JSON in  *)
(* answer to one that expects a stream has no events, hence no text.         *)
SimulatedAnswer(endpoint, server, n, latency) ==
  LET status == SimulatedStatus(server, n)
      read == IF status = "SUCCESS" /\ server.mode = "streaming" /\ endpoint.mode # "streaming"
                THEN "ERROR" ELSE status
  IN  [status |-> read, latency |-> latency,
       text |-> read = "SUCCESS" /\ server.mode = endpoint.mode,
       exact |-> read = "SUCCESS" /\ server.mode = endpoint.mode]

NoServerAnswer(latency) == [status |-> "ERROR", latency |-> latency, text |-> FALSE, exact |-> FALSE]

AuthMissingAnswer == NoServerAnswer(NoTime)

NetworkAnswer ==
  {[status |-> "SUCCESS", latency |-> l, text |-> t, exact |-> e] : l \in Latencies, t, e \in BOOLEAN}
  \cup {[status |-> s, latency |-> l, text |-> FALSE, exact |-> FALSE] : s \in {"ERROR", "TIMEOUT"}, l \in Latencies}

(* How the request of job j of endpoint i may be answered.                   *)
Answers(i, j) ==
  IF Simulated = {} THEN NetworkAnswer
  ELSE IF Servers(i) = {} THEN {NoServerAnswer(l) : l \in Latencies}
  ELSE {SimulatedAnswer(plan.endpoints[i], plan.endpoints[Server(i)], number[j], l) : l \in Latencies}

-----------------------------------------------------------------------------
TypeOK ==
  /\ input \in Inputs
  /\ phase \in {"measuring", "measured", "recommended", "refused", "crashed", "failed"}
  /\ at \in 1 .. Len(plan.endpoints) + 1
  /\ job \in [Jobs -> {"waiting", "taken", "sent", "done"}]
  /\ number \in [Jobs -> Nat]
  /\ counts \in [Endpoints -> Nat]
  /\ \A s \in samples : s.endpoint \in Endpoints /\ s.job \in Jobs
  /\ Len(results) = at - 1
  /\ recommendation = None \/ recommendation.endpoint \in Endpoints \cup {None}
  /\ contacted \subseteq Endpoints

NoJobs(in) == [j \in 1 .. in.plan.warmups + in.plan.measured |-> "waiting"]

NoNumbers(in) == [j \in 1 .. in.plan.warmups + in.plan.measured |-> 0]

Init ==
  /\ input \in Inputs
  /\ phase = "measuring" /\ at = 1
  /\ job = NoJobs(input) /\ number = NoNumbers(input)
  /\ counts = [i \in DOMAIN input.plan.endpoints |-> 0]
  /\ samples = {} /\ results = <<>>
  /\ recommendation = None /\ contacted = {}

Measuring == phase = "measuring" /\ at <= Len(plan.endpoints)

(* The command refuses a strict run of a plan without an eligible endpoint;  *)
(* run_benchmark_plan refuses one that would need the network, before it     *)
(* looks at any endpoint, unless the run is dry.                             *)
Refused ==
  \/ input.strict /\ plan.eligible = {}
  \/ input.noNetwork /\ Simulated = {} /\ ~input.dry

Refuse ==
  /\ phase = "measuring" /\ at = 1 /\ Refused
  /\ phase' = "refused"
  /\ UNCHANGED <<input, at, job, number, counts, samples, results, recommendation, contacted>>

(* EndpointResult: the status of an endpoint with its metrics.               *)
Entry(status, m) ==
  [status |-> status, measured |-> m.measured, success |-> m.success, error |-> m.error, p95 |-> m.p95]

Active(i) == ~Refused /\ i \in plan.eligible /\ ~input.dry

(* An endpoint that is not eligible, or in a dry run any, is entered into    *)
(* the results without a request.                                            *)
PassOver ==
  /\ Measuring /\ ~Refused /\ ~Active(at)
  /\ results' = Append(results, Entry(IF at \in plan.eligible THEN "ELIGIBLE_NOT_RUN" ELSE "INELIGIBLE",
                                      Aggregate({}, FALSE, FALSE)))
  /\ at' = at + 1
  /\ UNCHANGED <<input, phase, job, number, counts, samples, recommendation, contacted>>

(* Warm-ups take their prompts from those of the measured requests, modulo   *)
(* their number: without any, the division raises.                           *)
NoPrompts == plan.measured = 0 /\ plan.warmups > 0

Crash ==
  /\ Measuring /\ Active(at) /\ NoPrompts
  /\ phase' = "crashed"
  /\ UNCHANGED <<input, at, job, number, counts, samples, results, recommendation, contacted>>

(* Mutant: a worker that is done is not free again.                          *)
EverTaken == {k \in Jobs : job[k] # "waiting"}

InFlight == {k \in Jobs : job[k] \in {"taken", "sent"}}

(* Sequential unless the concurrency is above one.                           *)
Workers(j) == IF Measured(j) /\ plan.concurrency > 1 THEN plan.concurrency ELSE 1

Sample(j, answer) ==
  [endpoint |-> at, job |-> j, status |-> answer.status, latency |-> answer.latency,
   text |-> answer.text, exact |-> answer.exact]

(* execute_request starts: without credentials it ends there.                *)
Take(j) ==
  /\ Measuring /\ Active(at) /\ ~NoPrompts
  /\ job[j] = "waiting" /\ \A k \in 1 .. j - 1 : job[k] # "waiting"
  /\ Measured(j) => \A k \in 1 .. plan.warmups : job[k] = "done"
  /\ Cardinality(InFlight) < Workers(j)
  /\ IF plan.endpoints[at].auth = "missing"
       THEN /\ job' = [job EXCEPT ![j] = "done"]
            /\ samples' = samples \cup {Sample(j, AuthMissingAnswer)}
       ELSE /\ job' = [job EXCEPT ![j] = "taken"]
            /\ samples' = samples
  /\ UNCHANGED <<input, phase, at, number, counts, results, recommendation, contacted>>

(* Mutant: the count is read and raised without the lock, so that two        *)
(* requests in flight may get the same number.                               *)
CountUnlocked(n) == IF \E k \in Jobs : job[k] = "sent" THEN n ELSE n + 1

(* _next_count, under the lock.                                              *)
NextCount(n) == n + 1

(* The request reaches its transport.                                        *)
Send(j) ==
  /\ Measuring /\ job[j] = "taken"
  /\ job' = [job EXCEPT ![j] = "sent"]
  /\ IF Servers(at) # {}
       THEN /\ counts' = [counts EXCEPT ![Server(at)] = NextCount(@)]
            /\ number' = [number EXCEPT ![j] = NextCount(counts[Server(at)])]
       ELSE UNCHANGED <<counts, number>>
  /\ contacted' = IF Simulated = {} THEN contacted \cup {at} ELSE contacted
  /\ UNCHANGED <<input, phase, at, samples, results, recommendation>>

Answer(j) ==
  /\ Measuring /\ job[j] = "sent"
  /\ \E answer \in Answers(at, j) : samples' = samples \cup {Sample(j, answer)}
  /\ job' = [job EXCEPT ![j] = "done"]
  /\ UNCHANGED <<input, phase, at, number, counts, results, recommendation, contacted>>

MeasuredSamples(i) == {s \in samples : s.endpoint = i /\ Measured(s.job)}

(* All requests of an endpoint are answered: it is judged, and a strict run  *)
(* that meets a FAIL raises, with nothing written.                           *)
Score ==
  /\ Measuring /\ Active(at) /\ ~NoPrompts /\ \A j \in Jobs : job[j] = "done"
  /\ LET endpoint == plan.endpoints[at]
         targets == plan.constraints.targets
         metrics == Aggregate(MeasuredSamples(at), endpoint.mode = "streaming", input.countFailures)
     IN  \E speed \in Speeds(metrics, targets) :
           LET status == BenchmarkStatus(metrics, targets, input.minSuccess, speed, endpoint.priced)
           IN  IF input.strict /\ status = "FAIL"
                 THEN phase' = "failed" /\ UNCHANGED <<at, job, number, results>>
                 ELSE /\ results' = Append(results, Entry(status, metrics))
                      /\ at' = at + 1 /\ job' = NoJobs(input) /\ number' = NoNumbers(input)
                      /\ phase' = phase
  /\ UNCHANGED <<input, counts, samples, recommendation, contacted>>

(* The results are written.                                                  *)
Finish ==
  /\ phase = "measuring" /\ at > Len(plan.endpoints) /\ ~Refused
  /\ phase' = "measured"
  /\ UNCHANGED <<input, at, job, number, counts, samples, results, recommendation, contacted>>

Recommend ==
  /\ phase = "measured"
  /\ phase' = "recommended"
  /\ LET status == RecommendationStatus(results)
     IN  \E e \in IF status = "RECOMMENDED"
                    THEN Recommendable(results, plan.constraints.objective) ELSE {None} :
           recommendation' = [status |-> status, endpoint |-> e]
  /\ UNCHANGED <<input, at, job, number, counts, samples, results, contacted>>

-----------------------------------------------------------------------------
Next ==
  \/ Refuse \/ Crash \/ PassOver \/ Score \/ Finish \/ Recommend
  \/ \E j \in Jobs : Take(j) \/ Send(j) \/ Answer(j)

(* The runner's own steps are taken, and the simulator answers; a real       *)
(* endpoint may keep a request for ever.                                     *)
Run == Refuse \/ Crash \/ PassOver \/ Score \/ Finish \/ \E j \in Jobs : Take(j) \/ Send(j)

SimulatorAnswer == Simulated # {} /\ \E j \in Jobs : Answer(j)

Spec == Init /\ [][Next]_vars /\ WF_vars(Run) /\ WF_vars(SimulatorAnswer)
-----------------------------------------------------------------------------
(* A prompt leaves the machine only in a run that is neither dry nor kept    *)
(* off the network, with credentials, and only for a place the constraints   *)
(* allow: the declared one if there is one, in every respect they list; an   *)
(* undeclared one only where no declaration is asked for (constraints.py,    *)
(* validators.py and the runner, over a whole run).                          *)
SentOnlyWhereAllowed ==
  \A i \in contacted :
    LET endpoint == plan.endpoints[i]
        rules == plan.constraints.location
    IN  /\ ~input.dry /\ ~input.noNetwork
        /\ endpoint.auth # "missing" /\ endpoint.url # "bad"
        /\ \/ endpoint.location = None /\ ~rules.required
           \/ /\ endpoint.location # None
              /\ \A f \in LocationField : rules.allowed[f] # {} => endpoint.location[f] \in rules.allowed[f]

(* The measured endpoints whose requests the simulator numbers for s, of     *)
(* those before i.                                                           *)
NumberedBefore(s, i) ==
  {k \in 1 .. i - 1 : /\ k \in plan.eligible /\ plan.endpoints[k].auth # "missing"
                      /\ Servers(k) # {} /\ Server(k) = s}

FirstNumber(i) == Cardinality(NumberedBefore(Server(i), i)) * Cardinality(Jobs) + plan.warmups

(* The simulator is repeatable (docs/architecture.md:30): however the        *)
(* workers overlap, how many measured requests of an endpoint time out, fail *)
(* or succeed there is settled by the plan.                                  *)
SimulatedCountsAreFixed ==
  \A i \in DOMAIN results :
    results[i].measured > 0 /\ Servers(i) # {} /\ plan.endpoints[i].auth # "missing"
      => \A status \in {"SUCCESS", "ERROR", "TIMEOUT"} :
           Cardinality(Having(MeasuredSamples(i), status))
             = Cardinality({n \in FirstNumber(i) + 1 .. FirstNumber(i) + plan.measured :
                 SimulatedAnswer(plan.endpoints[i], plan.endpoints[Server(i)], n, NoTime).status = status})

(* What was recommended is borne out by its own samples, whatever came of    *)
(* the other endpoints: it was eligible, enough of its requests succeeded,   *)
(* errors and timeouts kept to their targets, 95 of 100 of the requests that *)
(* count were within the target of the latency, and where the lowest latency *)
(* was asked for, no endpoint that passed with successes was faster          *)
(* throughout.                                                               *)
RecommendationIsEarned ==
  recommendation # None /\ recommendation.endpoint # None =>
    LET e == recommendation.endpoint
        targets == plan.constraints.targets
        taken(i) == MeasuredSamples(i)
        success(i) == Having(taken(i), "SUCCESS")
        counted == Timed(IF input.countFailures THEN taken(e) ELSE success(e))
        atMost(kind, target) == target = NoTarget \/ 100 * Cardinality(kind) <= target * plan.measured
    IN  /\ e \in plan.eligible
        /\ Cardinality(taken(e)) = plan.measured
        /\ Cardinality(success(e)) >= input.minSuccess
        /\ atMost(Having(taken(e), "ERROR"), targets.errorPct)
        /\ atMost(Having(taken(e), "TIMEOUT"), targets.timeoutPct)
        /\ targets.p95 # NoTarget =>
             100 * Cardinality({s \in counted : s.latency <= targets.p95}) >= 95 * Cardinality(counted)
        /\ plan.constraints.objective = "lowest_latency" /\ ~input.countFailures =>
             \A i \in Passing(results) \ {e} :
               success(i) # {} => \E s \in success(i), t \in success(e) : s.latency >= t.latency

(* A run that has a simulator ends: no request or worker waits for ever for  *)
(* another, whatever the concurrency.                                        *)
SimulatedRunEnds == Simulated # {} => <>(phase # "measuring")
=============================================================================
