----------------------------- MODULE MCBenchRun -----------------------------
(* Plans of one or two endpoints, real and simulated, with up to four        *)
(* measured requests and three workers.                                      *)
EXTENDS BenchRun

Home == [country |-> "CA", region |-> "east", zone |-> "z1", operator |-> "customer"]

Abroad == [Home EXCEPT !.country = "US"]

Plain ==
  [url |-> "https", authHeaderOverride |-> FALSE, auth |-> "none", types |-> {"chat_text"},
   streaming |-> TRUE, mode |-> "non_streaming", context |-> 8, output |-> None,
   location |-> Home, host |-> "a", simulator |-> None, priced |-> TRUE]

At(host, timeoutRate, errorRate) ==
  [Plain EXCEPT !.host = host, !.simulator = [timeoutRate |-> timeoutRate, errorRate |-> errorRate]]

Rules ==
  [required |-> FALSE,
   allowed |-> [country |-> {"CA"}, region |-> {}, zone |-> {}, operator |-> {"customer", "partner"}]]

Targets == [p95 |-> 10, firstP95 |-> NoTarget, errorPct |-> 40, timeoutPct |-> 40, throughput |-> FALSE]

Constraints == [location |-> Rules, targets |-> Targets, objective |-> "lowest_latency"]

Chat ==
  [type |-> "chat_text", streaming |-> FALSE, context |-> 4, output |-> 2,
   warmups |-> 1, measured |-> 3, concurrency |-> 2]

Build(endpoints, workload, constraints, strict, limit) ==
  LET planned == [strict |-> strict, limit |-> limit]
  IN  [plan |-> BuildPlan(endpoints, workload, constraints, planned), planned |-> planned]

Options ==
  [dry |-> FALSE, noNetwork |-> FALSE, strict |-> FALSE, minSuccess |-> 2, countFailures |-> FALSE]

With(plans, options) == {p @@ o : p \in plans, o \in options}

(* Simulated: two hosts, and one host twice, in different modes.             *)
SimulatedPlans ==
  {Build(<<At("a", 34, 0), At("b", 0, 40)>>, Chat, Constraints, FALSE, None),
   Build(<<At("a", 20, 50)>>, [Chat EXCEPT !.measured = 4, !.concurrency = 3], Constraints, FALSE, None),
   Build(<<At("a", 50, 34), [At("a", 0, 34) EXCEPT !.mode = "streaming"]>>, Chat, Constraints, FALSE, None)}

(* Real: one abroad, one undeclared, one without credentials.                *)
RealPlans ==
  {Build(<<Plain, [Plain EXCEPT !.host = "b", !.location = Abroad]>>, [Chat EXCEPT !.warmups = 0, !.measured = 2], Constraints, FALSE, None),
   Build(<<[Plain EXCEPT !.location = None], [Plain EXCEPT !.auth = "missing", !.host = "b"]>>,
         [Chat EXCEPT !.warmups = 0], Constraints, FALSE, 2)}

(* A stream with all targets set.                                            *)
StreamPlans ==
  {Build(<<[Plain EXCEPT !.mode = "streaming"]>>, [Chat EXCEPT !.streaming = TRUE, !.warmups = 0, !.measured = 2],
         [Constraints EXCEPT !.targets.firstP95 = 10, !.targets.throughput = TRUE, !.objective = "balanced"], FALSE, None)}

(* One real endpoint beside a simulated one, and a limit of no request.      *)
MixedPlans ==
  {Build(<<At("a", 0, 0), [Plain EXCEPT !.host = "b"]>>, [Chat EXCEPT !.measured = 2], Constraints, TRUE, None),
   Build(<<At("a", 0, 0)>>, Chat, Constraints, FALSE, 0)}

MCInputs ==
  With(SimulatedPlans, {Options, [Options EXCEPT !.noNetwork = TRUE, !.strict = TRUE, !.minSuccess = 1]})
  \cup With(RealPlans, {Options, [Options EXCEPT !.noNetwork = TRUE], [Options EXCEPT !.dry = TRUE, !.noNetwork = TRUE],
                        [Options EXCEPT !.strict = TRUE, !.countFailures = TRUE, !.minSuccess = 1]})
  \cup With(StreamPlans \cup MixedPlans, {Options})
=============================================================================
