--------------------------- MODULE BenchRun_proof ---------------------------
(* What holds of every run of inference-placement-bench, for any endpoints,  *)
(* numbers of requests and workers.                                          *)
EXTENDS BenchRun, FiniteSetTheorems, FunctionTheorems, SequenceTheorems, WellFoundedInduction, TLAPS

(* A job in flight is one of an endpoint that may be measured.               *)
InFlightIsActive ==
  \A j \in Jobs : job[j] \in {"taken", "sent"} =>
    /\ phase = "measuring" /\ at <= Len(plan.endpoints)
    /\ Active(at) /\ ~NoPrompts /\ plan.endpoints[at].auth # "missing"

ContactsAllowed ==
  \A i \in contacted :
    ~input.dry /\ ~input.noNetwork /\ i \in plan.eligible /\ plan.endpoints[i].auth # "missing"

IInv == TypeOK /\ InFlightIsActive /\ ContactsAllowed /\ \E S : results \in Seq(S)

-----------------------------------------------------------------------------
LEMMA PlanFacts ==
  ASSUME input \in Inputs
  PROVE  /\ plan.warmups \in Nat /\ plan.measured \in Nat
         /\ Len(plan.endpoints) \in Nat /\ Endpoints = 1 .. Len(plan.endpoints)
         /\ Jobs \subseteq Nat /\ 1 .. plan.warmups \subseteq Jobs
         /\ IsFiniteSet(Jobs)
         /\ \A i \in plan.eligible :
              i \in Endpoints
              /\ EndpointEligible(plan.endpoints[i], plan.workload, plan.constraints.location, input.planned.strict)
<1>1. /\ plan.warmups \in Nat /\ plan.measured \in Nat
      /\ Len(plan.endpoints) \in Nat /\ Endpoints = 1 .. Len(plan.endpoints)
  BY InputsAssumption DEF plan, Endpoints
<1>2. Jobs \subseteq Nat /\ 1 .. plan.warmups \subseteq Jobs  BY <1>1 DEF Jobs
<1>3. IsFiniteSet(Jobs)
  <2>1. 1 \in Int /\ plan.warmups + plan.measured \in Int  BY <1>1
  <2> QED  BY <2>1, FS_Interval DEF Jobs
<1>4. plan = BuildPlan(plan.endpoints, plan.workload, plan.constraints, input.planned)
  BY InputsAssumption DEF plan
<1>5. plan.eligible = {i \in DOMAIN plan.endpoints :
         EndpointEligible(plan.endpoints[i], plan.workload, plan.constraints.location, input.planned.strict)}
  BY <1>4 DEF BuildPlan
<1> QED  BY <1>1, <1>2, <1>3, <1>5 DEF Endpoints

(* Measuring an endpoint that is eligible.                                   *)
LEMMA MeasuredIsEndpoint ==
  ASSUME TypeOK, Measuring
  PROVE  at \in Endpoints /\ at \in Nat
<1>1. input \in Inputs  BY DEF TypeOK
<1>2. Len(plan.endpoints) \in Nat /\ Endpoints = 1 .. Len(plan.endpoints)  BY <1>1, PlanFacts
<1> QED  BY <1>2 DEF TypeOK, Measuring

LEMMA AppendType ==
  ASSUME NEW S, results \in Seq(S), NEW e
  PROVE  /\ Append(results, e) \in Seq(S \cup {e})
         /\ Len(Append(results, e)) = Len(results) + 1
         /\ Len(results) \in Nat /\ DOMAIN results = 1 .. Len(results)
         /\ DOMAIN Append(results, e) = 1 .. Len(results) + 1
         /\ \A i \in DOMAIN results : Append(results, e)[i] = results[i]
         /\ Append(results, e)[Len(results) + 1] = e
<1>1. results \in Seq(S \cup {e})  BY SeqDef
<1> QED  BY <1>1, AppendProperties, LenProperties

LEMMA GreatestExists ==
  ASSUME NEW S, IsFiniteSet(S), S # {}, S \subseteq Int
  PROVE  \E m \in S : \A t \in S : t <= m
<1> DEFINE above(s) == {t \in S : t > s}
           T == {U \in SUBSET S : \E s \in S : U = above(s)}
<1>1. IsWellFoundedOn(StrictSubsetOrdering(S), SUBSET S)
  BY FS_StrictSubsetOrderingWellFounded, FS_FiniteSubsetsOfFinite
<1>2. T \subseteq SUBSET S /\ T # {}
  <2>1. PICK s \in S : TRUE  OBVIOUS
  <2>2. above(s) \in T  BY <2>1
  <2> QED  BY <2>2
<1>3. PICK U \in T : \A V \in T : ~ (<<V, U>> \in StrictSubsetOrdering(S))
  <2> HIDE DEF T
  <2> QED  BY <1>1, <1>2, WFMin
<1>4. PICK s \in S : U = above(s)  BY <1>3
<1>5. ASSUME NEW t \in S, t > s PROVE FALSE
  <2>1. above(t) \in T  OBVIOUS
  <2>2. above(t) \subseteq U /\ t \in U /\ t \notin above(t)
    <3>1. \A x \in S : x > t => x > s  BY <1>5
    <3>2. ~(t > t)  BY <1>5
    <3> QED  BY <1>4, <1>5, <3>1, <3>2
  <2>3. <<above(t), U>> \in (SUBSET S) \X (SUBSET S)  BY <1>2, <1>3, <2>1
  <2>4. <<above(t), U>> \in StrictSubsetOrdering(S)  BY <2>2, <2>3 DEF StrictSubsetOrdering
  <2> QED  BY <1>3, <2>1, <2>4
<1> QED  BY <1>4, <1>5

(* The endpoint with the simulator of a host is one of that host.            *)
LEMMA ServerIsServer ==
  ASSUME input \in Inputs, NEW i \in Endpoints, Servers(i) # {}
  PROVE  Server(i) \in Servers(i) /\ Server(i) \in Endpoints
<1>1. Servers(i) \subseteq Int /\ IsFiniteSet(Servers(i))
  <2>1. Len(plan.endpoints) \in Nat /\ Servers(i) \in SUBSET (1 .. Len(plan.endpoints))
    BY PlanFacts DEF Servers, Simulated
  <2>2. 1 \in Int /\ Len(plan.endpoints) \in Int  BY <2>1
  <2>3. IsFiniteSet(1 .. Len(plan.endpoints))  BY <2>2, FS_Interval
  <2> QED  BY <2>1, <2>3, FS_Subset
<1>2. \E s \in Servers(i) : \A t \in Servers(i) : t <= s  BY <1>1, GreatestExists
<1>3. Server(i) \in Servers(i)  BY <1>2 DEF Server
<1> QED  BY <1>3 DEF Servers, Simulated, Endpoints

-----------------------------------------------------------------------------
LEMMA InitHolds == Init => IInv
<1> SUFFICES ASSUME Init PROVE IInv
  OBVIOUS
<1>1. input \in Inputs  BY DEF Init
<1>2. Len(plan.endpoints) \in Nat /\ Endpoints = 1 .. Len(plan.endpoints)  BY <1>1, PlanFacts
<1>3. job = [j \in Jobs |-> "waiting"] /\ number = [j \in Jobs |-> 0]
  BY DEF Init, NoJobs, NoNumbers, Jobs, plan
<1>4. counts = [i \in Endpoints |-> 0]  BY DEF Init, Endpoints, plan
<1>5. results = <<>> /\ samples = {} /\ at = 1 /\ phase = "measuring" /\ recommendation = None /\ contacted = {}
  BY DEF Init
<1>6. Len(results) = at - 1 /\ results \in Seq({})  BY <1>5, EmptySeq
<1>7. TypeOK  BY <1>1, <1>2, <1>3, <1>4, <1>5, <1>6 DEF TypeOK
<1>8. InFlightIsActive  BY <1>3 DEF InFlightIsActive
<1>9. ContactsAllowed  BY <1>5 DEF ContactsAllowed
<1> QED  BY <1>6, <1>7, <1>8, <1>9 DEF IInv

(* The plan of a run stays what it is.                                       *)
LEMMA PlanStays ==
  ASSUME UNCHANGED input
  PROVE  /\ plan' = plan /\ Endpoints' = Endpoints /\ Jobs' = Jobs /\ Simulated' = Simulated
         /\ NoPrompts' = NoPrompts /\ Refused' = Refused
         /\ \A i : Active(i)' = Active(i)
<1>1. plan' = plan  BY DEF plan
<1>2. Endpoints' = Endpoints /\ Jobs' = Jobs /\ NoPrompts' = NoPrompts  BY <1>1 DEF Endpoints, Jobs, NoPrompts
<1>3. Simulated' = Simulated  BY <1>1, <1>2 DEF Simulated
<1>4. Refused' = Refused  BY <1>1, <1>3 DEF Refused
<1>5. \A i : Active(i)' = Active(i)  BY <1>1, <1>4 DEF Active
<1> QED  BY <1>1, <1>2, <1>3, <1>4, <1>5

(* A step that leaves the plan, the results and the endpoint alone.          *)
LEMMA SameEndpoint ==
  ASSUME IInv, UNCHANGED <<input, at, results, recommendation>>,
         phase' \in {"measuring", "measured", "recommended", "refused", "crashed", "failed"},
         job' \in [Jobs -> {"waiting", "taken", "sent", "done"}],
         number' \in [Jobs -> Nat], counts' \in [Endpoints -> Nat],
         \A s \in samples' : s.endpoint \in Endpoints /\ s.job \in Jobs,
         contacted' \subseteq Endpoints
  PROVE  TypeOK' /\ (\E S : results \in Seq(S))'
<1>1. plan' = plan /\ Endpoints' = Endpoints /\ Jobs' = Jobs  BY PlanStays
<1>2. at' \in 1 .. Len(plan'.endpoints) + 1 /\ Len(results') = at' - 1
  BY <1>1 DEF IInv, TypeOK
<1>3. recommendation' = None \/ recommendation'.endpoint \in Endpoints' \cup {None}
  BY <1>1 DEF IInv, TypeOK
<1>4. input' \in Inputs  BY DEF IInv, TypeOK
<1>5. TypeOK'  BY <1>1, <1>2, <1>3, <1>4 DEF TypeOK
<1> QED  BY <1>5 DEF IInv

(* A step on to the next endpoint.                                           *)
LEMMA NextEndpoint ==
  ASSUME IInv, Measuring, NEW e, results' = Append(results, e), at' = at + 1,
         UNCHANGED <<input, phase, counts, samples, recommendation, contacted>>,
         job' \in [Jobs -> {"waiting", "done"}], number' \in [Jobs -> Nat]
  PROVE  IInv'
<1> USE DEF IInv
<1>1. plan' = plan /\ Endpoints' = Endpoints /\ Jobs' = Jobs  BY PlanStays
<1>2. input \in Inputs  BY DEF TypeOK
<1>3. Len(plan.endpoints) \in Nat /\ Endpoints = 1 .. Len(plan.endpoints)  BY <1>2, PlanFacts
<1>4. PICK S : results \in Seq(S)  OBVIOUS
<1>5. results' \in Seq(S \cup {e}) /\ Len(results') = Len(results) + 1  BY <1>4, AppendType
<1>6. at' \in 1 .. Len(plan'.endpoints) + 1 /\ Len(results') = at' - 1
  <2>1. at \in 1 .. Len(plan.endpoints) + 1 /\ at <= Len(plan.endpoints) /\ Len(results) = at - 1
    BY DEF TypeOK, Measuring
  <2> QED  BY <1>1, <1>3, <1>5, <2>1
<1>7. TypeOK'  BY <1>1, <1>6 DEF TypeOK
<1>8. InFlightIsActive'  BY <1>1 DEF InFlightIsActive
<1>9. ContactsAllowed'  BY <1>1 DEF ContactsAllowed
<1> QED  BY <1>5, <1>7, <1>8, <1>9

LEMMA NextKeeps == IInv /\ [Next]_vars => IInv'
<1> SUFFICES ASSUME IInv, [Next]_vars PROVE IInv'
  OBVIOUS
<1> USE DEF IInv
<1>1. input \in Inputs  BY DEF TypeOK
<1>2. Len(plan.endpoints) \in Nat /\ Endpoints = 1 .. Len(plan.endpoints)  BY <1>1, PlanFacts
<1>3. \A j \in Jobs : job[j] \in {"waiting", "taken", "sent", "done"}  BY DEF TypeOK
(* Steps that end the measuring, when nothing is in flight.                  *)
<1>4. ASSUME UNCHANGED <<input, at, job, number, counts, samples, results, recommendation, contacted>>,
             phase' \in {"measuring", "measured", "recommended", "refused", "crashed", "failed"},
             phase' # phase => \A j \in Jobs : job[j] \in {"waiting", "done"}
      PROVE  IInv'
  <2>1. TypeOK' /\ (\E S : results \in Seq(S))'  BY <1>4, SameEndpoint DEF TypeOK
  <2>2. InFlightIsActive'  BY <1>4, PlanStays DEF InFlightIsActive
  <2>3. ContactsAllowed'  BY <1>4, PlanStays DEF ContactsAllowed
  <2> QED  BY <2>1, <2>2, <2>3
<1>5. CASE Refuse
  <2>1. \A j \in Jobs : job[j] \in {"waiting", "done"}
    BY <1>3, <1>5 DEF Refuse, InFlightIsActive, Active
  <2> QED  BY <1>4, <1>5, <2>1 DEF Refuse
<1>6. CASE Crash
  <2>1. \A j \in Jobs : job[j] \in {"waiting", "done"}  BY <1>3, <1>6 DEF Crash, InFlightIsActive
  <2> QED  BY <1>4, <1>6, <2>1 DEF Crash
<1>7. CASE PassOver
  <2>1. \A j \in Jobs : job[j] \in {"waiting", "done"}  BY <1>3, <1>7 DEF PassOver, InFlightIsActive
  <2>2. job' \in [Jobs -> {"waiting", "done"}] /\ number' \in [Jobs -> Nat]
    BY <1>7, <2>1 DEF PassOver, TypeOK
  <2>3. PICK e : results' = Append(results, e)  BY <1>7 DEF PassOver
  <2> QED  BY <1>7, <2>2, <2>3, NextEndpoint DEF PassOver
<1>8. CASE Score
  <2>1. \A j \in Jobs : job[j] \in {"waiting", "done"}  BY <1>8 DEF Score
  <2>2. \/ phase' = "failed" /\ UNCHANGED <<at, job, number, results>>
        \/ /\ \E e : results' = Append(results, e)
           /\ at' = at + 1 /\ job' = NoJobs(input) /\ number' = NoNumbers(input) /\ phase' = phase
    BY <1>8 DEF Score
  <2>3. UNCHANGED <<input, counts, samples, recommendation, contacted>> /\ Measuring  BY <1>8 DEF Score
  <2>4. CASE phase' = "failed" /\ UNCHANGED <<at, job, number, results>>
    BY <1>4, <2>1, <2>3, <2>4
  <2>5. ASSUME NEW e, results' = Append(results, e), at' = at + 1, job' = NoJobs(input),
               number' = NoNumbers(input), phase' = phase
        PROVE  IInv'
    <3>1. job' = [j \in Jobs |-> "waiting"] /\ number' = [j \in Jobs |-> 0]
      BY <2>5 DEF NoJobs, NoNumbers, Jobs, plan
    <3> QED  BY <2>3, <2>5, <3>1, NextEndpoint
  <2> QED  BY <2>2, <2>4, <2>5
<1>9. CASE Finish
  <2>1. ~ (at <= Len(plan.endpoints))  BY <1>2, <1>9 DEF Finish, TypeOK
  <2>2. \A j \in Jobs : job[j] \in {"waiting", "done"}  BY <1>3, <2>1 DEF InFlightIsActive
  <2> QED  BY <1>4, <1>9, <2>2 DEF Finish
<1>10. CASE Recommend
  <2>1. UNCHANGED <<input, at, job, number, counts, samples, results, contacted>> /\ phase' = "recommended"
    BY <1>10 DEF Recommend
  <2>2. \A j \in Jobs : job[j] \in {"waiting", "done"}  BY <1>3, <1>10 DEF Recommend, InFlightIsActive
  <2>3. plan' = plan /\ Endpoints' = Endpoints /\ Jobs' = Jobs  BY <2>1, PlanStays
  <2>4. recommendation'.endpoint \in Endpoints \cup {None}
    <3>1. PICK e \in Recommendable(results, plan.constraints.objective) \cup {None} :
            recommendation' = [status |-> RecommendationStatus(results), endpoint |-> e]
      BY <1>10 DEF Recommend
    <3>2. Recommendable(results, plan.constraints.objective) \subseteq DOMAIN results
      BY DEF Recommendable, Passing
    <3>3. DOMAIN results = 1 .. Len(results)  BY LenProperties
    <3>4. Len(results) = at - 1 /\ at \in 1 .. Len(plan.endpoints) + 1  BY DEF TypeOK
    <3>5. DOMAIN results \subseteq Endpoints  BY <1>2, <3>3, <3>4
    <3> QED  BY <3>1, <3>2, <3>5
  <2>5. TypeOK'  BY <2>1, <2>3, <2>4 DEF TypeOK
  <2>6. InFlightIsActive'  BY <2>1, <2>2, <2>3 DEF InFlightIsActive
  <2>7. ContactsAllowed'  BY <2>1, <2>3 DEF ContactsAllowed
  <2> QED  BY <2>1, <2>5, <2>6, <2>7
<1>11. ASSUME NEW j \in Jobs, Take(j) PROVE IInv'
  <2>1. Measuring /\ Active(at) /\ ~NoPrompts /\ job[j] = "waiting"  BY <1>11 DEF Take
  <2>2. UNCHANGED <<input, phase, at, number, counts, results, recommendation, contacted>>  BY <1>11 DEF Take
  <2>3. at \in Endpoints  BY <2>1, MeasuredIsEndpoint
  <2>4. job' \in [Jobs -> {"waiting", "taken", "sent", "done"}]  BY <1>11 DEF Take, TypeOK
  <2>5. \A s \in samples' : s.endpoint \in Endpoints /\ s.job \in Jobs
    BY <1>11, <2>3 DEF Take, Sample, TypeOK
  <2>6. TypeOK' /\ (\E S : results \in Seq(S))'  BY <2>2, <2>4, <2>5, SameEndpoint DEF TypeOK
  <2>7. InFlightIsActive'
    <3>1. \A k \in Jobs : job'[k] \in {"taken", "sent"} =>
            job[k] \in {"taken", "sent"} \/ plan.endpoints[at].auth # "missing"
      BY <1>11 DEF Take, TypeOK
    <3> QED  BY <2>1, <2>2, <3>1, PlanStays DEF InFlightIsActive, Measuring
  <2>8. ContactsAllowed'  BY <2>2, PlanStays DEF ContactsAllowed
  <2> QED  BY <2>6, <2>7, <2>8
<1>12. ASSUME NEW j \in Jobs, Send(j) PROVE IInv'
  <2>1. Measuring /\ job[j] = "taken"  BY <1>12 DEF Send
  <2>2. UNCHANGED <<input, phase, at, samples, results, recommendation>>  BY <1>12 DEF Send
  <2>3. at \in Endpoints  BY <2>1, MeasuredIsEndpoint
  <2>4. Active(at) /\ plan.endpoints[at].auth # "missing"  BY <2>1 DEF InFlightIsActive
  <2>5. job' = [job EXCEPT ![j] = "sent"] /\ job' \in [Jobs -> {"waiting", "taken", "sent", "done"}]
    BY <1>12 DEF Send, TypeOK
  <2>6. counts' \in [Endpoints -> Nat] /\ number' \in [Jobs -> Nat]
    <3>1. CASE Servers(at) = {}  BY <1>12, <3>1 DEF Send, TypeOK
    <3>2. CASE Servers(at) # {}
      <4>1. Server(at) \in Endpoints  BY <1>1, <2>3, <3>2, ServerIsServer
      <4>2. counts[Server(at)] \in Nat  BY <4>1 DEF TypeOK
      <4>3. NextCount(counts[Server(at)]) \in Nat  BY <4>2 DEF NextCount
      <4>4. counts' = [counts EXCEPT ![Server(at)] = NextCount(counts[Server(at)])]
            /\ number' = [number EXCEPT ![j] = NextCount(counts[Server(at)])]
        BY <1>12, <3>2 DEF Send
      <4> QED  BY <4>3, <4>4 DEF TypeOK
    <3> QED  BY <3>1, <3>2
  <2>7. contacted' \subseteq contacted \cup {at} /\ (Simulated # {} => contacted' = contacted)
    BY <1>12 DEF Send
  <2>8. TypeOK' /\ (\E S : results \in Seq(S))'
    <3>1. contacted' \subseteq Endpoints  BY <2>3, <2>7 DEF TypeOK
    <3> QED  BY <2>2, <2>5, <2>6, <3>1, SameEndpoint DEF TypeOK
  <2>9. InFlightIsActive'
    <3>1. \A k \in Jobs : job'[k] \in {"taken", "sent"} => job[k] \in {"taken", "sent"}
      BY <2>1, <2>5 DEF TypeOK
    <3> QED  BY <2>2, <3>1, PlanStays DEF InFlightIsActive
  <2>10. ContactsAllowed'
    <3>1. Simulated = {} => ~input.noNetwork /\ ~input.dry /\ at \in plan.eligible
      BY <2>4 DEF Active, Refused
    <3> QED  BY <2>2, <2>4, <2>7, <3>1, PlanStays DEF ContactsAllowed
  <2> QED  BY <2>8, <2>9, <2>10
<1>13. ASSUME NEW j \in Jobs, Answer(j) PROVE IInv'
  <2>1. Measuring  BY <1>13 DEF Answer
  <2>2. UNCHANGED <<input, phase, at, number, counts, results, recommendation, contacted>>  BY <1>13 DEF Answer
  <2>3. at \in Endpoints  BY <2>1, MeasuredIsEndpoint
  <2>4. job' = [job EXCEPT ![j] = "done"] /\ job' \in [Jobs -> {"waiting", "taken", "sent", "done"}]
    BY <1>13 DEF Answer, TypeOK
  <2>5. \A s \in samples' : s.endpoint \in Endpoints /\ s.job \in Jobs
    BY <1>13, <2>3 DEF Answer, Sample, TypeOK
  <2>6. TypeOK' /\ (\E S : results \in Seq(S))'  BY <2>2, <2>4, <2>5, SameEndpoint DEF TypeOK
  <2>7. InFlightIsActive'
    <3>1. \A k \in Jobs : job'[k] \in {"taken", "sent"} => job[k] \in {"taken", "sent"}  BY <2>4 DEF TypeOK
    <3> QED  BY <2>2, <3>1, PlanStays DEF InFlightIsActive
  <2>8. ContactsAllowed'  BY <2>2, PlanStays DEF ContactsAllowed
  <2> QED  BY <2>6, <2>7, <2>8
<1>14. CASE UNCHANGED vars  BY <1>4, <1>14 DEF vars, TypeOK
<1> QED  BY <1>5, <1>6, <1>7, <1>8, <1>9, <1>10, <1>11, <1>12, <1>13, <1>14 DEF Next

LEMMA Inductive == Spec => []IInv
<1>1. Init => IInv  BY InitHolds
<1>2. IInv /\ [Next]_vars => IInv'  BY NextKeeps
<1> QED  BY <1>1, <1>2, PTL DEF Spec

-----------------------------------------------------------------------------
(* The state of a run keeps its types, however its requests interleave       *)
(* (http_client.py: run_benchmark_plan).                                     *)
THEOREM TypeCorrect == Spec => []TypeOK
<1>1. IInv => TypeOK  BY DEF IInv
<1> QED  BY <1>1, Inductive, PTL

(* Prompts leave the machine only for places the constraints allow, and only *)
(* in a run that may use the network (constraints.py:                        *)
(* declared_location_reason_codes, http_client.py: run_benchmark_plan).      *)
THEOREM SentHolds == Spec => []SentOnlyWhereAllowed
<1>1. IInv => SentOnlyWhereAllowed
  <2> SUFFICES ASSUME IInv, NEW i \in contacted
               PROVE  LET endpoint == plan.endpoints[i]
                          rules == plan.constraints.location
                      IN  /\ ~input.dry /\ ~input.noNetwork
                          /\ endpoint.auth # "missing" /\ endpoint.url # "bad"
                          /\ \/ endpoint.location = None /\ ~rules.required
                             \/ /\ endpoint.location # None
                                /\ \A f \in LocationField :
                                     rules.allowed[f] # {} => endpoint.location[f] \in rules.allowed[f]
    BY DEF SentOnlyWhereAllowed
  <2>1. ~input.dry /\ ~input.noNetwork /\ i \in plan.eligible /\ plan.endpoints[i].auth # "missing"
    BY DEF IInv, ContactsAllowed
  <2>2. EndpointEligible(plan.endpoints[i], plan.workload, plan.constraints.location, input.planned.strict)
    BY <2>1, PlanFacts DEF IInv, TypeOK
  <2>3. plan.endpoints[i].url # "bad"  BY <2>2 DEF EndpointEligible, UrlAllowed
  <2>4. DeclaredLocationAllowed(plan.endpoints[i].location, plan.constraints.location)
    BY <2>2 DEF EndpointEligible
  <2> QED  BY <2>1, <2>3, <2>4 DEF DeclaredLocationAllowed, InList
<1> QED  BY <1>1, Inductive, PTL

-----------------------------------------------------------------------------
(* Measured endpoints whose requests the simulator numbers.                  *)
IsNumbered(i) == i \in plan.eligible /\ plan.endpoints[i].auth # "missing" /\ Servers(i) # {}

InTurn == at \in Endpoints /\ IsNumbered(at)

Numbered == {j \in Jobs : job[j] \in {"sent", "done"}}

Base == Cardinality(NumberedBefore(Server(at), at)) * Cardinality(Jobs)

Top == Base + Cardinality(Numbered)

WarmupsFirst ==
  \A j \in Jobs : Measured(j) /\ job[j] # "waiting" => \A k \in 1 .. plan.warmups : job[k] = "done"

(* A server's count: all requests of the endpoints before, and those of the  *)
(* one being measured that have reached it.                                  *)
CountsAdd ==
  ~input.dry => \A s \in Endpoints :
    counts[s] = Cardinality(NumberedBefore(s, at)) * Cardinality(Jobs)
                  + (IF InTurn /\ Server(at) = s THEN Cardinality(Numbered) ELSE 0)

(* Its requests have the numbers from Base + 1 on, one each, and those of    *)
(* the warm-ups come first.                                                  *)
NumbersAreOnto ==
  InTurn =>
    /\ \A j \in Numbered : number[j] \in Base + 1 .. Top /\ (Measured(j) <=> number[j] > Base + plan.warmups)
    /\ \A n \in Base + 1 .. Top : \E j \in Numbered : number[j] = n
    /\ \A j, k \in Numbered : number[j] = number[k] => j = k

(* One sample of each answered job, its status that of its number.           *)
SamplesAreOfJobs ==
  /\ IsFiniteSet(samples)
  /\ \A s \in samples : /\ s.status \in {"SUCCESS", "ERROR", "TIMEOUT"} /\ s.latency \in Nat \cup {NoTime}
                        /\ s.status = "SUCCESS" => s.latency # NoTime
                        /\ s.endpoint <= at
                        /\ s.endpoint = at => Active(at) /\ at \in Endpoints /\ job[s.job] = "done"
  /\ \A s, t \in samples : s.endpoint = t.endpoint /\ s.job = t.job => s = t
  /\ at \in Endpoints => \A j \in Jobs : job[j] = "done" => \E s \in samples : s.endpoint = at /\ s.job = j
  /\ InTurn =>
       \A s \in samples : s.endpoint = at =>
         s.status = SimulatedAnswer(plan.endpoints[at], plan.endpoints[Server(at)], number[s.job], NoTime).status

Metrics(i) == Aggregate(MeasuredSamples(i), plan.endpoints[i].mode = "streaming", input.countFailures)

ResultsAreScores ==
  \A i \in DOMAIN results :
    results[i].measured > 0 \/ results[i].status = "PASS" =>
      /\ Active(i) /\ Cardinality(MeasuredSamples(i)) = plan.measured
      /\ \E speed : results[i] = Entry(BenchmarkStatus(Metrics(i), plan.constraints.targets, input.minSuccess, speed,
                                                       plan.endpoints[i].priced), Metrics(i))

ChosenOfThese ==
  recommendation # None =>
    /\ phase = "recommended"
    /\ recommendation.endpoint # None =>
         recommendation.endpoint \in Recommendable(results, plan.constraints.objective)

Tally ==
  /\ WarmupsFirst /\ CountsAdd /\ NumbersAreOnto /\ SamplesAreOfJobs /\ ResultsAreScores /\ ChosenOfThese
  /\ SimulatedCountsAreFixed

LEMMA TallyInit == Init => Tally
<1> SUFFICES ASSUME Init PROVE Tally
  OBVIOUS
<1>1. input \in Inputs /\ IInv  BY InitHolds DEF Init
<1>2. Len(plan.endpoints) \in Nat /\ Endpoints = 1 .. Len(plan.endpoints) /\ IsFiniteSet(Jobs)  BY <1>1, PlanFacts
<1>3. \A j \in Jobs : job[j] = "waiting"  BY DEF Init, NoJobs, Jobs, plan
<1>4. results = <<>> /\ samples = {} /\ at = 1 /\ recommendation = None /\ \A i \in Endpoints : counts[i] = 0
  BY DEF Init, Endpoints, plan
<1>5. DOMAIN results = {}  BY <1>4
<1>6. Numbered = {}  BY <1>3 DEF Numbered
<1>7. \A s : NumberedBefore(s, at) = {}  BY <1>4 DEF NumberedBefore
<1>8. Cardinality({}) = 0 /\ IsFiniteSet({})  BY FS_EmptySet
<1>9. 0 * Cardinality(Jobs) = 0
  <2>1. Cardinality(Jobs) \in Nat  BY <1>2, FS_CardinalityType
  <2> QED  BY <2>1
<1>10. Base = 0  BY <1>7, <1>8, <1>9 DEF Base
<1>11. WarmupsFirst  BY <1>3 DEF WarmupsFirst
<1>12. CountsAdd
  <2>1. \A s : Cardinality(NumberedBefore(s, at)) * Cardinality(Jobs) = 0  BY <1>7, <1>8, <1>9
  <2> QED  BY <1>4, <1>6, <1>8, <2>1 DEF CountsAdd
<1>13. NumbersAreOnto  BY <1>6, <1>8, <1>10 DEF NumbersAreOnto, Top
<1>14. SamplesAreOfJobs  BY <1>3, <1>4, <1>8 DEF SamplesAreOfJobs
<1>15. ResultsAreScores /\ SimulatedCountsAreFixed  BY <1>5 DEF ResultsAreScores, SimulatedCountsAreFixed
<1>16. ChosenOfThese  BY <1>4 DEF ChosenOfThese
<1> QED  BY <1>11, <1>12, <1>13, <1>14, <1>15, <1>16 DEF Tally

LEMMA ServersStay ==
  ASSUME UNCHANGED input
  PROVE  /\ \A i : Servers(i)' = Servers(i) /\ Server(i)' = Server(i) /\ IsNumbered(i)' = IsNumbered(i)
         /\ \A s, i : NumberedBefore(s, i)' = NumberedBefore(s, i)
<1>1. plan' = plan /\ Simulated' = Simulated  BY PlanStays
<1>2. \A i : Servers(i)' = Servers(i)  BY <1>1 DEF Servers
<1>3. \A i : Server(i)' = Server(i)  BY <1>2 DEF Server
<1>4. \A i : IsNumbered(i)' = IsNumbered(i)  BY <1>1, <1>2 DEF IsNumbered
<1>5. \A s, i : NumberedBefore(s, i)' = NumberedBefore(s, i)  BY <1>1, <1>2, <1>3 DEF NumberedBefore
<1> QED  BY <1>2, <1>3, <1>4, <1>5

LEMMA TurnStays ==
  ASSUME UNCHANGED <<input, at>>
  PROVE  /\ InTurn' = InTurn /\ Base' = Base /\ Server(at)' = Server(at) /\ Servers(at)' = Servers(at)
         /\ \A s : NumberedBefore(s, at)' = NumberedBefore(s, at)
<1>1. plan' = plan /\ Endpoints' = Endpoints /\ Jobs' = Jobs /\ Simulated' = Simulated  BY PlanStays
<1>2. Servers(at)' = Servers(at)  BY <1>1 DEF Servers
<1>3. Server(at)' = Server(at)  BY <1>2 DEF Server
<1>4. \A s : NumberedBefore(s, at)' = NumberedBefore(s, at)
  <2>1. \A i : Servers(i)' = Servers(i) /\ Server(i)' = Server(i)  BY ServersStay
  <2> QED  BY <1>1, <2>1 DEF NumberedBefore
<1>5. InTurn' = InTurn  BY <1>1, <1>2 DEF InTurn, IsNumbered
<1>6. Base' = Base  BY <1>1, <1>3, <1>4 DEF Base
<1> QED  BY <1>2, <1>3, <1>4, <1>5, <1>6

(* The numbers the measured requests of i get, of which the answer is such.  *)
Due(i, status) ==
  {n \in FirstNumber(i) + 1 .. FirstNumber(i) + plan.measured :
     SimulatedAnswer(plan.endpoints[i], plan.endpoints[Server(i)], n, NoTime).status = status}

CountsAreFixed(i) ==
  results[i].measured > 0 /\ Servers(i) # {} /\ plan.endpoints[i].auth # "missing" =>
    \A status \in {"SUCCESS", "ERROR", "TIMEOUT"} :
      Cardinality(Having(MeasuredSamples(i), status)) = Cardinality(Due(i, status))

LEMMA CountsSplit == SimulatedCountsAreFixed <=> \A i \in DOMAIN results : CountsAreFixed(i)
BY DEF SimulatedCountsAreFixed, CountsAreFixed, Due

LEMMA DueStays == ASSUME UNCHANGED input PROVE \A i, status : Due(i, status)' = Due(i, status)
<1>1. plan' = plan /\ Jobs' = Jobs  BY PlanStays
<1>2. \A i : Server(i)' = Server(i)  BY ServersStay
<1>3. \A s, i : NumberedBefore(s, i)' = NumberedBefore(s, i)  BY ServersStay
<1>4. \A i : FirstNumber(i)' = FirstNumber(i)  BY <1>1, <1>2, <1>3 DEF FirstNumber
<1> QED  BY <1>1, <1>2, <1>4 DEF Due

LEMMA CountsStay ==
  ASSUME UNCHANGED input, NEW i, CountsAreFixed(i), results'[i] = results[i],
         MeasuredSamples(i)' = MeasuredSamples(i)
  PROVE  CountsAreFixed(i)'
<1>1. plan' = plan  BY PlanStays
<1>2. Servers(i)' = Servers(i)  BY ServersStay
<1>3. \A status : Due(i, status)' = Due(i, status)  BY DueStays
<1> QED  BY <1>1, <1>2, <1>3 DEF CountsAreFixed

(* Where neither the endpoint nor its requests change.                       *)
LEMMA TallyStays ==
  ASSUME IInv, Tally, UNCHANGED <<input, at, job, number, counts, samples, results>>,
         UNCHANGED <<phase, recommendation>> \/ (recommendation = None /\ ChosenOfThese')
  PROVE  Tally'
<1>1. plan' = plan /\ Endpoints' = Endpoints /\ Jobs' = Jobs /\ \A i : Active(i)' = Active(i)  BY PlanStays
<1>2. InTurn' = InTurn /\ Base' = Base /\ Server(at)' = Server(at)  BY TurnStays
<1>3. \A s : NumberedBefore(s, at)' = NumberedBefore(s, at)  BY TurnStays
<1>4. Numbered' = Numbered /\ Top' = Top  BY <1>1, <1>2 DEF Numbered, Top
<1>5. WarmupsFirst'  BY <1>1 DEF Tally, WarmupsFirst, Measured
<1>6. CountsAdd'  BY <1>1, <1>2, <1>3, <1>4 DEF Tally, CountsAdd
<1>7. NumbersAreOnto'  BY <1>1, <1>2, <1>4 DEF Tally, NumbersAreOnto, Measured
<1>8. SamplesAreOfJobs'  BY <1>1, <1>2 DEF Tally, SamplesAreOfJobs
<1>9. \A i : MeasuredSamples(i)' = MeasuredSamples(i)  BY <1>1 DEF MeasuredSamples, Measured
<1>10. ResultsAreScores'  BY <1>1, <1>9 DEF Tally, ResultsAreScores, Metrics
<1>11. SimulatedCountsAreFixed'
  <2>1. \A i \in DOMAIN results' : CountsAreFixed(i)'
    <3>1. \A i \in DOMAIN results : CountsAreFixed(i)  BY CountsSplit DEF Tally
    <3> QED  BY <1>9, <3>1, CountsStay
  <2> QED  BY <2>1 DEF SimulatedCountsAreFixed, CountsAreFixed, Due
<1>12. ChosenOfThese'
  <2>1. CASE UNCHANGED <<phase, recommendation>>
    <3>1. Recommendable(results, plan.constraints.objective)' = Recommendable(results, plan.constraints.objective)
      BY <1>1
    <3> QED  BY <2>1, <3>1 DEF Tally, ChosenOfThese
  <2> QED  BY <2>1
<1> QED  BY <1>5, <1>6, <1>7, <1>8, <1>10, <1>11, <1>12 DEF Tally

(* What came of the endpoints before is not touched by the requests of the   *)
(* next.                                                                     *)
LEMMA EarlierStays ==
  ASSUME IInv, Tally, UNCHANGED <<input, phase, at, results, recommendation>>,
         samples \subseteq samples', \A s \in samples' \ samples : s.endpoint = at
  PROVE  ResultsAreScores' /\ SimulatedCountsAreFixed' /\ ChosenOfThese'
<1>1. plan' = plan /\ Endpoints' = Endpoints /\ Jobs' = Jobs /\ \A i : Active(i)' = Active(i)  BY PlanStays
<1>2. PICK S : results \in Seq(S)  BY DEF IInv
<1>3. DOMAIN results = 1 .. at - 1 /\ at \in Nat
  <2>1. input \in Inputs  BY DEF IInv, TypeOK
  <2>2. Len(plan.endpoints) \in Nat  BY <2>1, PlanFacts
  <2> QED  BY <1>2, <2>2, LenProperties DEF IInv, TypeOK
<1>4. ASSUME NEW i \in DOMAIN results PROVE MeasuredSamples(i)' = MeasuredSamples(i)
  <2>1. i # at  BY <1>3
  <2> QED  BY <1>1, <2>1 DEF MeasuredSamples, Measured
<1>5. ResultsAreScores'  BY <1>1, <1>4 DEF Tally, ResultsAreScores, Metrics
<1>6. SimulatedCountsAreFixed'
  <2>1. \A i \in DOMAIN results' : CountsAreFixed(i)'
    <3>1. \A i \in DOMAIN results : CountsAreFixed(i)  BY CountsSplit DEF Tally
    <3> QED  BY <1>4, <3>1, CountsStay
  <2> QED  BY <2>1 DEF SimulatedCountsAreFixed, CountsAreFixed, Due
<1>7. ChosenOfThese'
  <2>1. Recommendable(results, plan.constraints.objective)' = Recommendable(results, plan.constraints.objective)
    BY <1>1
  <2> QED  BY <2>1 DEF Tally, ChosenOfThese
<1> QED  BY <1>5, <1>6, <1>7

IsAnswer(answer) ==
  /\ answer.status \in {"SUCCESS", "ERROR", "TIMEOUT"} /\ answer.latency \in Nat \cup {NoTime}
  /\ answer.status = "SUCCESS" => answer.latency # NoTime

(* The answer that the number of job j is due.                               *)
AsNumbered(j, answer) ==
  InTurn => answer.status
              = SimulatedAnswer(plan.endpoints[at], plan.endpoints[Server(at)], number[j], NoTime).status

(* A sample is added, of a job that was not done.                            *)
LEMMA SampleAdded ==
  ASSUME IInv, Tally, Measuring, NEW j \in Jobs, job[j] # "done", Active(at), UNCHANGED <<input, at>>,
         NEW answer, IsAnswer(answer), AsNumbered(j, answer),
         samples' = samples \cup {Sample(j, answer)}, job' = [job EXCEPT ![j] = "done"], UNCHANGED number
  PROVE  SamplesAreOfJobs'
<1>1. plan' = plan /\ Endpoints' = Endpoints /\ Jobs' = Jobs /\ \A i : Active(i)' = Active(i)  BY PlanStays
<1>2. InTurn' = InTurn /\ Server(at)' = Server(at)  BY TurnStays
<1>3. at \in Endpoints /\ at \in Nat /\ job \in [Jobs -> {"waiting", "taken", "sent", "done"}]
  BY MeasuredIsEndpoint DEF IInv, TypeOK
<1> DEFINE new == Sample(j, answer)
<1>4. /\ new.endpoint = at /\ new.job = j /\ new.status = answer.status /\ new.latency = answer.latency
      /\ answer.status \in {"SUCCESS", "ERROR", "TIMEOUT"} /\ answer.latency \in Nat \cup {NoTime}
      /\ answer.status = "SUCCESS" => answer.latency # NoTime
  BY DEF Sample, IsAnswer
<1> HIDE DEF new
<1>5. /\ \A s \in samples : s.job \in Jobs
      /\ \A s \in samples : s.endpoint = at => job[s.job] = "done" /\ s.job # j
  BY DEF IInv, TypeOK, Tally, SamplesAreOfJobs
<1>6. IsFiniteSet(samples')  BY FS_AddElement DEF Tally, SamplesAreOfJobs, new
<1>7. \A s \in samples' : /\ s.status \in {"SUCCESS", "ERROR", "TIMEOUT"} /\ s.latency \in Nat \cup {NoTime}
                          /\ s.status = "SUCCESS" => s.latency # NoTime
                          /\ s.endpoint <= at
                          /\ s.endpoint = at => Active(at) /\ at \in Endpoints /\ job'[s.job] = "done"
  <2>1. \A s \in samples : /\ s.status \in {"SUCCESS", "ERROR", "TIMEOUT"} /\ s.latency \in Nat \cup {NoTime}
                           /\ s.status = "SUCCESS" => s.latency # NoTime
                           /\ s.endpoint <= at
    BY DEF Tally, SamplesAreOfJobs
  <2>2. \A s \in samples' : s \in samples \/ s = new  BY DEF new
  <2> QED  BY <1>3, <1>4, <1>5, <2>1, <2>2
<1>8. \A s, t \in samples' : s.endpoint = t.endpoint /\ s.job = t.job => s = t
  BY <1>4, <1>5 DEF Tally, SamplesAreOfJobs, new
<1>9. \A k \in Jobs : job'[k] = "done" => \E s \in samples' : s.endpoint = at /\ s.job = k
  <2> SUFFICES ASSUME NEW k \in Jobs, job'[k] = "done" PROVE \E s \in samples' : s.endpoint = at /\ s.job = k
    OBVIOUS
  <2>1. CASE k = j  BY <1>4, <2>1 DEF new
  <2>2. CASE k # j
    <3>1. job[k] = "done"  BY <1>3, <2>2
    <3> QED  BY <1>3, <3>1 DEF Tally, SamplesAreOfJobs
  <2> QED  BY <2>1, <2>2
<1>10. InTurn => \A s \in samples' : s.endpoint = at =>
         s.status = SimulatedAnswer(plan.endpoints[at], plan.endpoints[Server(at)], number[s.job], NoTime).status
  BY <1>4 DEF Tally, SamplesAreOfJobs, AsNumbered, new
<1> QED  BY <1>1, <1>2, <1>6, <1>7, <1>8, <1>9, <1>10 DEF SamplesAreOfJobs

LEMMA TallyTake == ASSUME IInv, Tally, NEW j \in Jobs, Take(j) PROVE Tally'
<1>1. /\ Measuring /\ Active(at) /\ job[j] = "waiting"
      /\ Measured(j) => \A k \in 1 .. plan.warmups : job[k] = "done"
      /\ UNCHANGED <<input, phase, at, number, counts, results, recommendation>>
  BY DEF Take
<1>2. plan' = plan /\ Endpoints' = Endpoints /\ Jobs' = Jobs /\ \A i : Active(i)' = Active(i)  BY <1>1, PlanStays
<1>3. InTurn' = InTurn /\ Base' = Base /\ Server(at)' = Server(at) /\ \A s : NumberedBefore(s, at)' = NumberedBefore(s, at)
  BY <1>1, TurnStays
<1>4. job \in [Jobs -> {"waiting", "taken", "sent", "done"}] /\ 1 .. plan.warmups \subseteq Jobs
  BY PlanFacts DEF IInv, TypeOK
<1>5. \/ /\ plan.endpoints[at].auth = "missing" /\ job' = [job EXCEPT ![j] = "done"]
         /\ samples' = samples \cup {Sample(j, AuthMissingAnswer)}
      \/ plan.endpoints[at].auth # "missing" /\ job' = [job EXCEPT ![j] = "taken"] /\ samples' = samples
  BY DEF Take
<1>6. WarmupsFirst'
  <2> SUFFICES ASSUME NEW k \in Jobs, Measured(k), job'[k] # "waiting", NEW w \in 1 .. plan.warmups
               PROVE  job'[w] = "done"
    BY <1>2 DEF WarmupsFirst, Measured
  <2>1. plan.warmups \in Nat /\ k \in Int /\ w # k
    <3>1. plan.warmups \in Nat /\ Jobs \subseteq Nat  BY PlanFacts DEF IInv, TypeOK
    <3> QED  BY <3>1 DEF Measured
  <2>2. CASE k = j
    <3>1. job[w] = "done" /\ w # j  BY <1>1, <2>1, <2>2
    <3> QED  BY <1>4, <1>5, <3>1
  <2>3. CASE k # j
    <3>1. job[k] # "waiting"  BY <1>4, <1>5, <2>3
    <3>2. job[w] = "done"  BY <3>1 DEF Tally, WarmupsFirst
    <3>3. w # j  BY <1>1, <3>2
    <3> QED  BY <1>4, <1>5, <3>2, <3>3
  <2> QED  BY <2>2, <2>3
<1>7. InTurn => Numbered' = Numbered /\ Top' = Top
  <2> SUFFICES ASSUME InTurn PROVE Numbered' = Numbered /\ Top' = Top
    OBVIOUS
  <2>1. job' = [job EXCEPT ![j] = "taken"]  BY <1>5 DEF InTurn, IsNumbered
  <2>2. Numbered' = Numbered  BY <1>1, <1>2, <1>4, <2>1 DEF Numbered
  <2> QED  BY <1>3, <2>2 DEF Top
<1>8. CountsAdd'  BY <1>1, <1>2, <1>3, <1>7 DEF Tally, CountsAdd
<1>9. NumbersAreOnto'  BY <1>1, <1>2, <1>3, <1>7 DEF Tally, NumbersAreOnto, Measured
<1>10. SamplesAreOfJobs'
  <2>1. CASE plan.endpoints[at].auth = "missing"
    <3>1. IsAnswer(AuthMissingAnswer)  BY DEF IsAnswer, AuthMissingAnswer, NoServerAnswer
    <3>2. AsNumbered(j, AuthMissingAnswer)  BY <2>1 DEF AsNumbered, InTurn, IsNumbered
    <3> HIDE DEF AuthMissingAnswer
    <3> QED  BY <1>1, <1>5, <2>1, <3>1, <3>2, SampleAdded
  <2>2. CASE plan.endpoints[at].auth # "missing"
    <3>1. job' = [job EXCEPT ![j] = "taken"] /\ samples' = samples  BY <1>5, <2>2
    <3>2. \A k \in Jobs : job'[k] = "done" <=> job[k] = "done"  BY <1>1, <1>4, <3>1
    <3>3. \A s \in samples : s.job \in Jobs  BY DEF IInv, TypeOK
    <3> QED  BY <1>1, <1>2, <1>3, <3>1, <3>2, <3>3 DEF Tally, SamplesAreOfJobs
  <2> QED  BY <2>1, <2>2
<1>11. samples \subseteq samples' /\ \A s \in samples' \ samples : s.endpoint = at  BY <1>5 DEF Sample
<1> QED  BY <1>1, <1>6, <1>8, <1>9, <1>10, <1>11, EarlierStays DEF Tally

LEMMA NumberedFacts ==
  ASSUME IInv
  PROVE  /\ IsFiniteSet(Numbered) /\ Cardinality(Numbered) \in Nat
         /\ Cardinality(Jobs) \in Nat /\ Base \in Nat /\ plan.warmups \in Nat /\ plan.measured \in Nat
         /\ \A s, i : i \in Nat => IsFiniteSet(NumberedBefore(s, i)) /\ Cardinality(NumberedBefore(s, i)) \in Nat
<1>1. IsFiniteSet(Jobs) /\ plan.warmups \in Nat /\ plan.measured \in Nat  BY PlanFacts DEF IInv, TypeOK
<1>2. IsFiniteSet(Numbered) /\ Cardinality(Numbered) \in Nat
  <2>1. Numbered \in SUBSET Jobs  BY DEF Numbered
  <2>2. IsFiniteSet(Numbered)  BY <1>1, <2>1, FS_Subset
  <2> QED  BY <2>2, FS_CardinalityType
<1>3. ASSUME NEW s, NEW i \in Nat
      PROVE  IsFiniteSet(NumberedBefore(s, i)) /\ Cardinality(NumberedBefore(s, i)) \in Nat
  <2>1. i - 1 \in Int  OBVIOUS
  <2>2. IsFiniteSet(1 .. i - 1)  BY <2>1, FS_Interval
  <2>3. NumberedBefore(s, i) \in SUBSET (1 .. i - 1)  BY DEF NumberedBefore
  <2>4. IsFiniteSet(NumberedBefore(s, i))  BY <2>2, <2>3, FS_Subset
  <2> QED  BY <2>4, FS_CardinalityType
<1>4. Cardinality(Jobs) \in Nat  BY <1>1, FS_CardinalityType
<1>5. Base \in Nat
  <2>1. at \in Nat
    <3>1. Len(plan.endpoints) \in Nat  BY PlanFacts DEF IInv, TypeOK
    <3> QED  BY <3>1 DEF IInv, TypeOK
  <2>2. Cardinality(NumberedBefore(Server(at), at)) \in Nat  BY <1>3, <2>1
  <2> QED  BY <1>4, <2>2 DEF Base
<1> QED  BY <1>1, <1>2, <1>3, <1>4, <1>5

(* The warm-ups are numbered before any measured request.                    *)
LEMMA WarmupsNumberedFirst ==
  ASSUME IInv, Tally, NEW j \in Jobs, job[j] = "taken"
  PROVE  Measured(j) <=> Cardinality(Numbered) >= plan.warmups
<1>1. plan.warmups \in Nat /\ Jobs \subseteq Nat /\ 1 .. plan.warmups \subseteq Jobs /\ j \in Nat
  BY PlanFacts DEF IInv, TypeOK
<1>2. IsFiniteSet(Numbered) /\ Cardinality(Numbered) \in Nat  BY NumberedFacts
<1>3. IsFiniteSet(1 .. plan.warmups) /\ Cardinality(1 .. plan.warmups) = plan.warmups
  <2>1. 1 \in Int /\ plan.warmups \in Int  BY <1>1
  <2>2. IsFiniteSet(1 .. plan.warmups) /\ Cardinality(1 .. plan.warmups) = IF 1 > plan.warmups THEN 0 ELSE plan.warmups - 1 + 1
    BY <2>1, FS_Interval
  <2> QED  BY <1>1, <2>2
<1>4. ASSUME Measured(j) PROVE Cardinality(Numbered) >= plan.warmups
  <2>1. \A k \in 1 .. plan.warmups : job[k] = "done"  BY <1>4 DEF Tally, WarmupsFirst
  <2>2. 1 .. plan.warmups \in SUBSET Numbered  BY <1>1, <2>1 DEF Numbered
  <2>3. Cardinality(1 .. plan.warmups) <= Cardinality(Numbered)  BY <1>2, <2>2, FS_Subset
  <2> QED  BY <1>1, <1>2, <1>3, <2>3
<1>5. ASSUME ~Measured(j) PROVE Cardinality(Numbered) < plan.warmups
  <2>1. j \in 1 .. plan.warmups  BY <1>1, <1>5 DEF Measured, Jobs
  <2>2. Numbered \subseteq (1 .. plan.warmups) \ {j}
    <3> SUFFICES ASSUME NEW k \in Numbered PROVE k \in (1 .. plan.warmups) \ {j}
      OBVIOUS
    <3>1. k \in Jobs /\ k # j /\ job[k] # "waiting"  BY DEF Numbered
    <3>2. ~Measured(k)  BY <2>1, <3>1 DEF Tally, WarmupsFirst
    <3> QED  BY <1>1, <3>1, <3>2 DEF Measured, Jobs
  <2>3. IsFiniteSet((1 .. plan.warmups) \ {j}) /\ Cardinality((1 .. plan.warmups) \ {j}) = plan.warmups - 1
    BY <1>3, <2>1, FS_RemoveElement
  <2>4. Cardinality(Numbered) <= Cardinality((1 .. plan.warmups) \ {j})  BY <2>2, <2>3, FS_Subset
  <2> QED  BY <1>1, <1>2, <2>3, <2>4
<1> QED  BY <1>1, <1>2, <1>4, <1>5

LEMMA TallySend == ASSUME IInv, Tally, NEW j \in Jobs, Send(j) PROVE Tally'
<1>1. Measuring /\ job[j] = "taken" /\ UNCHANGED <<input, phase, at, samples, results, recommendation>>
      /\ job' = [job EXCEPT ![j] = "sent"]
  BY DEF Send
<1>2. plan' = plan /\ Endpoints' = Endpoints /\ Jobs' = Jobs /\ \A i : Active(i)' = Active(i)  BY <1>1, PlanStays
<1>3. InTurn' = InTurn /\ Base' = Base /\ Server(at)' = Server(at) /\ \A s : NumberedBefore(s, at)' = NumberedBefore(s, at)
  BY <1>1, TurnStays
<1>4. /\ job \in [Jobs -> {"waiting", "taken", "sent", "done"}] /\ number \in [Jobs -> Nat] /\ counts \in [Endpoints -> Nat]
      /\ 1 .. plan.warmups \subseteq Jobs
  BY PlanFacts DEF IInv, TypeOK
<1>5. at \in Endpoints /\ Active(at) /\ ~input.dry /\ plan.endpoints[at].auth # "missing" /\ at \in plan.eligible
  BY <1>1, MeasuredIsEndpoint DEF IInv, InFlightIsActive, Active
<1>6. InTurn <=> Servers(at) # {}  BY <1>5 DEF InTurn, IsNumbered
<1>7. j \notin Numbered /\ Numbered' = Numbered \cup {j}  BY <1>1, <1>2, <1>4 DEF Numbered
<1>8. Cardinality(Numbered') = Cardinality(Numbered) + 1
  <2>1. IsFiniteSet(Numbered)  BY NumberedFacts
  <2>2. Cardinality(Numbered \cup {j}) = Cardinality(Numbered) + 1  BY <1>7, <2>1, FS_AddElement
  <2> QED  BY <1>7, <2>2
<1>9. WarmupsFirst'
  <2> SUFFICES ASSUME NEW k \in Jobs, Measured(k), job'[k] # "waiting", NEW w \in 1 .. plan.warmups
               PROVE  job'[w] = "done"
    BY <1>2 DEF WarmupsFirst, Measured
  <2>1. job[k] # "waiting"  BY <1>1, <1>4
  <2>2. job[w] = "done"  BY <2>1 DEF Tally, WarmupsFirst
  <2> QED  BY <1>1, <1>4, <2>2
<1>10. CASE ~InTurn
  <2>1. UNCHANGED <<counts, number>>  BY <1>6, <1>10 DEF Send
  <2>2. CountsAdd'  BY <1>1, <1>2, <1>3, <1>10, <2>1 DEF Tally, CountsAdd
  <2>3. NumbersAreOnto'  BY <1>3, <1>10 DEF NumbersAreOnto
  <2>4. \A k \in Jobs : job'[k] = "done" <=> job[k] = "done"  BY <1>1, <1>4
  <2>5. \A s \in samples : s.job \in Jobs  BY DEF IInv, TypeOK
  <2>6. SamplesAreOfJobs'  BY <1>1, <1>2, <1>3, <1>10, <2>4, <2>5 DEF Tally, SamplesAreOfJobs
  <2> QED  BY <1>1, <1>9, <2>2, <2>3, <2>6, EarlierStays DEF Tally
<1>11. CASE InTurn
  <2>1. Server(at) \in Endpoints  BY <1>5, <1>6, <1>11, ServerIsServer DEF IInv, TypeOK
  <2>2. counts[Server(at)] = Top
    BY <1>5, <1>11, <2>1 DEF Tally, CountsAdd, Top, Base
  <2>3. Top \in Nat /\ Top' = Top + 1 /\ Base \in Nat /\ plan.warmups \in Nat /\ Cardinality(Numbered) \in Nat
    BY <1>3, <1>8, NumberedFacts DEF Top
  <2>4. counts' = [counts EXCEPT ![Server(at)] = Top + 1] /\ number' = [number EXCEPT ![j] = Top + 1]
    BY <1>6, <1>11, <2>2 DEF Send, NextCount
  <2>5. CountsAdd'
    <3> SUFFICES ASSUME NEW s \in Endpoints
                 PROVE  counts'[s] = Cardinality(NumberedBefore(s, at)) * Cardinality(Jobs)
                                       + (IF Server(at) = s THEN Cardinality(Numbered') ELSE 0)
      BY <1>2, <1>3, <1>11 DEF CountsAdd
    <3>1. CASE Server(at) = s
      <4>1. counts'[s] = Top + 1  BY <1>4, <2>4, <3>1
      <4>2. Top = Cardinality(NumberedBefore(s, at)) * Cardinality(Jobs) + Cardinality(Numbered)  BY <3>1 DEF Top, Base
      <4>3. Cardinality(NumberedBefore(s, at)) * Cardinality(Jobs) \in Nat  BY <2>3, <3>1 DEF Base
      <4> QED  BY <1>8, <2>3, <3>1, <4>1, <4>2, <4>3
    <3>2. CASE Server(at) # s  BY <1>4, <1>5, <1>11, <2>4, <3>2 DEF Tally, CountsAdd
    <3> QED  BY <3>1, <3>2
  <2>6. NumbersAreOnto'
    <3>1. /\ \A k \in Numbered : number[k] \in Base + 1 .. Top /\ (Measured(k) <=> number[k] > Base + plan.warmups)
          /\ \A n \in Base + 1 .. Top : \E k \in Numbered : number[k] = n
          /\ \A k, l \in Numbered : number[k] = number[l] => k = l
      BY <1>11 DEF Tally, NumbersAreOnto
    <3>2. number'[j] = Top + 1 /\ \A k \in Numbered : number'[k] = number[k]
      BY <1>4, <1>7, <2>4 DEF Numbered
    <3>3. Measured(j) <=> Top + 1 > Base + plan.warmups
      <4>1. Measured(j) <=> Cardinality(Numbered) >= plan.warmups  BY <1>1, WarmupsNumberedFirst
      <4> QED  BY <2>3, <4>1 DEF Top
    <3>4. Base <= Top  BY <2>3 DEF Top
    <3>5. \A k \in Numbered' : number'[k] \in Base + 1 .. Top + 1 /\ (Measured(k) <=> number'[k] > Base + plan.warmups)
      BY <1>7, <2>3, <3>1, <3>2, <3>3, <3>4
    <3>6. \A n \in Base + 1 .. Top + 1 : \E k \in Numbered' : number'[k] = n
      BY <1>7, <2>3, <3>1, <3>2
    <3>7. \A k, l \in Numbered' : number'[k] = number'[l] => k = l
      BY <1>7, <2>3, <3>1, <3>2
    <3> QED  BY <1>2, <1>3, <2>3, <3>5, <3>6, <3>7 DEF NumbersAreOnto, Measured
  <2>7. SamplesAreOfJobs'
    <3>1. \A k \in Jobs : job'[k] = "done" <=> job[k] = "done"  BY <1>1, <1>4
    <3>2. \A s \in samples : s.job \in Jobs  BY DEF IInv, TypeOK
    <3>3. \A s \in samples : s.endpoint = at => number'[s.job] = number[s.job]
      <4>1. \A s \in samples : s.endpoint = at => s.job # j  BY <1>1 DEF Tally, SamplesAreOfJobs
      <4> QED  BY <1>4, <2>4, <3>2, <4>1
    <3> QED  BY <1>1, <1>2, <1>3, <3>1, <3>2, <3>3 DEF Tally, SamplesAreOfJobs
  <2> QED  BY <1>1, <1>9, <2>5, <2>6, <2>7, EarlierStays DEF Tally
<1> QED  BY <1>10, <1>11

LEMMA AnswerFacts ==
  ASSUME NEW i, NEW j, NEW answer \in Answers(i, j)
  PROVE  /\ IsAnswer(answer)
         /\ Servers(i) # {} =>
              answer.status = SimulatedAnswer(plan.endpoints[i], plan.endpoints[Server(i)], number[j], NoTime).status
<1>1. CASE Simulated = {}
  <2>1. answer \in NetworkAnswer /\ Servers(i) = {}  BY <1>1 DEF Answers, Servers
  <2> QED  BY <2>1, LatenciesAssumption DEF NetworkAnswer, IsAnswer, NoTime
<1>2. CASE Simulated # {} /\ Servers(i) = {}
  <2>1. PICK l \in Latencies : answer = NoServerAnswer(l)  BY <1>2 DEF Answers
  <2> QED  BY <1>2, <2>1, LatenciesAssumption DEF NoServerAnswer, IsAnswer, NoTime
<1>3. CASE Simulated # {} /\ Servers(i) # {}
  <2>1. PICK l \in Latencies :
          answer = SimulatedAnswer(plan.endpoints[i], plan.endpoints[Server(i)], number[j], l)  BY <1>3 DEF Answers
  <2> QED  BY <2>1, LatenciesAssumption DEF SimulatedAnswer, SimulatedStatus, IsAnswer, NoTime
<1> QED  BY <1>1, <1>2, <1>3

LEMMA TallyAnswer == ASSUME IInv, Tally, NEW j \in Jobs, Answer(j) PROVE Tally'
<1>1. /\ Measuring /\ job[j] = "sent" /\ job' = [job EXCEPT ![j] = "done"]
      /\ UNCHANGED <<input, phase, at, number, counts, results, recommendation>>
  BY DEF Answer
<1>2. PICK answer \in Answers(at, j) : samples' = samples \cup {Sample(j, answer)}  BY DEF Answer
<1>3. plan' = plan /\ Endpoints' = Endpoints /\ Jobs' = Jobs  BY <1>1, PlanStays
<1>4. InTurn' = InTurn /\ Base' = Base /\ Server(at)' = Server(at) /\ \A s : NumberedBefore(s, at)' = NumberedBefore(s, at)
  BY <1>1, TurnStays
<1>5. job \in [Jobs -> {"waiting", "taken", "sent", "done"}]  BY DEF IInv, TypeOK
<1>6. Active(at)  BY <1>1 DEF IInv, InFlightIsActive
<1>7. Numbered' = Numbered /\ Top' = Top  BY <1>1, <1>3, <1>4, <1>5 DEF Numbered, Top
<1>8. WarmupsFirst'
  <2> SUFFICES ASSUME NEW k \in Jobs, Measured(k), job'[k] # "waiting", NEW w \in 1 .. plan.warmups
               PROVE  job'[w] = "done"
    BY <1>3 DEF WarmupsFirst, Measured
  <2>1. job[k] # "waiting"  BY <1>1, <1>5
  <2>2. job[w] = "done" /\ w \in Jobs  BY <2>1, PlanFacts DEF Tally, WarmupsFirst, IInv, TypeOK
  <2> QED  BY <1>1, <1>5, <2>2
<1>9. CountsAdd'  BY <1>1, <1>3, <1>4, <1>7 DEF Tally, CountsAdd
<1>10. NumbersAreOnto'  BY <1>1, <1>3, <1>4, <1>7 DEF Tally, NumbersAreOnto, Measured
<1>11. SamplesAreOfJobs'
  <2>1. IsAnswer(answer)  BY AnswerFacts
  <2>2. AsNumbered(j, answer)  BY AnswerFacts DEF AsNumbered, InTurn, IsNumbered
  <2>3. job[j] # "done"  BY <1>1
  <2> QED  BY <1>1, <1>2, <1>6, <2>1, <2>2, <2>3, SampleAdded
<1>12. samples \subseteq samples' /\ \A s \in samples' \ samples : s.endpoint = at  BY <1>2 DEF Sample
<1> QED  BY <1>1, <1>8, <1>9, <1>10, <1>11, <1>12, EarlierStays DEF Tally

-----------------------------------------------------------------------------
LEMMA SameSize ==
  ASSUME NEW S, NEW T, IsFiniteSet(S), NEW f \in [S -> T],
         \A a, b \in S : f[a] = f[b] => a = b, \A t \in T : \E s \in S : f[s] = t
  PROVE  IsFiniteSet(T) /\ Cardinality(S) = Cardinality(T)
<1>1. f \in Bijection(S, T)  BY Fun_IsBij
<1> QED  BY <1>1, FS_Bijection DEF ExistsBijection

(* The numbers of the endpoints before, and of the next.                     *)
LEMMA TurnEnds ==
  ASSUME IInv, Measuring, NEW s
  PROVE  Cardinality(NumberedBefore(s, at + 1)) * Cardinality(Jobs)
           = Cardinality(NumberedBefore(s, at)) * Cardinality(Jobs)
               + (IF InTurn /\ Server(at) = s THEN Cardinality(Jobs) ELSE 0)
<1>1. at \in Endpoints /\ at \in Nat  BY MeasuredIsEndpoint DEF IInv
<1>1a. (1 .. (at + 1) - 1) = (1 .. at - 1) \cup {at}
  <2>1. Len(plan.endpoints) \in Nat /\ Endpoints = 1 .. Len(plan.endpoints)  BY PlanFacts DEF IInv, TypeOK
  <2> QED  BY <1>1, <2>1
<1>2. NumberedBefore(s, at + 1) = IF InTurn /\ Server(at) = s THEN NumberedBefore(s, at) \cup {at} ELSE NumberedBefore(s, at)
  <2> DEFINE among(K) == {k \in K : IsNumbered(k) /\ Server(k) = s}
  <2>1. \A i : NumberedBefore(s, i) = among(1 .. i - 1)  BY DEF NumberedBefore, IsNumbered
  <2>2. NumberedBefore(s, at + 1) = among((1 .. at - 1) \cup {at})
    <3> HIDE DEF among
    <3>1. NumberedBefore(s, at + 1) = among(1 .. (at + 1) - 1)  BY <2>1
    <3>2. among(1 .. (at + 1) - 1) = among((1 .. at - 1) \cup {at})  BY <1>1a
    <3> QED  BY <3>1, <3>2
  <2>3. InTurn <=> IsNumbered(at)  BY <1>1 DEF InTurn
  <2> QED  BY <2>1, <2>2, <2>3
<1>3. IsFiniteSet(NumberedBefore(s, at)) /\ Cardinality(NumberedBefore(s, at)) \in Nat /\ Cardinality(Jobs) \in Nat
  BY <1>1, NumberedFacts
<1>4. at \notin NumberedBefore(s, at)  BY <1>1 DEF NumberedBefore
<1>5. CASE InTurn /\ Server(at) = s
  <2>1. Cardinality(NumberedBefore(s, at + 1)) = Cardinality(NumberedBefore(s, at)) + 1
    BY <1>2, <1>3, <1>4, <1>5, FS_AddElement
  <2>2. \A c, n \in Nat : (c + 1) * n = c * n + n  OBVIOUS
  <2> QED  BY <1>3, <1>5, <2>1, <2>2
<1>6. CASE ~(InTurn /\ Server(at) = s)
  <2>1. Cardinality(NumberedBefore(s, at + 1)) * Cardinality(Jobs) \in Nat  BY <1>2, <1>3, <1>6
  <2> QED  BY <1>2, <1>3, <1>6, <2>1
<1> QED  BY <1>5, <1>6

(* On to the next endpoint, with an entry e of this one.                     *)
LEMMA TallyMovesOn ==
  ASSUME IInv, Tally, Measuring, NEW e, results' = Append(results, e), at' = at + 1,
         UNCHANGED <<input, phase, counts, samples, recommendation>>,
         \A j \in Jobs : job'[j] = "waiting",
         InTurn /\ ~input.dry => Numbered = Jobs,
         e.measured > 0 \/ e.status = "PASS" =>
           /\ Active(at) /\ Cardinality(MeasuredSamples(at)) = plan.measured
           /\ \E speed : e = Entry(BenchmarkStatus(Metrics(at), plan.constraints.targets, input.minSuccess, speed,
                                                  plan.endpoints[at].priced), Metrics(at)),
         e.measured > 0 /\ Servers(at) # {} /\ plan.endpoints[at].auth # "missing" =>
           \A status \in {"SUCCESS", "ERROR", "TIMEOUT"} :
             Cardinality(Having(MeasuredSamples(at), status)) = Cardinality(Due(at, status))
  PROVE  Tally'
<1>1. plan' = plan /\ Endpoints' = Endpoints /\ Jobs' = Jobs /\ \A i : Active(i)' = Active(i)  BY PlanStays
<1>2. at \in Endpoints /\ at \in Nat /\ Len(results) = at - 1  BY MeasuredIsEndpoint DEF IInv, TypeOK
<1>3. PICK S : results \in Seq(S)  BY DEF IInv
<1>4. /\ DOMAIN results = 1 .. at - 1 /\ DOMAIN results' = DOMAIN results \cup {at}
      /\ \A i \in DOMAIN results : results'[i] = results[i]
      /\ results'[at] = e
  <2>1. Len(results') = Len(results) + 1 /\ DOMAIN results = 1 .. Len(results) /\ DOMAIN results' = 1 .. Len(results) + 1
        /\ \A i \in DOMAIN results : results'[i] = results[i]
        /\ results'[Len(results) + 1] = e
    BY <1>3, AppendType
  <2>2. at \in Nat /\ at >= 1
    <3>1. Len(plan.endpoints) \in Nat /\ Endpoints = 1 .. Len(plan.endpoints)  BY PlanFacts DEF IInv, TypeOK
    <3> QED  BY <1>2, <3>1
  <2> QED  BY <1>2, <2>1, <2>2
<1>5. \A i : MeasuredSamples(i)' = MeasuredSamples(i)  BY <1>1 DEF MeasuredSamples, Measured
<1>5a. \A s : NumberedBefore(s, at)' = NumberedBefore(s, at + 1)
  <2>1. \A i : Servers(i)' = Servers(i) /\ Server(i)' = Server(i)  BY ServersStay
  <2> QED  BY <1>1, <2>1 DEF NumberedBefore
<1>5b. \A s : Cardinality(NumberedBefore(s, at)') * Cardinality(Jobs) \in Nat
  <2>1. \A s : Cardinality(NumberedBefore(s, at + 1)) \in Nat /\ Cardinality(Jobs) \in Nat  BY <1>2, NumberedFacts
  <2> QED  BY <1>5a, <2>1
<1>6. Numbered' = {} /\ Cardinality(Numbered') = 0
  <2>1. Numbered' = {}  BY <1>1 DEF Numbered
  <2> QED  BY <2>1, FS_EmptySet
<1>7. WarmupsFirst'  BY <1>1 DEF WarmupsFirst
<1>8. CountsAdd'
  <2> SUFFICES ASSUME ~input.dry, NEW s \in Endpoints
               PROVE  counts[s] = Cardinality(NumberedBefore(s, at + 1)) * Cardinality(Jobs)
    <3>1. \A s \in Endpoints : counts'[s] = counts[s]
                              /\ Cardinality(NumberedBefore(s, at + 1)) * Cardinality(Jobs) \in Nat
      BY <1>5a, <1>5b
    <3> QED  BY <1>1, <1>5a, <1>6, <3>1 DEF CountsAdd
  <2>2. counts[s] = Cardinality(NumberedBefore(s, at)) * Cardinality(Jobs)
                      + (IF InTurn /\ Server(at) = s THEN Cardinality(Jobs) ELSE 0)
    BY DEF Tally, CountsAdd
  <2> QED  BY <2>2, TurnEnds
<1>9. NumbersAreOnto'
  <2>1. Base' \in Int
    BY <1>1, <1>5b DEF Base
  <2>2. Top' = Base'  BY <1>6, <2>1 DEF Top
  <2>3. \A b \in Int : b + 1 .. b = {}  OBVIOUS
  <2>4. Base' + 1 .. Top' = {}  BY <2>1, <2>2, <2>3, Zenon
  <2> QED  BY <1>6, <2>4, Zenon DEF NumbersAreOnto
<1>10. SamplesAreOfJobs'
  <2>1. \A s \in samples : s.endpoint <= at'  /\ s.endpoint # at'
    <3>1. \A s \in samples : s.endpoint \in Endpoints /\ s.endpoint <= at  BY DEF IInv, TypeOK, Tally, SamplesAreOfJobs
    <3>2. Endpoints \subseteq Int  BY PlanFacts DEF IInv, TypeOK
    <3>3. ASSUME NEW e1, e1 \in Endpoints, e1 <= at PROVE e1 <= at + 1 /\ e1 # at + 1  BY <1>2, <3>2, <3>3
    <3> QED  BY <3>1, <3>3
  <2> QED  BY <1>1, <2>1 DEF Tally, SamplesAreOfJobs
<1>11. ResultsAreScores'
  <2> SUFFICES ASSUME NEW i \in DOMAIN results', results'[i].measured > 0 \/ results'[i].status = "PASS"
               PROVE  /\ Active(i) /\ Cardinality(MeasuredSamples(i)) = plan.measured
                      /\ \E speed : results'[i] = Entry(BenchmarkStatus(Metrics(i), plan.constraints.targets,
                                       input.minSuccess, speed, plan.endpoints[i].priced), Metrics(i))
    BY <1>1, <1>5 DEF ResultsAreScores, Metrics
  <2>1. CASE i = at  BY <1>4, <2>1
  <2>2. CASE i \in DOMAIN results  BY <1>4, <2>2 DEF Tally, ResultsAreScores
  <2> QED  BY <1>4, <2>1, <2>2
<1>12. SimulatedCountsAreFixed'
  <2>1. \A i \in DOMAIN results : CountsAreFixed(i)'
    <3>1. \A i \in DOMAIN results : CountsAreFixed(i)  BY CountsSplit DEF Tally
    <3> QED  BY <1>4, <1>5, <3>1, CountsStay
  <2>2. ASSUME NEW i, i = at PROVE CountsAreFixed(i)'
    <3>1. Servers(i)' = Servers(i)  BY ServersStay
    <3>2. \A status : Due(i, status)' = Due(i, status)  BY DueStays
    <3> QED  BY <1>1, <1>4, <1>5, <2>2, <3>1, <3>2 DEF CountsAreFixed
  <2>3. \A i \in DOMAIN results' : CountsAreFixed(i)'  BY <1>4, <2>1, <2>2
  <2> QED  BY <2>3 DEF SimulatedCountsAreFixed, CountsAreFixed, Due
<1>13. ChosenOfThese'  BY DEF Tally, ChosenOfThese, Measuring
<1> QED  BY <1>7, <1>8, <1>9, <1>10, <1>11, <1>12, <1>13 DEF Tally

LEMMA TallyPassOver == ASSUME IInv, Tally, PassOver PROVE Tally'
<1>1. /\ Measuring /\ ~Refused /\ ~Active(at) /\ at' = at + 1
      /\ UNCHANGED <<input, phase, job, number, counts, samples, recommendation>>
  BY DEF PassOver
<1>2. PICK status \in {"ELIGIBLE_NOT_RUN", "INELIGIBLE"} :
        results' = Append(results, Entry(status, Aggregate({}, FALSE, FALSE)))
  BY DEF PassOver
<1> DEFINE e == Entry(status, Aggregate({}, FALSE, FALSE))
<1>3. e.measured = 0 /\ e.status # "PASS"  BY FS_EmptySet DEF Entry, Aggregate
<1>4. ASSUME NEW j \in Jobs PROVE job[j] = "waiting"
  <2>1. at \in Endpoints /\ job[j] \in {"waiting", "taken", "sent", "done"}
    BY <1>1, MeasuredIsEndpoint DEF IInv, TypeOK
  <2>2. job[j] \notin {"taken", "sent"}  BY <1>1 DEF IInv, InFlightIsActive
  <2>3. job[j] # "done"  BY <1>1, <2>1 DEF Tally, SamplesAreOfJobs
  <2> QED  BY <2>1, <2>2, <2>3
<1>5. ~(InTurn /\ ~input.dry)  BY <1>1 DEF InTurn, IsNumbered, Active
<1> HIDE DEF e
<1>6. results' = Append(results, e)  BY <1>2 DEF e
<1>7. \A j \in Jobs : job'[j] = "waiting"  BY <1>1, <1>4
<1>8. ~(e.measured > 0)  BY <1>3
<1> QED  BY <1>1, <1>3, <1>5, <1>6, <1>7, <1>8, TallyMovesOn

(* When all requests of an endpoint are answered, each has one sample, and   *)
(* those the simulator numbered had all the numbers from Base + 1 on.        *)
LEMMA AllAnswered ==
  ASSUME IInv, Tally, Measuring, \A j \in Jobs : job[j] = "done"
  PROVE  /\ Cardinality(MeasuredSamples(at)) = plan.measured
         /\ InTurn => \A status \in {"SUCCESS", "ERROR", "TIMEOUT"} :
                        Cardinality(Having(MeasuredSamples(at), status)) = Cardinality(Due(at, status))
<1> DEFINE S == MeasuredSamples(at)
<1>1. at \in Endpoints /\ plan.warmups \in Nat /\ plan.measured \in Nat
  BY MeasuredIsEndpoint, PlanFacts DEF IInv, TypeOK
<1>2. IsFiniteSet(S)  BY FS_Subset DEF Tally, SamplesAreOfJobs, MeasuredSamples
<1>3. /\ \A s \in S : s \in samples /\ s.endpoint = at /\ s.job \in Jobs /\ Measured(s.job)
      /\ \A s, t \in S : s.job = t.job => s = t
      /\ \A j \in Jobs : Measured(j) => \E s \in S : s.job = j
  BY <1>1 DEF IInv, TypeOK, Tally, SamplesAreOfJobs, MeasuredSamples
<1>4. Cardinality(S) = plan.measured
  <2> DEFINE T == plan.warmups + 1 .. plan.warmups + plan.measured
             f == [s \in S |-> s.job]
  <2>1. \A j : j \in T <=> j \in Jobs /\ Measured(j)  BY <1>1 DEF Jobs, Measured
  <2>2. f \in [S -> T]  BY <1>3, <2>1
  <2>3. \A s, t \in S : f[s] = f[t] => s = t  BY <1>3
  <2>4. \A j \in T : \E s \in S : f[s] = j  BY <1>3, <2>1
  <2>5. Cardinality(S) = Cardinality(T)
    <3> HIDE DEF f, S, T
    <3> QED  BY <1>2, <2>2, <2>3, <2>4, SameSize
  <2>6. plan.warmups + 1 \in Int /\ plan.warmups + plan.measured \in Int  BY <1>1
  <2>7. Cardinality(T) = plan.measured
    <3>1. Cardinality(T) = IF plan.warmups + 1 > plan.warmups + plan.measured THEN 0
                           ELSE (plan.warmups + plan.measured) - (plan.warmups + 1) + 1
      BY <2>6, FS_Interval
    <3> QED  BY <1>1, <3>1
  <2> QED  BY <2>5, <2>7
<1>5. ASSUME InTurn, NEW status \in {"SUCCESS", "ERROR", "TIMEOUT"}
      PROVE  Cardinality(Having(S, status)) = Cardinality(Due(at, status))
  <2> DEFINE H == Having(S, status)
             f == [s \in H |-> number[s.job]]
  <2>1. Numbered = Jobs  BY DEF Numbered
  <2>2. Base \in Nat /\ FirstNumber(at) = Base + plan.warmups /\ Top = Base + plan.warmups + plan.measured
    <3>1. Cardinality(Jobs) = plan.warmups + plan.measured
      <4>1. 1 \in Int /\ plan.warmups + plan.measured \in Int  BY <1>1
      <4>2. Cardinality(Jobs) = IF 1 > plan.warmups + plan.measured THEN 0 ELSE (plan.warmups + plan.measured) - 1 + 1
        BY <4>1, FS_Interval DEF Jobs
      <4> QED  BY <1>1, <4>2
    <3>2. Base \in Nat  BY NumberedFacts
    <3> QED  BY <1>1, <2>1, <3>1, <3>2 DEF FirstNumber, Base, Top
  <2>3. /\ \A j \in Jobs : number[j] \in Base + 1 .. Top /\ (Measured(j) <=> number[j] > Base + plan.warmups)
        /\ \A n \in Base + 1 .. Top : \E j \in Jobs : number[j] = n
        /\ \A j, k \in Jobs : number[j] = number[k] => j = k
    BY <1>5, <2>1 DEF Tally, NumbersAreOnto
  <2>4. \A s \in S : s.status = SimulatedAnswer(plan.endpoints[at], plan.endpoints[Server(at)], number[s.job], NoTime).status
    BY <1>3, <1>5 DEF Tally, SamplesAreOfJobs
  <2>5. \A s \in H : s \in S /\ s.status = status  BY DEF Having
  <2> DEFINE due(n) == SimulatedAnswer(plan.endpoints[at], plan.endpoints[Server(at)], n, NoTime).status = status
  <2>6. Due(at, status) = {n \in Base + plan.warmups + 1 .. Top : due(n)}  BY <1>1, <2>2 DEF Due
  <2>7. ASSUME NEW s \in H PROVE number[s.job] \in Due(at, status)
    <3>1. s.job \in Jobs /\ Measured(s.job) /\ due(number[s.job])  BY <1>3, <2>4, <2>5
    <3>2. number[s.job] \in Base + 1 .. Top /\ number[s.job] > Base + plan.warmups  BY <2>3, <3>1
    <3>3. number[s.job] \in Base + plan.warmups + 1 .. Top  BY <1>1, <2>2, <3>2
    <3> HIDE DEF due
    <3> QED  BY <2>6, <3>1, <3>3
  <2>8. f \in [H -> Due(at, status)]  BY <2>7
  <2>9. \A s, t \in H : f[s] = f[t] => s = t  BY <1>3, <2>3, <2>5
  <2>10. ASSUME NEW n \in Due(at, status) PROVE \E s \in H : f[s] = n
    <3>1. n \in Base + plan.warmups + 1 .. Top /\ due(n)  BY <2>6
    <3>2. n \in Base + 1 .. Top /\ n > Base + plan.warmups  BY <1>1, <2>2, <3>1
    <3>3. PICK j \in Jobs : number[j] = n /\ Measured(j)  BY <2>3, <3>2
    <3>4. PICK s \in S : s.job = j  BY <1>3, <3>3
    <3>5. s \in H  BY <2>4, <3>1, <3>3, <3>4 DEF Having
    <3> QED  BY <3>3, <3>4, <3>5
  <2>11. IsFiniteSet(H)  BY <1>2, FS_Subset DEF Having
  <2> HIDE DEF f, H
  <2>12. Cardinality(H) = Cardinality(Due(at, status))  BY <2>8, <2>9, <2>10, <2>11, SameSize
  <2> QED  BY <2>12 DEF H
<1> QED  BY <1>4, <1>5

LEMMA TallyScore == ASSUME IInv, Tally, Score PROVE Tally'
<1>1. /\ Measuring /\ Active(at) /\ \A j \in Jobs : job[j] = "done"
      /\ UNCHANGED <<input, counts, samples, recommendation>>
  BY DEF Score
<1>2. \/ phase' = "failed" /\ UNCHANGED <<at, job, number, results>>
      \/ \E speed :
           /\ results' = Append(results, Entry(BenchmarkStatus(Metrics(at), plan.constraints.targets, input.minSuccess, speed,
                                                               plan.endpoints[at].priced), Metrics(at)))
           /\ at' = at + 1 /\ job' = NoJobs(input) /\ phase' = phase
  BY DEF Score, Metrics
<1>3. CASE phase' = "failed" /\ UNCHANGED <<at, job, number, results>>
  <2>1. recommendation = None  BY <1>1 DEF Tally, ChosenOfThese, Measuring
  <2>2. ChosenOfThese'  BY <1>1, <2>1 DEF ChosenOfThese
  <2> QED  BY <1>1, <1>3, <2>1, <2>2, TallyStays
<1>4. ASSUME NEW speed,
             results' = Append(results, Entry(BenchmarkStatus(Metrics(at), plan.constraints.targets, input.minSuccess, speed,
                                                             plan.endpoints[at].priced), Metrics(at))),
             at' = at + 1, job' = NoJobs(input), phase' = phase
      PROVE  Tally'
  <2> DEFINE e == Entry(BenchmarkStatus(Metrics(at), plan.constraints.targets, input.minSuccess, speed,
                                        plan.endpoints[at].priced), Metrics(at))
  <2>1. results' = Append(results, e)  BY <1>4
  <2>2. \E v : e = Entry(BenchmarkStatus(Metrics(at), plan.constraints.targets, input.minSuccess, v,
                                         plan.endpoints[at].priced), Metrics(at))
    OBVIOUS
  <2> HIDE DEF e
  <2>3. \A j \in Jobs : job'[j] = "waiting"  BY <1>4 DEF NoJobs, Jobs, plan
  <2>4. Numbered = Jobs  BY <1>1 DEF Numbered
  <2>5. Cardinality(MeasuredSamples(at)) = plan.measured  BY <1>1, AllAnswered
  <2>6. Servers(at) # {} /\ plan.endpoints[at].auth # "missing" =>
          \A status \in {"SUCCESS", "ERROR", "TIMEOUT"} :
            Cardinality(Having(MeasuredSamples(at), status)) = Cardinality(Due(at, status))
    <3>1. at \in Endpoints /\ at \in plan.eligible  BY <1>1, MeasuredIsEndpoint DEF Active, IInv
    <3>2. Servers(at) # {} /\ plan.endpoints[at].auth # "missing" => InTurn  BY <3>1 DEF InTurn, IsNumbered
    <3> QED  BY <1>1, <3>2, AllAnswered
  <2>7. UNCHANGED <<input, phase, counts, samples, recommendation>>  BY <1>1, <1>4
  <2> QED  BY <1>1, <1>4, <2>1, <2>2, <2>3, <2>4, <2>5, <2>6, <2>7, TallyMovesOn
<1> QED  BY <1>2, <1>3, <1>4

LEMMA TallyNext == IInv /\ Tally /\ [Next]_vars => Tally'
<1> SUFFICES ASSUME IInv, Tally, [Next]_vars PROVE Tally'
  OBVIOUS
<1>1. phase # "recommended" => recommendation = None  BY DEF Tally, ChosenOfThese
<1>2. ASSUME UNCHANGED <<input, at, job, number, counts, samples, results, recommendation>>, phase # "recommended"
      PROVE  Tally'
  <2>1. ChosenOfThese'  BY <1>1, <1>2 DEF ChosenOfThese
  <2> QED  BY <1>1, <1>2, <2>1, TallyStays
<1>3. CASE Refuse  BY <1>2, <1>3 DEF Refuse
<1>4. CASE Crash  BY <1>2, <1>4 DEF Crash, Measuring
<1>5. CASE PassOver  BY <1>5, TallyPassOver
<1>6. CASE Score  BY <1>6, TallyScore
<1>7. CASE Finish  BY <1>2, <1>7 DEF Finish
<1>8. CASE Recommend
  <2>1. phase = "measured" /\ phase' = "recommended" /\ UNCHANGED <<input, at, job, number, counts, samples, results>>
    BY <1>8 DEF Recommend
  <2>2. PICK e \in IF RecommendationStatus(results) = "RECOMMENDED"
                     THEN Recommendable(results, plan.constraints.objective) ELSE {None} :
          recommendation' = [status |-> RecommendationStatus(results), endpoint |-> e]
    BY <1>8 DEF Recommend
  <2>3. plan' = plan  BY <2>1, PlanStays
  <2>4. recommendation'.endpoint = e /\ (e # None => e \in Recommendable(results, plan.constraints.objective))  BY <2>2
  <2>5. Recommendable(results, plan.constraints.objective)' = Recommendable(results, plan.constraints.objective)
    BY <2>1, <2>3
  <2>6. ChosenOfThese'  BY <2>1, <2>4, <2>5 DEF ChosenOfThese
  <2>7. recommendation = None  BY <1>1, <2>1
  <2> QED  BY <2>1, <2>6, <2>7, TallyStays
<1>9. ASSUME NEW j \in Jobs, Take(j) PROVE Tally'  BY <1>9, TallyTake
<1>10. ASSUME NEW j \in Jobs, Send(j) PROVE Tally'  BY <1>10, TallySend
<1>11. ASSUME NEW j \in Jobs, Answer(j) PROVE Tally'  BY <1>11, TallyAnswer
<1>12. CASE UNCHANGED vars
  <2>1. UNCHANGED <<input, phase, at, job, number, counts, samples, results, recommendation>>  BY <1>12 DEF vars
  <2> QED  BY <2>1, TallyStays
<1> QED  BY <1>3, <1>4, <1>5, <1>6, <1>7, <1>8, <1>9, <1>10, <1>11, <1>12 DEF Next

LEMMA TallyHolds == Spec => [](IInv /\ Tally)
<1>1. Init => IInv /\ Tally  BY InitHolds, TallyInit
<1>2. IInv /\ Tally /\ [Next]_vars => (IInv /\ Tally)'  BY NextKeeps, TallyNext
<1> QED  BY <1>1, <1>2, PTL DEF Spec

-----------------------------------------------------------------------------
(* However the workers overlap, the plan settles how many measured requests  *)
(* of a simulated endpoint time out, fail or succeed (simulator.py:          *)
(* SimulatorTransport, http_client.py: run_benchmark_plan).                  *)
THEOREM SimulatorIsRepeatable == Spec => []SimulatedCountsAreFixed
<1>1. Tally => SimulatedCountsAreFixed  BY DEF Tally
<1> QED  BY <1>1, TallyHolds, PTL

-----------------------------------------------------------------------------
LEMMA LeastOf ==
  ASSUME NEW S \in SUBSET Nat, S # {}
  PROVE  Min(S) \in S /\ \A t \in S : Min(S) <= t
<1> DEFINE Below == {p \in Nat \X Nat : p[1] < p[2]}
<1>1. Below = OpToRel(<, Nat)  BY Zenon DEF OpToRel
<1>2. IsWellFoundedOn(Below, Nat)  BY <1>1, NatLessThanWellFounded
<1> HIDE DEF Below
<1>3. PICK m \in S : \A t \in S : <<t, m>> \notin Below  BY <1>2, WFMin
<1>4. \A t \in S : ~(t < m)  BY <1>3 DEF Below
<1>5. \A t \in S : m <= t  BY <1>4
<1> QED  BY <1>5 DEF Min

(* The value of a rank is the latency of a sample, and so many samples do    *)
(* not exceed it.                                                            *)
LEMMA AtRankIs ==
  ASSUME NEW S, IsFiniteSet(S), S # {}, \A s \in S : s.latency \in Nat, NEW rank \in Int, rank <= Cardinality(S)
  PROVE  /\ AtRank(S, rank) \in Nat
         /\ \E s \in S : s.latency = AtRank(S, rank)
         /\ Cardinality({s \in S : s.latency <= AtRank(S, rank)}) >= rank
<1> DEFINE L == {s.latency : s \in S}
           f == [s \in S |-> s.latency]
           V == {v \in L : Cardinality({s \in S : s.latency <= v}) >= rank}
<1>1. f \in Surjection(S, L)  BY Fun_IsSurj
<1>2. IsFiniteSet(L) /\ L \subseteq Nat /\ L # {}  BY <1>1, FS_Surjection
<1>3. PICK m \in L : \A t \in L : t <= m
  <2> HIDE DEF L
  <2>1. L \subseteq Int  BY <1>2
  <2> QED  BY <1>2, <2>1, GreatestExists
<1>4. {s \in S : s.latency <= m} = S  BY <1>3
<1>5. m \in V  BY <1>4
<1>6. V \in SUBSET Nat /\ V # {}  BY <1>2, <1>5
<1>7. Min(V) \in V
  <2> HIDE DEF V
  <2> QED  BY <1>6, LeastOf
<1>8. AtRank(S, rank) = Min(V)  BY DEF AtRank
<1> HIDE DEF V
<1>9. AtRank(S, rank) \in V  BY <1>7, <1>8
<1>10. \A v \in V : v \in L /\ Cardinality({s \in S : s.latency <= v}) >= rank  BY DEF V
<1> QED  BY <1>2, <1>9, <1>10

(* So many of 100 samples are within the percentile.                         *)
LEMMA PercentileIs ==
  ASSUME NEW S, IsFiniteSet(S), S # {}, \A s \in S : s.latency \in Nat
  PROVE  /\ Percentile(S, 95) \in Nat
         /\ \E s \in S : s.latency = Percentile(S, 95)
         /\ 100 * Cardinality({s \in S : s.latency <= Percentile(S, 95)}) >= 95 * Cardinality(S)
<1>1. Cardinality(S) \in Nat /\ Cardinality(S) # 0  BY FS_CardinalityType, FS_EmptySet
<1> DEFINE n == Cardinality(S)
           rank == CeilDiv(95 * n, 100)
<1>2. rank \in Int /\ rank <= n /\ 100 * rank >= 95 * n
  <2> HIDE DEF n
  <2>1. n \in Nat /\ n >= 1  BY <1>1 DEF n
  <2> QED  BY <2>1 DEF CeilDiv
<1> HIDE DEF rank
<1>3. Percentile(S, 95) = AtRank(S, rank)  BY DEF Percentile, rank
<1>4. /\ AtRank(S, rank) \in Nat /\ \E s \in S : s.latency = AtRank(S, rank)
      /\ Cardinality({s \in S : s.latency <= AtRank(S, rank)}) >= rank
  BY <1>2, AtRankIs
<1>5. Cardinality({s \in S : s.latency <= AtRank(S, rank)}) \in Nat  BY FS_Subset, FS_CardinalityType
<1> HIDE DEF n
<1>6. \A c \in Nat : c >= rank => 100 * c >= 95 * n  BY <1>1, <1>2 DEF n
<1> QED  BY <1>3, <1>4, <1>5, <1>6 DEF n

LEMMA TimedFacts ==
  ASSUME IInv, Tally, NEW i
  PROVE  /\ IsFiniteSet(MeasuredSamples(i))
         /\ IsFiniteSet(Timed(MeasuredSamples(i))) /\ \A s \in Timed(MeasuredSamples(i)) : s.latency \in Nat
         /\ LET success == Having(MeasuredSamples(i), "SUCCESS")
            IN  Timed(success) = success /\ IsFiniteSet(success) /\ \A s \in success : s.latency \in Nat
<1>1. IsFiniteSet(MeasuredSamples(i))  BY FS_Subset DEF Tally, SamplesAreOfJobs, MeasuredSamples
<1>2. \A s \in MeasuredSamples(i) : s.latency \in Nat \cup {NoTime} /\ (s.status = "SUCCESS" => s.latency # NoTime)
  BY DEF Tally, SamplesAreOfJobs, MeasuredSamples
<1>3. IsFiniteSet(Timed(MeasuredSamples(i))) /\ IsFiniteSet(Having(MeasuredSamples(i), "SUCCESS"))
  BY <1>1, FS_Subset DEF Timed, Having
<1> QED  BY <1>1, <1>2, <1>3 DEF Timed, Having

(* The percentile of an endpoint's samples is one of their latencies.        *)
LEMMA P95Is ==
  ASSUME IInv, Tally, NEW i
  PROVE  LET counted == Timed(IF input.countFailures THEN MeasuredSamples(i) ELSE Having(MeasuredSamples(i), "SUCCESS"))
         IN  /\ IsFiniteSet(counted) /\ \A s \in counted : s.latency \in Nat
             /\ IF counted = {} THEN Metrics(i).p95 = NoTime
                ELSE /\ Metrics(i).p95 \in Nat /\ \E s \in counted : s.latency = Metrics(i).p95
                     /\ 100 * Cardinality({s \in counted : s.latency <= Metrics(i).p95}) >= 95 * Cardinality(counted)
<1> DEFINE counted == Timed(IF input.countFailures THEN MeasuredSamples(i) ELSE Having(MeasuredSamples(i), "SUCCESS"))
<1>1. Metrics(i).p95 = Percentile(counted, 95)  BY DEF Metrics, Aggregate
<1>2. IsFiniteSet(counted) /\ \A s \in counted : s.latency \in Nat
  <2>1. CASE input.countFailures  BY <2>1, TimedFacts
  <2>2. CASE ~input.countFailures  BY <2>2, TimedFacts
  <2> QED  BY <2>1, <2>2
<1> HIDE DEF counted
<1>3. counted = {} => Percentile(counted, 95) = NoTime  BY DEF Percentile
<1>4. counted # {} =>
        /\ Percentile(counted, 95) \in Nat /\ \E s \in counted : s.latency = Percentile(counted, 95)
        /\ 100 * Cardinality({s \in counted : s.latency <= Percentile(counted, 95)}) >= 95 * Cardinality(counted)
  BY <1>2, PercentileIs
<1>5. /\ IsFiniteSet(counted) /\ \A s \in counted : s.latency \in Nat
      /\ IF counted = {} THEN Metrics(i).p95 = NoTime
         ELSE /\ Metrics(i).p95 \in Nat /\ \E s \in counted : s.latency = Metrics(i).p95
              /\ 100 * Cardinality({s \in counted : s.latency <= Metrics(i).p95}) >= 95 * Cardinality(counted)
  BY <1>1, <1>2, <1>3, <1>4
<1> QED  BY <1>5 DEF counted

(* What it takes for an endpoint to pass.                                    *)
LEMMA PassMeans ==
  ASSUME IInv, Tally, NEW i \in DOMAIN results, results[i].status = "PASS"
  PROVE  /\ Active(i) /\ Cardinality(MeasuredSamples(i)) = plan.measured
         /\ results[i].p95 = Metrics(i).p95
         /\ Metrics(i).success >= input.minSuccess
         /\ ~RateMissed(Metrics(i).error, plan.measured, plan.constraints.targets.errorPct)
         /\ ~RateMissed(Metrics(i).timeout, plan.measured, plan.constraints.targets.timeoutPct)
         /\ ThresholdUpper(Metrics(i).p95, plan.constraints.targets.p95) = "PASS"
<1> DEFINE m == Metrics(i)
           targets == plan.constraints.targets
<1>1. PICK speed : results[i] = Entry(BenchmarkStatus(m, targets, input.minSuccess, speed, plan.endpoints[i].priced), m)
  BY DEF Tally, ResultsAreScores
<1>2. Active(i) /\ Cardinality(MeasuredSamples(i)) = plan.measured  BY DEF Tally, ResultsAreScores
<1>3. m.measured = plan.measured  BY <1>2 DEF Metrics, Aggregate
<1> HIDE DEF m, targets
<1>4. BenchmarkStatus(m, targets, input.minSuccess, speed, plan.endpoints[i].priced) = "PASS" /\ results[i].p95 = m.p95
  BY <1>1 DEF Entry
<1> DEFINE enough  == IF m.success >= input.minSuccess THEN "PASS" ELSE "REVIEW"
           counted == IF m.success > 0 /\ ~m.exact THEN "REVIEW" ELSE "PASS"
           priced  == IF plan.endpoints[i].priced THEN "PASS" ELSE "REVIEW"
           verdicts == {enough, ThresholdUpper(m.p95, targets.p95), ThresholdUpper(m.firstP95, targets.firstP95),
                        speed, counted, priced}
<1>5. /\ ~RateMissed(m.error, m.measured, targets.errorPct) /\ ~RateMissed(m.timeout, m.measured, targets.timeoutPct)
      /\ Worst(verdicts) = "PASS"
  BY <1>4 DEF BenchmarkStatus
<1>6. "FAIL" \notin verdicts /\ "REVIEW" \notin verdicts  BY <1>5 DEF Worst
<1>7. enough # "REVIEW" /\ ThresholdUpper(m.p95, targets.p95) \notin {"FAIL", "REVIEW"}  BY <1>6
<1>8. m.success >= input.minSuccess  BY <1>7
<1>9. ThresholdUpper(m.p95, targets.p95) = "PASS"  BY <1>7 DEF ThresholdUpper
<1> QED  BY <1>2, <1>3, <1>4, <1>5, <1>8, <1>9 DEF m, targets

LEMMA EarnedState == ASSUME IInv, Tally PROVE RecommendationIsEarned
<1> SUFFICES ASSUME recommendation # None, recommendation.endpoint # None PROVE RecommendationIsEarned
  BY DEF RecommendationIsEarned
<1> DEFINE e == recommendation.endpoint
           targets == plan.constraints.targets
           taken(i) == MeasuredSamples(i)
           success(i) == Having(taken(i), "SUCCESS")
           counted(i) == Timed(IF input.countFailures THEN taken(i) ELSE success(i))
           atMost(kind, target) == target = NoTarget \/ 100 * Cardinality(kind) <= target * plan.measured
<1>1. /\ e \in Passing(results)
      /\ plan.constraints.objective = "lowest_latency" =>
           \A j \in Passing(results) : NoFaster(results[e], results[j])
  BY DEF Tally, ChosenOfThese, Recommendable
<1>2. \A i \in Passing(results) : i \in DOMAIN results /\ results[i].status = "PASS"  BY DEF Passing
<1>3. e \in plan.eligible /\ Cardinality(taken(e)) = plan.measured  BY <1>1, <1>2, PassMeans DEF Active
<1>4. Cardinality(success(e)) >= input.minSuccess  BY <1>1, <1>2, PassMeans DEF Metrics, Aggregate
<1>5. plan.measured \in Nat /\ targets.p95 \in Int /\ targets.errorPct \in Int /\ targets.timeoutPct \in Int
  BY InputsAssumption DEF IInv, TypeOK, plan
<1>6. \A status : Cardinality(Having(taken(e), status)) \in Nat
  <2>1. IsFiniteSet(taken(e))  BY TimedFacts
  <2>2. \A status : IsFiniteSet(Having(taken(e), status))  BY <2>1, FS_Subset DEF Having
  <2> QED  BY <2>2, FS_CardinalityType
<1>7. atMost(Having(taken(e), "ERROR"), targets.errorPct) /\ atMost(Having(taken(e), "TIMEOUT"), targets.timeoutPct)
  <2>1. /\ ~RateMissed(Cardinality(Having(taken(e), "ERROR")), plan.measured, targets.errorPct)
        /\ ~RateMissed(Cardinality(Having(taken(e), "TIMEOUT")), plan.measured, targets.timeoutPct)
    BY <1>1, <1>2, PassMeans DEF Metrics, Aggregate
  <2>2. \A c \in Nat, m \in Nat, t \in Int : ~RateMissed(c, m, t) => t = NoTarget \/ 100 * c <= t * m
    <3> SUFFICES ASSUME NEW c \in Nat, NEW m \in Nat, NEW t \in Int, ~(100 * c > t * m) PROVE 100 * c <= t * m
      BY DEF RateMissed
    <3>1. t * m \in Int  OBVIOUS
    <3> QED  BY <3>1
  <2> QED  BY <1>5, <1>6, <2>1, <2>2
<1>8. targets.p95 # NoTarget =>
        100 * Cardinality({s \in counted(e) : s.latency <= targets.p95}) >= 95 * Cardinality(counted(e))
  <2> SUFFICES ASSUME targets.p95 # NoTarget
               PROVE  100 * Cardinality({s \in counted(e) : s.latency <= targets.p95}) >= 95 * Cardinality(counted(e))
    OBVIOUS
  <2> DEFINE p == Metrics(e).p95
             within(v) == {s \in counted(e) : s.latency <= v}
  <2>1. p # NoTime /\ p <= targets.p95
    <3>1. ThresholdUpper(p, targets.p95) = "PASS"  BY <1>1, <1>2, PassMeans
    <3> HIDE DEF p, targets
    <3> QED  BY <3>1 DEF ThresholdUpper
  <2>2. /\ p \in Nat /\ 100 * Cardinality(within(p)) >= 95 * Cardinality(counted(e))
        /\ IsFiniteSet(counted(e)) /\ \A s \in counted(e) : s.latency \in Nat
    BY <2>1, P95Is
  <2>3. within(p) \subseteq within(targets.p95)  BY <1>5, <2>1, <2>2
  <2>4. IsFiniteSet(within(targets.p95))  BY <2>2, FS_Subset
  <2>5. IsFiniteSet(within(p)) /\ Cardinality(within(p)) <= Cardinality(within(targets.p95))
    <3> HIDE DEF within
    <3> QED  BY <2>3, <2>4, FS_Subset
  <2>6. Cardinality(within(p)) \in Nat /\ Cardinality(within(targets.p95)) \in Nat /\ Cardinality(counted(e)) \in Nat
    BY <2>2, <2>4, <2>5, FS_CardinalityType
  <2> HIDE DEF within, counted, p
  <2>7. 100 * Cardinality(within(targets.p95)) >= 95 * Cardinality(counted(e))  BY <2>2, <2>5, <2>6
  <2> QED  BY <2>7 DEF within
<1>9. plan.constraints.objective = "lowest_latency" /\ ~input.countFailures =>
        \A i \in Passing(results) \ {e} :
          success(i) # {} => \E s \in success(i), t \in success(e) : s.latency >= t.latency
  <2> SUFFICES ASSUME plan.constraints.objective = "lowest_latency", ~input.countFailures,
                      NEW i \in Passing(results), success(i) # {}
               PROVE  \E s \in success(i), t \in success(e) : s.latency >= t.latency
    OBVIOUS
  <2>1. counted(i) = success(i) /\ counted(e) = success(e)  BY TimedFacts
  <2>2. Metrics(i).p95 \in Nat /\ \E s \in success(i) : s.latency = Metrics(i).p95  BY <2>1, P95Is
  <2>3. NoFaster(results[e], results[i]) /\ results[e].p95 = Metrics(e).p95 /\ results[i].p95 = Metrics(i).p95
    BY <1>1, <1>2, PassMeans
  <2>4. Metrics(e).p95 # NoTime /\ Metrics(e).p95 <= Metrics(i).p95  BY <2>2, <2>3 DEF NoFaster, NoTime
  <2>5. Metrics(e).p95 \in Nat /\ \E t \in success(e) : t.latency = Metrics(e).p95  BY <2>1, <2>4, P95Is
  <2> HIDE DEF success
  <2> QED  BY <2>2, <2>4, <2>5
<1> QED  BY <1>3, <1>4, <1>7, <1>8, <1>9 DEF RecommendationIsEarned

(* What is recommended is borne out by its own samples (scoring.py:          *)
(* evaluate_benchmark_status, metrics.py: percentile, recommendation.py:     *)
(* build_recommendation).                                                    *)
THEOREM EarnedHolds == Spec => []RecommendationIsEarned
<1>1. IInv /\ Tally => RecommendationIsEarned  BY EarnedState
<1> QED  BY <1>1, TallyHolds, PTL

=============================================================================
