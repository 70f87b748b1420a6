----------------------------- MODULE BrownoutRun -----------------------------
(* brownout-policy-compiler: one compilation of an event into a plan, its    *)
(* rollback plan and its status; then the incident, in which operators enter *)
(* what they did, and the post-incident diff of plan and entries.            *)
EXTENDS BrownoutPolicy, SequencesExt

CONSTANTS
  Inputs,        \* services, event, options, limits and policy pack
  MaxRecords,    \* entries of actual changes in one incident
  MaxFollowed    \* the longest plan whose incident is followed

(* Lists come in some order, priorities are those of the schema, and a limit *)
(* may be any number.                                                        *)
IsList(s) == s \in Seq(Range(s))

ServiceAssumption(service) ==
  service.priority \in 0..4 /\ service.maxTtl \in Int /\ IsList(service.endpoints)

LimitsAssumption(limits) ==
  /\ {limits.default, limits.max, limits.nullRoute, limits.actions} \subseteq Int
  /\ limits.priority \in [0..4 -> Int]

InputsAssumption ==
  \A in \in Inputs :
    /\ IsList(in.services) /\ \A i \in DOMAIN in.services : ServiceAssumption(in.services[i])
    /\ IsList(in.event.targets) /\ in.event.targets # <<>>
    /\ \A t \in DOMAIN in.event.targets : in.event.targets[t].ip \in Int
    /\ LimitsAssumption(in.limits) /\ in.options.maxActions \in Int
    /\ \A type \in DOMAIN in.packRisk : in.packRisk[type] \in Low..Critical

ASSUME InputsAssumption

VARIABLES
  input,
  phase,      \* "validate", "match", "propose", "assemble", "decide", "refused",
              \* "incident", "closed"
  matches,    \* per event target: the service and endpoint chosen, or <<>>
  proposed,   \* the actions the matched targets call for
  actions,    \* the plan's
  warnings, blockers,
  rollback,   \* the rollback plan: its actions and its deadline
  status,     \* the summary's lint status
  records,    \* the actual changes the operators entered
  verdict     \* the status of the post-incident diff

vars == <<input, phase, matches, proposed, actions, warnings, blockers, rollback, status, records, verdict>>

services == input.services
targets == input.event.targets

NoRollback == [entries |-> <<>>, deadline |-> 0]

Init ==
  /\ input \in Inputs
  /\ phase = "validate"
  /\ matches = <<>> /\ proposed = {} /\ actions = <<>>
  /\ warnings = {} /\ blockers = {}
  /\ rollback = NoRollback /\ status = "none"
  /\ records = <<>> /\ verdict = "none"

Codes(condition, codes) == IF condition THEN codes ELSE {}

-----------------------------------------------------------------------------
EventWarnings(event) ==
  Codes(event.lowConfidence, {"EVENT_CONFIDENCE_LOW"})
    \cup Codes(\E i \in DOMAIN event.targets : ~event.targets[i].portsKnown, {"EVENT_TARGET_PORTS_MISSING"})
    \cup Codes(\E i \in DOMAIN event.targets : ~event.targets[i].measured, {"EVENT_METRICS_MISSING"})
    \cup Codes(event.prefixes, {"SOURCE_PREFIXES_ADVISORY_ONLY"})
    \cup Codes(event.prefixes /\ event.spoofing, {"SPOOFING_LIKELY_SOURCE_BLOCKS_SKIPPED"})

EventBlockers(event, strict) ==
  Codes(strict, EventWarnings(event) \cap {"EVENT_CONFIDENCE_LOW", "EVENT_TARGET_PORTS_MISSING"})

ServiceWarnings(ss) ==
  Codes(\E i \in DOMAIN ss : ~ss[i].complete, {"SERVICE_METADATA_MISSING"})
    \cup Codes(\E i \in DOMAIN ss : ss[i].trusted = "none", {"SERVICE_HAS_NO_TRUSTED_SOURCES"})
    \cup Codes(\E i \in DOMAIN ss : ss[i].trusted = "unknown", {"TRUSTED_SOURCE_GROUP_MISSING"})

ServiceBlockers(ss, strict, failOnP0Shed) ==
  Codes(strict /\ \E i \in DOMAIN ss : ~ss[i].complete, {"SERVICE_METADATA_MISSING"})
    \cup Codes(strict /\ \E i \in DOMAIN ss : ss[i].trusted = "unknown", {"TRUSTED_SOURCE_REQUIRED_BUT_MISSING"})
    \cup Codes((strict \/ failOnP0Shed) /\ \E i \in DOMAIN ss : ss[i].priority = 0 /\ ss[i].mode = "SHED",
               {"P0_SERVICE_MARKED_SHED"})

Validate ==
  /\ phase = "validate" /\ phase' = "match"
  /\ warnings' = EventWarnings(input.event) \cup ServiceWarnings(services)
       \cup Codes(~input.options.failOnP0Shed /\ ~input.options.strict
                    /\ \E i \in DOMAIN services : services[i].priority = 0 /\ services[i].mode = "SHED",
                  {"P0_SERVICE_MARKED_SHED"})
       \cup Codes(input.options.sourceBlocks /\ input.event.spoofing, {"SPOOFING_LIKELY_SOURCE_BLOCKS_SKIPPED"})
  /\ blockers' = EventBlockers(input.event, input.options.strict)
       \cup ServiceBlockers(services, input.options.strict, input.options.failOnP0Shed)
  /\ UNCHANGED <<input, matches, proposed, actions, rollback, status, records, verdict>>

(* One event target at a time is mapped to a service, or to none.            *)
MatchTarget ==
  /\ phase = "match"
  /\ LET found == TargetMatches(services, targets[Len(matches) + 1])
     IN  /\ matches' = Append(matches, IF found = {} THEN <<>> ELSE Chosen(services, found))
         /\ warnings' = warnings
              \cup Codes(found = {}, {"UNMAPPED_ATTACK_TARGET"})
              \cup Codes(Cardinality(found) > 1, {"TARGET_MATCHES_MULTIPLE_SERVICES"})
         /\ blockers' = blockers
              \cup Codes(found = {} /\ (input.options.strict \/ input.options.failOnUnmatched),
                         {"UNMAPPED_ATTACK_TARGET"})
  /\ phase' = IF Len(matches') = Len(targets) THEN "propose" ELSE "match"
  /\ UNCHANGED <<input, proposed, actions, rollback, status, records, verdict>>

-----------------------------------------------------------------------------
MakeAction(type, t) ==
  LET service == services[matches[t][1]]
      endpoint == service.endpoints[matches[t][2]]
      approval == ApprovalRequired(type, service)
      risk == ScoreRisk(type, service, input.packRisk)
  IN  [type |-> type, service |-> matches[t][1], priority |-> service.priority, target |-> t,
       protocol |-> endpoint.protocol,
       ports |-> IF targets[t].portsKnown /\ targets[t].ports # {} THEN targets[t].ports ELSE endpoint.ports,
       ttl |-> TtlFor(type, service, input.limits), approval |-> approval,
       risk |-> IF approval THEN Max({risk, High}) ELSE risk]

(* No service stands behind it: service 0, priority P4.                      *)
MakeMonitorOnly(t, approval, risk) ==
  [type |-> "MONITOR_ONLY", service |-> 0, priority |-> 4, target |-> t,
   protocol |-> targets[t].protocol, ports |-> targets[t].ports,
   ttl |-> Min({input.limits.default, input.limits.max}), approval |-> approval, risk |-> risk]

Proposals(t) ==
  IF matches[t] = <<>> THEN [made |-> {}, warnings |-> {}, blockers |-> {}]
  ELSE
    LET service == services[matches[t][1]]
        candidates == CandidateTypes(service, input.event.context, input.options)
        Refused(type) == Refusal(type, service, services, targets[t], input.limits)
    IN  [made |-> {MakeAction(type, t) : type \in {c \in candidates : Refused(c) = {}}},
         warnings |-> CandidateWarnings(service, input.options),
         blockers |-> CandidateBlockers(service, input.options) \cup UNION {Refused(type) : type \in candidates}]

Propose ==
  /\ phase = "propose" /\ phase' = "assemble"
  /\ proposed' = UNION {Proposals(t).made : t \in DOMAIN targets}
  /\ warnings' = warnings \cup UNION {Proposals(t).warnings : t \in DOMAIN targets}
  /\ blockers' = blockers \cup UNION {Proposals(t).blockers : t \in DOMAIN targets}
  /\ UNCHANGED <<input, matches, actions, rollback, status, records, verdict>>

-----------------------------------------------------------------------------
UnmatchedMonitors ==
  {MakeMonitorOnly(t, FALSE, Low) : t \in {u \in DOMAIN targets : matches[u] = <<>>}}

SourceReview ==
  IF input.options.sourceBlocks /\ input.event.prefixes /\ ~input.event.spoofing
  THEN {MakeMonitorOnly(1, TRUE, High)} ELSE {}

AllActions == proposed \cup UnmatchedMonitors \cup SourceReview

TypeOrder ==
  <<"ALLOW_TRUSTED_SOURCES", "CHALLENGE", "DENY_UNTRUSTED", "DEPRIORITIZE", "MONITOR_ONLY", "NO_ACTION",
    "PRIORITIZE", "RATE_LIMIT", "RATE_LIMIT_UNTRUSTED", "SHED_LOW_PRIORITY", "TEMPORARY_BLOCK_PORT",
    "TEMPORARY_NULL_ROUTE">>

(* The first entry of a service's id: the entries come in the order of ids.  *)
IdPlace(service) == Min({i \in DOMAIN services : services[i].id = services[service].id})

(* By priority, falling risk, service id, type and address, else as made: in *)
(* the order of the targets, no two of which share an action.                *)
SortKey(action) ==
  <<action.priority, Critical - action.risk,
    IF action.service = 0 THEN Len(services) + 1 ELSE IdPlace(action.service),
    CHOOSE n \in DOMAIN TypeOrder : TypeOrder[n] = action.type,
    targets[action.target].ip, action.target>>

LexLess(s, t) == \E n \in DOMAIN s : s[n] < t[n] /\ \A m \in 1..(n - 1) : s[m] = t[m]

(* The elements of a finite set, the r-th with r - 1 others before it.       *)
InOrder(S, before) ==
  [r \in 1..Cardinality(S) |-> CHOOSE a \in S : Cardinality({b \in S : <<b, a>> \in before}) = r - 1]

SortedActions(all) == InOrder(all, {p \in all \X all : LexLess(SortKey(p[1]), SortKey(p[2]))})

(* max_actions 0 counts as not given, and a negative one cuts from the end.  *)
ActionLimit == IF input.options.maxActions = 0 THEN input.limits.actions ELSE input.options.maxActions

Capped(list) ==
  SubSeq(list, 1, IF ActionLimit < 0 THEN Len(list) + ActionLimit ELSE Min({ActionLimit, Len(list)}))

(* The rollback of an action takes its number, n, and falls due at its end.  *)
MakeRollback(list) ==
  LET changing == {k \in DOMAIN list : list[k].type \notin NoChange}
      order == InOrder(changing, {p \in changing \X changing : p[1] > p[2]})
  IN  [entries |-> [n \in DOMAIN order |-> [action |-> order[n], due |-> list[order[n]].ttl]],
       deadline |-> IF changing = {} THEN 0 ELSE Min({list[k].ttl : k \in changing})]

Assemble ==
  /\ phase = "assemble" /\ phase' = "decide"
  /\ actions' = Capped(SortedActions(AllActions))
  /\ LET approval == \E k \in DOMAIN actions' : actions'[k].approval
     IN  /\ warnings' = warnings \cup {"REVIEW_ONLY_OUTPUT"}
              \cup Codes(Cardinality(AllActions) > ActionLimit, {"ACTION_LIMIT_REACHED"})
              \cup Codes(approval, {"APPROVAL_REQUIRED_ACTION_PRESENT"})
         /\ blockers' = blockers
              \cup Codes(approval /\ input.options.strict, {"APPROVAL_REQUIRED_ACTION_PRESENT"})
  /\ rollback' = MakeRollback(actions')
  /\ UNCHANGED <<input, matches, proposed, status, records, verdict>>

(* A strict compilation with blockers writes no file.                        *)
Refuse ==
  /\ phase = "decide" /\ input.options.strict /\ blockers # {}
  /\ phase' = "refused"
  /\ UNCHANGED <<input, matches, proposed, actions, warnings, blockers, rollback, status, records, verdict>>

Publish ==
  /\ phase = "decide" /\ ~(input.options.strict /\ blockers # {})
  /\ phase' = "incident"
  /\ status' = LintStatus(actions, warnings, blockers)
  /\ UNCHANGED <<input, matches, proposed, actions, warnings, blockers, rollback, records, verdict>>

-----------------------------------------------------------------------------
(* Id 0: an entry without one; beyond the plan: an id it does not have.      *)
RecordChange ==
  /\ phase = "incident" /\ Len(actions) <= MaxFollowed /\ Len(records) < MaxRecords
  /\ \E id \in 0..(Len(actions) + 1), did \in {"applied", "skipped", "other"}, evidence \in BOOLEAN :
       /\ evidence => did = "applied"
       /\ records' = Append(records, [id |-> id, did |-> did, evidence |-> evidence])
  /\ UNCHANGED <<input, phase, matches, proposed, actions, warnings, blockers, rollback, status, verdict>>

Entered(id) == {k \in DOMAIN records : records[k].id = id}

(* Mutant: the first entry for an action is the one that counts.             *)
FirstEntry(id) == records[Min(Entered(id))]

(* The last entry for an action takes the place of those before it.          *)
LastEntry(id) == records[Max(Entered(id))]

NotRecorded(id) == Entered(id) = {} \/ LastEntry(id).did \notin {"applied", "skipped"}

LacksEvidence(id) ==
  /\ Entered(id) # {} /\ LastEntry(id).did = "applied"
  /\ actions[id].type \notin NoChange /\ ~LastEntry(id).evidence

CloseIncident ==
  /\ phase = "incident" /\ phase' = "closed"
  /\ verdict' = IF \/ \E id \in DOMAIN actions : NotRecorded(id) \/ LacksEvidence(id)
                   \/ \E k \in DOMAIN records : records[k].id > Len(actions)
                THEN "REVIEW_ACTUAL_CHANGES" ELSE "MATCHED_REVIEW_RECORDS"
  /\ UNCHANGED <<input, matches, proposed, actions, warnings, blockers, rollback, status, records>>

Next ==
  \/ Validate \/ MatchTarget \/ Propose \/ Assemble \/ Refuse \/ Publish
  \/ RecordChange \/ CloseIncident

Spec == Init /\ [][Next]_vars

-----------------------------------------------------------------------------
Published == phase \in {"incident", "closed"}

(* A null route in a published plan was asked for, waits for approval, ends  *)
(* by the null-route limit, and makes one service of low priority            *)
(* unreachable: no service of another id has an endpoint at that address, on *)
(* any port or protocol (compile_rules.py: candidate_action_types,           *)
(* enforce_null_route_safety).                                               *)
NullRouteHitsOneService ==
  Published =>
    \A k \in DOMAIN actions : actions[k].type = "TEMPORARY_NULL_ROUTE" =>
      /\ input.options.nullRoute /\ actions[k].approval
      /\ actions[k].ttl \in 1..input.limits.nullRoute
      /\ services[actions[k].service].priority \in {3, 4}
      /\ \A i \in DOMAIN services : \A j \in DOMAIN services[i].endpoints :
           targets[actions[k].target].ip \in services[i].endpoints[j].ips
             => services[i].id = services[actions[k].service].id

(* What a published plan would degrade reaches no endpoint of a service more *)
(* critical than the one it is meant for, but by one way: the action takes   *)
(* its protocol from the endpoint, and where that is "any" it is wider than  *)
(* the attack, and may reach an endpoint of a protocol that is not attacked  *)
(* (normalize.py: match_event_targets, compile_rules.py: make_action).       *)
DegradeSparesCritical ==
  Published =>
    \A k \in DOMAIN actions : QueueFor(actions[k]) = "degrade_candidate" =>
      LET target == targets[actions[k].target]
          reached == [ip |-> target.ip, protocol |-> actions[k].protocol, ports |-> actions[k].ports, portsKnown |-> TRUE]
      IN  \A i \in DOMAIN services : \A j \in DOMAIN services[i].endpoints :
            EndpointMatches(reached, services[i].endpoints[j])
              => \/ services[i].priority >= actions[k].priority
                 \/ actions[k].protocol = "any" /\ ~ProtocolsMatch(target.protocol, services[i].endpoints[j].protocol)

(* A plan passes only when nothing in it waits for an operator, no safety    *)
(* check failed, every target was mapped to one endpoint, and no action the  *)
(* targets called for was cut off; a brief made from the plan alone fails    *)
(* when the summary does and is never stricter (report.py: build_summary,    *)
(* decision_package.py: build_decision_brief, README: Output interpretation).*)
PassLeavesNothingOpen ==
  Published =>
    /\ status = "PASS" =>
         /\ \A k \in DOMAIN actions : ~NeedsOperator(actions[k])
         /\ \A t \in DOMAIN targets : Cardinality(TargetMatches(services, targets[t])) = 1
         /\ \A t \in DOMAIN targets : \A type \in CandidateTypes(services[matches[t][1]], input.event.context, input.options) :
              \E k \in DOMAIN actions : actions[k].type = type /\ actions[k].target = t
    /\ status = "FAIL" <=> BriefStatus(actions, warnings, blockers) = "FAIL"
    /\ status = "PASS" => BriefStatus(actions, warnings, blockers) = "PASS"

(* When the diff finds that plan and entries match, the last entry for every *)
(* change the rollback plan must take back, and that is every action which   *)
(* changes anything, says it was not made, or was made and taken back with   *)
(* evidence, and the deadline is no later than any of them                   *)
(* (rollback.py: make_rollback_plan, workflows.py: build_post_incident_diff).*)
MatchedMeansTakenBack ==
  verdict = "MATCHED_REVIEW_RECORDS" =>
    \A id \in DOMAIN actions : actions[id].type \notin NoChange =>
      /\ \E k \in DOMAIN records :
           /\ records[k].id = id /\ \A l \in (k + 1)..Len(records) : records[l].id # id
           /\ records[k].did = "skipped" \/ records[k].evidence
      /\ \E n \in DOMAIN rollback.entries :
           rollback.entries[n] = [action |-> id, due |-> actions[id].ttl]
      /\ rollback.deadline <= actions[id].ttl
=============================================================================
