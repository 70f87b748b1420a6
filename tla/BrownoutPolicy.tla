--------------------------- MODULE BrownoutPolicy ---------------------------
(* brownout-policy-compiler: which service a target under attack belongs to, *)
(* which temporary actions its policy offers, for how long and at what risk. *)
(* Services come in the order of their ids; addresses, networks and ports    *)
(* are sets, and the lower of two configured limits stands for both.         *)
EXTENDS Integers, Sequences, FiniteSets, FiniteSetsExt

CONSTANTS AdminAccess, VpnAccess  \* the ids the compiler treats apart

ActionType ==
  {"ALLOW_TRUSTED_SOURCES", "DENY_UNTRUSTED", "RATE_LIMIT", "RATE_LIMIT_UNTRUSTED", "PRIORITIZE",
   "DEPRIORITIZE", "SHED_LOW_PRIORITY", "CHALLENGE", "TEMPORARY_BLOCK_PORT",
   "TEMPORARY_NULL_ROUTE", "MONITOR_ONLY", "NO_ACTION"}

BrownoutMode == {"PROTECT", "RESTRICT_TO_TRUSTED", "RATE_LIMIT", "SHED", "ISOLATE", "NO_ACTION"}

Low == 1
Medium == 2
High == 3
Critical == 4

-----------------------------------------------------------------------------
ProtocolsMatch(p, q) == p = q \/ p = "any" \/ q = "any"

(* A target whose ports the event leaves out may be on any port.             *)
PortsOverlap(target, endpoint) == target.portsKnown => target.ports \cap endpoint.ports # {}

EndpointMatches(target, endpoint) ==
  /\ target.ip \in endpoint.ips
  /\ ProtocolsMatch(target.protocol, endpoint.protocol)
  /\ PortsOverlap(target, endpoint)

(* The services and endpoints a target may stand for.                        *)
TargetMatches(services, target) ==
  UNION {{<<i, j>> : j \in {j \in DOMAIN services[i].endpoints :
                             EndpointMatches(target, services[i].endpoints[j])}} : i \in DOMAIN services}

InFileOrder(m, n) == m[1] < n[1] \/ (m[1] = n[1] /\ m[2] < n[2])

Before(services, m, n) ==
  LET p == services[m[1]].priority  q == services[n[1]].priority
  IN  p < q \/ (p = q /\ InFileOrder(m, n))

(* Mutant: the first match in the file is taken, whatever its priority.      *)
ChooseFirst(services, matches) ==
  CHOOSE m \in matches : \A n \in matches \ {m} : InFileOrder(m, n)

(* Of several the most critical service, then the first in order.            *)
Chosen(services, matches) ==
  CHOOSE m \in matches : \A n \in matches \ {m} : Before(services, m, n)

(* Mutant: services are held to share an address on the target's ports only. *)
SharingOnPorts(services, target) ==
  {services[i].id : i \in {n \in DOMAIN services : \E j \in DOMAIN services[n].endpoints :
                             EndpointMatches(target, services[n].endpoints[j])}}

(* The ids of the services with an endpoint at the target's address.  That   *)
(* ids differ is checked nowhere: two entries of one id are one service here.*)
SharingDestination(services, target) ==
  {services[i].id : i \in {n \in DOMAIN services : \E j \in DOMAIN services[n].endpoints :
                             target.ip \in services[n].endpoints[j].ips}}

-----------------------------------------------------------------------------
TtlFor(type, service, limits) ==
  Min({limits.default, limits.max, limits.priority[service.priority], service.maxTtl}
      \cup IF type = "TEMPORARY_NULL_ROUTE" THEN {limits.nullRoute} ELSE {})

DefaultRisk(type) ==
  CASE type \in {"PRIORITIZE", "MONITOR_ONLY", "NO_ACTION", "ALLOW_TRUSTED_SOURCES"} -> Low
    [] type \in {"DENY_UNTRUSTED", "TEMPORARY_BLOCK_PORT"}                           -> High
    [] type = "TEMPORARY_NULL_ROUTE"                                                 -> Critical
    [] OTHER                                                                         -> Medium

ScoreRisk(type, service, packRisk) ==
  IF type = "TEMPORARY_NULL_ROUTE" THEN Critical
  ELSE Max({IF type \in DOMAIN packRisk THEN packRisk[type] ELSE DefaultRisk(type)}
           \cup IF \/ type = "SHED_LOW_PRIORITY" /\ service.priority = 3
                   \/ service.approval
                   \/ service.id \in {AdminAccess, VpnAccess} /\ type # "PRIORITIZE"
                THEN {High} ELSE {})

ApprovalRequired(type, service) ==
  service.approval \/ type \in {"DENY_UNTRUSTED", "TEMPORARY_NULL_ROUTE"}

TrustedKnown(service) == service.trusted = "known"

(* What priority and mode let the compiler offer, before the service's own   *)
(* list of allowed actions.                                                  *)
Offered(service, context, options) ==
  LET challenge == IF context = "application" THEN {"CHALLENGE"} ELSE {}
      trusted == IF TrustedKnown(service) THEN {"ALLOW_TRUSTED_SOURCES", "RATE_LIMIT_UNTRUSTED"} ELSE {}
      lockdown == IF /\ service.mode = "RESTRICT_TO_TRUSTED"
                     /\ service.id = AdminAccess => options.adminLockdown
                  THEN {"DENY_UNTRUSTED"} ELSE {}
      nullRoute == IF options.nullRoute /\ service.mode \in {"SHED", "ISOLATE"}
                   THEN {"TEMPORARY_NULL_ROUTE"} ELSE {}
  IN  CASE service.priority = 0 -> {"PRIORITIZE"} \cup challenge \cup trusted
        [] service.priority = 1 -> {"PRIORITIZE", "RATE_LIMIT"} \cup challenge \cup trusted \cup lockdown
        [] service.priority = 2 -> {"RATE_LIMIT", "DEPRIORITIZE"} \cup challenge
        [] OTHER -> {"SHED_LOW_PRIORITY", "RATE_LIMIT", "DEPRIORITIZE", "TEMPORARY_BLOCK_PORT"}
                      \cup challenge \cup nullRoute

CandidateTypes(service, context, options) ==
  IF service.mode = "NO_ACTION"
  THEN IF "NO_ACTION" \in service.allowed THEN {"NO_ACTION"} ELSE {"MONITOR_ONLY"} \cap service.allowed
  ELSE Offered(service, context, options) \cap service.allowed

(* A null route that was asked for where it may not be.                      *)
CandidateBlockers(service, options) ==
  IF /\ service.mode # "NO_ACTION" /\ options.nullRoute
     /\ "TEMPORARY_NULL_ROUTE" \in service.allowed
     /\ \/ service.priority \in {0, 1}
        \/ service.priority \in {3, 4} /\ service.mode \notin {"SHED", "ISOLATE"}
  THEN {"UNSAFE_NULL_ROUTE_REQUESTED"} ELSE {}

(* A lockdown of the admin service that was held back.                       *)
CandidateWarnings(service, options) ==
  IF /\ service.priority = 1 /\ service.mode = "RESTRICT_TO_TRUSTED"
     /\ "DENY_UNTRUSTED" \in service.allowed
     /\ service.id = AdminAccess /\ ~options.adminLockdown
  THEN {"APPROVAL_REQUIRED_ACTION_PRESENT"} ELSE {}

(* Why a candidate is not made into an action, after all.                    *)
Refusal(type, service, services, target, limits) ==
  IF type \in {"RATE_LIMIT_UNTRUSTED", "DENY_UNTRUSTED"} /\ ~TrustedKnown(service)
    THEN {"TRUSTED_SOURCE_REQUIRED_BUT_MISSING"}
  ELSE IF TtlFor(type, service, limits) <= 0 THEN {"TTL_MISSING"}
  ELSE IF type = "TEMPORARY_NULL_ROUTE" /\ Cardinality(SharingDestination(services, target)) > 1
    THEN {"NULL_ROUTE_COLLATERAL_RISK"}
  ELSE {}

-----------------------------------------------------------------------------
NoChange == {"MONITOR_ONLY", "NO_ACTION"}

Degrading ==
  {"RATE_LIMIT", "SHED_LOW_PRIORITY", "DEPRIORITIZE", "TEMPORARY_BLOCK_PORT", "TEMPORARY_NULL_ROUTE",
   "DENY_UNTRUSTED"}

QueueFor(action) ==
  IF action.type \in NoChange THEN "review_only"
  ELSE IF action.type \in Degrading THEN "degrade_candidate"
  ELSE IF action.priority \in {0, 1} THEN "protect_now" ELSE "review_only"

NeedsOperator(action) == action.approval \/ action.risk >= High

Informational ==
  {"POLICY_PACK_NOT_SUPPLIED_USING_DEFAULT", "REVIEW_ONLY_OUTPUT", "SERVICE_HAS_NO_TRUSTED_SOURCES",
   "SOURCE_PREFIXES_ADVISORY_ONLY"}

(* The status of a brief made from the plan alone, as explain makes it: it   *)
(* does not look at the warnings.                                            *)
BriefStatus(actions, warnings, blockers) ==
  IF blockers # {} THEN "FAIL"
  ELSE IF \E i \in DOMAIN actions : NeedsOperator(actions[i]) THEN "REVIEW" ELSE "PASS"

LintStatus(actions, warnings, blockers) ==
  IF blockers # {} THEN "FAIL"
  ELSE IF (\E i \in DOMAIN actions : NeedsOperator(actions[i])) \/ warnings \ Informational # {}
    THEN "REVIEW" ELSE "PASS"
=============================================================================
