----------------------------- MODULE DrFindings -----------------------------
(***************************************************************************)
(* dr-prereq-lint, from query-level evidence to findings: items are grouped *)
(* into observations, observations of one address or name are merged,      *)
(* looked up in the recovery set, excused by accepted risks, merged once    *)
(* more, and given a severity and a decision.                              *)
(***************************************************************************)
EXTENDS DrEvidence, TLC

CONSTANTS Rank,             \* text -> its place in the order of strings; None comes first
          Dotted,           \* the texts with a dot: full names and addresses
          MinQueryCount,    \* config: fewer queries than this are few
          MinClients,       \* config: high_confidence_min_clients
          RepeatedCount     \* config: repeated_observation_min_count

MaxOf(S) == CHOOSE x \in S : \A y \in S : y <= x

Or(a, b) == IF a # None THEN a ELSE b

\* The values of s that are not empty, each once, in the order of s.
Unique(s) ==
  LET upto[n \in 0..Len(s)] ==
        IF n = 0 THEN <<>>
        ELSE LET done == upto[n - 1] IN IF s[n] = None \/ Contains(done, s[n]) THEN done ELSE Append(done, s[n])
  IN  upto[Len(s)]

\* A field of the items that holds a sequence, put together.
Joined(items, field) == Unique(FlattenSeq([k \in DOMAIN items |-> items[k][field]]))

AnyHas(items, field) == \E k \in DOMAIN items : items[k][field]

\* The items of each key, in the order in which the keys come up; keys[k] is that of items[k].
Groups(items, keys) == Mapped(Unique(keys), LAMBDA key : Picked(items, {k \in DOMAIN keys : keys[k] = key}))

\* By category, then target (or name), then address; equals keep their order.
SortKey(o) == <<Rank[o.category], Rank[Or(o.target, o.name)], Rank[o.target_ip]>>

Precedes(a, b) == \E k \in DOMAIN a : a[k] < b[k] /\ \A j \in 1..(k - 1) : a[j] = b[j]

\* Each in turn is put before the first that it precedes.
Sorted(obs) ==
  LET upto[n \in 0..Len(obs)] ==
        IF n = 0 THEN <<>>
        ELSE LET sorted == upto[n - 1]
                 before == {k \in DOMAIN sorted : ~Precedes(SortKey(obs[n]), SortKey(sorted[k]))}
             IN  InsertAt(sorted, Cardinality(before) + 1, obs[n])
  IN  upto[Len(obs)]

-----------------------------------------------------------------------------
(* classify_prereqs.py: aggregate_evidence.  Many clients raise a weak      *)
(* guess, few queries lower it again.                                       *)
AggregateKey(e) == <<e.category, Or(e.target, e.name), e.target_ip, e.role_level>>

AggregatedConfidence(items, systems) ==
  LET best == MaxOf({items[k].confidence : k \in DOMAIN items})
      weak == AnyHas(items, "weak")
      raised == IF weak /\ best = Low /\ Cardinality(systems) >= MinClients THEN Medium ELSE best
  IN  IF weak /\ Len(items) < MinQueryCount /\ items[1].source = "dns_query_log" THEN Low ELSE raised

Observation(items) ==
  LET systems == {items[k].system : k \in DOMAIN items} \ {None}
  IN  [category |-> items[1].category, name |-> items[1].name, target |-> items[1].target,
       target_ip |-> items[1].target_ip, confidence |-> AggregatedConfidence(items, systems),
       queries |-> Len(items), systems |-> systems,
       qnames |-> Joined(items, "qnames"), names |-> Joined(items, "names"), ips |-> Joined(items, "ips"),
       unanswered |-> AnyHas(items, "unanswered"), role_level |-> AnyHas(items, "role_level"),
       known |-> AnyHas(items, "known"), required |-> AnyHas(items, "required"),
       basis |-> None, present |-> FALSE, accepted |-> FALSE, optional |-> FALSE]

\* Mutant: the observations stay in the order of the rows.
AggregateUnsorted(evidence) == Mapped(Groups(evidence, Mapped(evidence, AggregateKey)), Observation)

Aggregate(evidence) ==
  Sorted(Mapped(Groups(evidence, Mapped(evidence, AggregateKey)), Observation))

-----------------------------------------------------------------------------
(* lint_rules.py: _deduplicate_observations.  Observations of a category    *)
(* with one address, or else with one name, are one.                        *)

DedupeKey(o) ==
  LET ips == Unique(<<o.target_ip>> \o o.ips)
      names == Unique(<<o.target>> \o o.names \o o.qnames \o <<o.name>>)
  IN  CASE ips # <<>> -> <<o.category, "ip", ips[1]>>
        [] ips = <<>> /\ o.role_level /\ o.target = None -> <<o.category, "role", None>>
        [] OTHER -> <<o.category, "name", names[1]>>

\* The four signs in their order of weight.
BaseScore(o) ==
  (IF o.known THEN 8 ELSE 0) + (IF o.target # None THEN 4 ELSE 0)
    + (IF o.target_ip # None THEN 2 ELSE 0) + (IF o.name \in Dotted THEN 1 ELSE 0)

FirstOf(items, field) ==
  LET given == Picked(items, {k \in DOMAIN items : items[k][field] # None})
  IN  IF given = <<>> THEN None ELSE given[1][field]

\* The first of the best scores.
Base(items) ==
  items[CHOOSE k \in DOMAIN items : \A j \in DOMAIN items :
          \/ BaseScore(items[j]) < BaseScore(items[k])
          \/ BaseScore(items[j]) = BaseScore(items[k]) /\ k <= j]

BasisOrder == <<"NO_RECOVERY_SET_MATCH", "ROLE_TAG_MATCH", "ALIAS_MATCH", "HOSTNAME_MATCH", "IP_MATCH">>

BestBasis(items) ==
  LET of == {n \in DOMAIN BasisOrder : \E k \in DOMAIN items : items[k].basis = BasisOrder[n]}
  IN  IF of = {} THEN None ELSE BasisOrder[MaxOf(of)]

QueryCount(items) == FoldLeft(LAMBDA n, o : n + o.queries, 0, items)

\* Present if one is, required if one is, known by its role only if all are.
Merged(items) ==
  LET base == Base(items)
  IN  [base EXCEPT
        !.target = Or(@, FirstOf(items, "target")),
        !.target_ip = Or(@, FirstOf(items, "target_ip")),
        !.confidence = MaxOf({items[k].confidence : k \in DOMAIN items}),
        !.queries = QueryCount(items),
        !.systems = UNION {items[k].systems : k \in DOMAIN items},
        !.qnames = Joined(items, "qnames"),
        !.names = Joined(items, "names"),
        !.ips = Joined(items, "ips"),
        !.unanswered = AnyHas(items, "unanswered"),
        !.role_level = \A k \in DOMAIN items : items[k].role_level,
        !.known = AnyHas(items, "known"),
        !.required = AnyHas(items, "required"),
        !.present = AnyHas(items, "present"),
        !.accepted = AnyHas(items, "accepted"),
        !.optional = AnyHas(items, "optional"),
        !.basis = BestBasis(items)]

Deduplicate(obs) ==
  Sorted(Mapped(Groups(obs, Mapped(obs, DedupeKey)), Merged))

-----------------------------------------------------------------------------
(* lint_rules.py: match_recovery_set.  Each way is tried for every          *)
(* candidate before the next: address, full name, short name, alias, role.  *)
(* A tag stands here for its synonyms (active_directory, kdc and so on).    *)
RoleTags ==
  [directory_service |-> {"domain_controller", "global_catalog", "kerberos"},
   kerberos_service  |-> {"domain_controller", "kerberos"},
   global_catalog    |-> {"domain_controller", "global_catalog"}]

CandidateIps(o) == Unique(<<o.target_ip>> \o o.ips)
CandidateNames(o) == Unique(<<o.target, o.name>> \o o.names \o o.qnames)

\* The system found for the first candidate that finds one.
Found(candidates, systems, Fits(_, _)) ==
  LET hits == Picked(candidates, {n \in DOMAIN candidates : \E k \in DOMAIN systems : Fits(systems[k], candidates[n])})
  IN  IF hits = <<>> THEN NoSystem ELSE FirstWhere(systems, LAMBDA s : Fits(s, hits[1]))

ByIp(ips, systems) == Found(ips, systems, LAMBDA s, ip : \E k \in DOMAIN s.ips : s.ips[k] = ip)
ByName(names, systems) == Found(names, systems, LAMBDA s, n : s.fqdn = n)
ByShortName(names, systems) == Found(names, systems, LAMBDA s, n : ShortOf(s) = ShortName[n])
ByAlias(names, systems) == Found(names, systems, LAMBDA s, n : n \in AliasesOf(s))

Match(o, systems) ==
  LET names == CandidateNames(o)
      byIp == ByIp(CandidateIps(o), systems)
      byName == ByName(names, systems)
      byShort == ByShortName(names, systems)
      byAlias == ByAlias(names, systems)
      byRole == /\ o.role_level /\ o.category \in DOMAIN RoleTags
                /\ \E k \in DOMAIN systems : systems[k].roles \cap RoleTags[o.category] # {}
  IN  CASE byIp # NoSystem -> [basis |-> "IP_MATCH", at |-> byIp]
        [] byIp = NoSystem /\ byName # NoSystem -> [basis |-> "HOSTNAME_MATCH", at |-> byName]
        [] byIp = NoSystem /\ byName = NoSystem /\ byShort # NoSystem -> [basis |-> "HOSTNAME_MATCH", at |-> byShort]
        [] byIp = NoSystem /\ byName = NoSystem /\ byShort = NoSystem /\ byAlias # NoSystem ->
             [basis |-> "ALIAS_MATCH", at |-> byAlias]
        [] OTHER -> [basis |-> IF byRole THEN "ROLE_TAG_MATCH" ELSE "NO_RECOVERY_SET_MATCH", at |-> NoSystem]

(* _enrich_observation_from_match: what is known of the system (and of its   *)
(* namesakes) fills what the observation lacks.                             *)
EnrichObservation(o, systems, at) ==
  LET same == Picked(systems, {k \in DOMAIN systems : DisplayName(systems[k]) = DisplayName(systems[at])})
      ips == FlattenSeq([k \in DOMAIN same |-> same[k].ips])
  IN  IF at = NoSystem THEN o
      ELSE [o EXCEPT !.target = Or(@, FirstOf(same, "fqdn")),
                     !.target_ip = IF @ # None \/ ips = <<>> THEN @ ELSE ips[1],
                     !.names = Unique(@ \o [k \in DOMAIN same |-> same[k].fqdn]),
                     !.ips = Unique(@ \o ips)]

\* support_files.py: matching_accepted_risk.  Any name of the observation will do.
Excused(o, risks) ==
  \E k \in DOMAIN risks :
    /\ risks[k].category \in {None, o.category} /\ ~risks[k].expired /\ risks[k].name # None
    /\ risks[k].name \in {o.name, o.target, o.target_ip} \cup ToSet(o.qnames \o o.names \o o.ips)

Told(o, systems, found) ==
  [EnrichObservation(o, systems, found.at) EXCEPT !.basis = found.basis,
                                                  !.present = found.basis # "NO_RECOVERY_SET_MATCH"]

Settled(o, excused) ==
  [o EXCEPT !.required = @ /\ ~excused, !.accepted = excused, !.optional = ~o.required \/ excused]

\* Only what is absent is excused.
MatchObservation(o, systems, risks) ==
  LET told == Told(o, systems, Match(o, systems)) IN Settled(told, ~told.present /\ Excused(told, risks))

LookedUp(obs, systems, risks) == Mapped(obs, LAMBDA o : MatchObservation(o, systems, risks))

\* Mutant: what is one address or name is put together only after the lookup.
ObservedMergedLate(evidence, systems, risks) ==
  Deduplicate(LookedUp(Aggregate(evidence), systems, risks))

(* _observed_and_findings_from_evidence.                                    *)
Observed(evidence, systems, risks) ==
  Deduplicate(LookedUp(Deduplicate(Aggregate(evidence)), systems, risks))

-----------------------------------------------------------------------------
(* lint_rules.py: _severity_for_observation, with the default severities.   *)
CriticalCategories == {"dns_resolver", "directory_service", "kerberos_service", "global_catalog"}

WidelyUsed(o) ==
  /\ o.confidence = High /\ Cardinality(o.systems) >= MinClients /\ o.queries >= RepeatedCount
  /\ o.category \in {"database_host", "file_share", "license_server", "vpn_endpoint"}

SharedHost(o) ==
  /\ o.category \in {"database_host", "file_share", "license_server"}
  /\ o.confidence >= Medium /\ Cardinality(o.systems) >= 2

Severity(o) ==
  CASE ~o.required -> "INFO"
    [] o.required /\ o.present -> IF o.role_level /\ o.unanswered THEN "REVIEW" ELSE "INFO"
    [] o.required /\ ~o.present /\ o.category \in CriticalCategories -> "CRITICAL"
    [] o.required /\ ~o.present /\ o.category \notin CriticalCategories /\ o.known ->
         IF WidelyUsed(o) THEN "CRITICAL" ELSE "WARNING"
    [] OTHER -> IF SharedHost(o) THEN "CRITICAL" ELSE "REVIEW"

(* coverage.py: decision_status.  A risk stays applied to what it was ever   *)
(* applied to, and "optional" is a reason that merging keeps as well.       *)
DecisionStatus(o) ==
  CASE o.accepted -> "accepted_risk"
    [] ~o.accepted /\ o.present -> "present"
    [] ~o.accepted /\ ~o.present /\ (o.optional \/ ~o.required) -> "optional"
    [] OTHER -> IF Severity(o) \in {"CRITICAL", "WARNING"} THEN "missing" ELSE "review"

Blocks(o) == DecisionStatus(o) = "missing" /\ Severity(o) = "CRITICAL"

\* decision.py: the service families.
Family(category) ==
  CASE category = "dns_resolver" -> "name_resolution"
    [] category \in {"directory_service", "kerberos_service", "global_catalog"} -> "identity_platform"
    [] OTHER -> category

FamilyStatus(obs) ==
  [f \in {Family(obs[k].category) : k \in DOMAIN obs} |->
    LET of == {k \in DOMAIN obs : Family(obs[k].category) = f}
    IN  CASE \E k \in of : Blocks(obs[k]) -> "FAIL"
          [] \A k \in of : DecisionStatus(obs[k]) \in {"present", "optional"} -> "PASS"
          [] OTHER -> "REVIEW"]

(* lint_rules.py: _build_summary.                                           *)
LintStatus(obs, resolver_known, mapped_clients) ==
  LET severities == {Severity(obs[k]) : k \in DOMAIN obs}
  IN  CASE "CRITICAL" \in severities -> "FAIL"
        [] "CRITICAL" \notin severities /\
             (severities \cap {"WARNING", "REVIEW"} # {} \/ ~resolver_known \/ mapped_clients = {}) -> "REVIEW"
        [] OTHER -> "PASS"

\* assessment.py: _overall_decision.
OverallDecision(lint_status, families) ==
  LET statuses == {lint_status} \cup {families[f] : f \in DOMAIN families}
  IN  CASE "FAIL" \in statuses -> "FAIL"
        [] "FAIL" \notin statuses /\ "REVIEW" \in statuses -> "REVIEW"
        [] OTHER -> "PASS"

=============================================================================
