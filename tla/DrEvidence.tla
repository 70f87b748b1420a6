----------------------------- MODULE DrEvidence -----------------------------
(***************************************************************************)
(* dr-prereq-lint, from the inputs to query-level evidence: which inventory *)
(* rows form the recovery set, which DNS rows lie in the window, which      *)
(* protected system asked, and what each query says was needed.            *)
(*                                                                         *)
(* Names and addresses are values that were normalised on reading; what the *)
(* patterns find in a name, its domain and its first label are constants.  *)
(***************************************************************************)
EXTENDS Naturals, Sequences, FiniteSets, SequencesExt

CONSTANTS None,          \* an empty field
          NoSystem,      \* no position in a list of systems
          ShortName,     \* name or address -> what stands before its first dot
          SrvKind,       \* query name -> the service its SRV labels name, or None
          HostKind,      \* query name -> the category its labels suggest, or None
          WeakNames,     \* license, database and file names of which a label such as "db" is all the sign
          InternalNames, \* query names within the internal domains
          PrivateIps     \* private, loopback and link-local addresses

\* models.py: the confidences in ascending order.
Low == 0
Medium == 1
High == 2

\* The elements of s at the places in a set, in their order (SelectSeq by place).
Picked(s, at) ==
  LET upto[n \in 0..Len(s)] ==
        IF n = 0 THEN <<>> ELSE IF n \in at THEN Append(upto[n - 1], s[n]) ELSE upto[n - 1]
  IN  upto[Len(s)]

\* Op of every element; picking them all makes TLC evaluate each once.
Mapped(s, Op(_)) == Picked([k \in DOMAIN s |-> Op(s[k])], DOMAIN s)

Answered(q) == q.names # <<>> \/ q.ips # <<>>

-----------------------------------------------------------------------------
(* An inventory row may say nothing of the recovery set ("unset").          *)

\* backup_inventory.py: the row answers to its own names too.
ShortOf(row) == ShortName[IF row.fqdn # None THEN row.fqdn ELSE row.workload]

AliasesOf(row) == row.aliases \cup ({row.workload, row.fqdn, ShortOf(row)} \ {None})

DisplayName(row) == IF row.fqdn # None THEN row.fqdn ELSE row.workload

Protected(inventory) == SelectSeq(inventory, LAMBDA row : row.protected)

\* recovery_set.py: build_recovery_set.  Without a name every protected row counts.
RecoverySet(inventory, name) ==
  Picked(inventory, {k \in DOMAIN inventory :
    /\ inventory[k].protected
    /\ name # None => inventory[k].set = name
    /\ inventory[k].include \in {"yes", "unset"}})

\* The first system that P holds of.
FirstWhere(systems, P(_)) ==
  LET at == {k \in DOMAIN systems : P(systems[k])}
  IN  IF at = {} THEN NoSystem ELSE CHOOSE k \in at : \A j \in at : k <= j

-----------------------------------------------------------------------------
(* client_mapping.py: the system that asked, by address, then full name,    *)
(* then short name, then alias; of two that share one, the first listed.    *)
ByShort(systems, short) ==
  FirstWhere(systems, LAMBDA s : short = ShortOf(s) \/ \E a \in AliasesOf(s) : ShortName[a] = short)

MapClient(systems, q) ==
  LET tries ==
        << [basis |-> "client_ip",
            at |-> FirstWhere(systems, LAMBDA s : q.client_ip # None /\ \E k \in DOMAIN s.ips : s.ips[k] = q.client_ip)],
           [basis |-> "client_name_fqdn",
            at |-> FirstWhere(systems, LAMBDA s : q.client_name # None /\ s.fqdn = q.client_name)],
           [basis |-> "client_name_short",
            at |-> IF q.client_name = None THEN NoSystem ELSE ByShort(systems, ShortName[q.client_name])],
           [basis |-> "client_name_alias",
            at |-> FirstWhere(systems, LAMBDA s : q.client_name # None /\ q.client_name \in AliasesOf(s))] >>
      hits == SelectSeq(tries, LAMBDA t : t.at # NoSystem)
  IN  IF hits = <<>> THEN [basis |-> None, at |-> NoSystem] ELSE hits[1]

-----------------------------------------------------------------------------
\* Mutant: the rows without a time are put aside and the window applied to the others.
InWindowReadable(rows, hours) ==
  LET timed == SelectSeq(rows, LAMBDA q : q.time # None)
  IN  IF hours = 0 THEN rows
      ELSE SelectSeq(timed, LAMBDA q : \A k \in DOMAIN timed : timed[k].time <= q.time + hours)

(* dns_log.py: filter_dns_window.  One row without a time and all count.    *)
InWindow(rows, hours) ==
  IF hours = 0 \/ \E k \in DOMAIN rows : rows[k].time = None
  THEN rows
  ELSE Picked(rows, {j \in DOMAIN rows : \A k \in DOMAIN rows : rows[k].time <= rows[j].time + hours})

(* answer_map.py: an answer the log lacks is taken from the map, from the    *)
(* entry of this very query type if there is one.                           *)
EnrichRow(q, entries) ==
  LET of == {k \in DOMAIN entries : entries[k].qname = q.qname}
      exact == {k \in of : entries[k].qtype = q.qtype}
      named == Picked(entries, exact) \o Picked(entries, of)
  IN  IF named = <<>> THEN q
      ELSE [q EXCEPT !.names = IF @ = <<>> THEN named[1].names ELSE @,
                     !.ips = IF @ = <<>> THEN named[1].ips ELSE @]

Enriched(rows, entries) == Mapped(rows, LAMBDA q : EnrichRow(q, entries))

-----------------------------------------------------------------------------
(* classify_queries.py.  An item of evidence: what is needed (a category, a *)
(* display name, a target's name and address), who asked, and whether only  *)
(* the role is known.                                                       *)
Item(q, system, category, name, target, target_ip, confidence) ==
  [category |-> category, name |-> name, target |-> target, target_ip |-> target_ip,
   confidence |-> confidence, source |-> "dns_query_log", system |-> system,
   qnames |-> <<q.qname>>, names |-> q.names, ips |-> q.ips,
   unanswered |-> FALSE, role_level |-> FALSE, known |-> FALSE, required |-> TRUE, weak |-> FALSE]

Matches(known, q) == Picked(known, {k \in DOMAIN known : q.qname \in known[k].names})

KnownItems(q, system, rules) ==
  [k \in DOMAIN rules |->
    [Item(q, system, rules[k].category, rules[k].name, q.qname, None, IF system = None THEN Low ELSE High)
      EXCEPT !.known = TRUE, !.required = rules[k].required, !.unanswered = ~Answered(q)]]

ServiceCategory ==
  [gc |-> "global_catalog", kerberos |-> "kerberos_service", ldap |-> "directory_service",
   db |-> "database_host", file |-> "file_share"]

Nth(s, k) == IF k \in DOMAIN s THEN s[k] ELSE None

\* Names and addresses of the answer are paired by position; the longer list goes on alone.
SrvItems(q, system) ==
  LET kind == SrvKind[q.qname]
      pairs == IF Len(q.names) > Len(q.ips) THEN Len(q.names) ELSE Len(q.ips)
      target(k) == Item(q, system, ServiceCategory[kind],
                        IF Nth(q.names, k) # None THEN Nth(q.names, k) ELSE Nth(q.ips, k),
                        Nth(q.names, k), Nth(q.ips, k), IF system = None THEN Low ELSE High)
      role == [Item(q, system, ServiceCategory[kind], kind, None, None, IF system = None THEN Low ELSE Medium)
                EXCEPT !.role_level = TRUE, !.unanswered = TRUE]
  IN  IF Answered(q) THEN [k \in 1..pairs |-> target(k)] ELSE <<role>>

IsInternal(q) == q.qname \in InternalNames \/ \E k \in DOMAIN q.ips : q.ips[k] \in PrivateIps

\* A weak label, a foreign remote-access name and a client nobody knows make it low.
HostConfidence(q, system) ==
  IF system = None \/ q.qname \in WeakNames \/ (HostKind[q.qname] \in {"vpn_endpoint", "time_service"} /\ ~IsInternal(q))
  THEN Low ELSE Medium

HostItems(q, system) ==
  << [Item(q, system, HostKind[q.qname], q.qname, q.qname, None, HostConfidence(q, system))
       EXCEPT !.weak = q.qname \in WeakNames \/ HostKind[q.qname] = "time_service",
              !.unanswered = ~Answered(q)] >>

(* A catalogued name is what the catalogue says and nothing else; a service *)
(* record is read by its labels, and only an address query by a guess.      *)
Classify(q, system, known, include_external) ==
  LET rules == Matches(known, q)
  IN  CASE rules # <<>> -> KnownItems(q, system, rules)
        [] rules = <<>> /\ q.qtype = "SRV" /\ SrvKind[q.qname] # None -> SrvItems(q, system)
        [] /\ rules = <<>> /\ q.qtype \in {"A", "AAAA", "CNAME", "UNKNOWN"} /\ HostKind[q.qname] # None
           /\ IsInternal(q) \/ include_external -> HostItems(q, system)
        [] OTHER -> <<>>

(* lint_rules.py, the loop over the rows: a client nobody knows is skipped  *)
(* unless asked for.                                                        *)
RowEvidence(inventory, q, options) ==
  LET systems == Protected(inventory)
      at == MapClient(systems, q).at
  IN  CASE at # NoSystem -> Classify(q, DisplayName(systems[at]), options.known, options.include_external)
        [] at = NoSystem /\ options.include_unmapped -> Classify(q, None, options.known, options.include_external)
        [] OTHER -> <<>>

-----------------------------------------------------------------------------
(* lint_rules.py: _resolver_evidence.  Declared resolvers hide the observed *)
(* ones; a log that names none leaves the identity unknown.                 *)
ResolverItem(qnames, source, confidence, name, ip) ==
  [category |-> "dns_resolver", name |-> IF name # None THEN name ELSE ip, target |-> name, target_ip |-> ip,
   confidence |-> confidence, source |-> source, system |-> None, qnames |-> qnames, names |-> <<>>, ips |-> <<>>,
   unanswered |-> FALSE, role_level |-> FALSE, known |-> FALSE, required |-> TRUE, weak |-> FALSE]

HintItems(hint) ==
  LET ips == IF hint.ips = <<>> THEN <<None>> ELSE hint.ips
  IN  [k \in DOMAIN ips |-> ResolverItem(<<>>, "resolver_hints", High, hint.name, ips[k])]

ResolverRows(rows) == Picked(rows, {k \in DOMAIN rows : rows[k].resolver_name # None \/ rows[k].resolver_ip # None})

ResolverEvidence(hints, rows) ==
  IF hints # <<>>
  THEN FlattenSeq([k \in DOMAIN hints |-> IF hints[k].required THEN HintItems(hints[k]) ELSE <<>>])
  ELSE LET named == ResolverRows(rows)
       IN  [k \in DOMAIN named |-> ResolverItem(<<named[k].qname>>, "dns_log_resolver_identity", Medium,
                                                named[k].resolver_name, named[k].resolver_ip)]

ResolverKnown(hints, rows) == hints # <<>> \/ ResolverRows(rows) # <<>>

=============================================================================
