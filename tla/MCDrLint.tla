------------------------------ MODULE MCDrLint ------------------------------
(***************************************************************************)
(* Small inputs for DrLint: three query rows of a pool whose answers clash, *)
(* and shorter logs whose clients, times and options vary.                 *)
(***************************************************************************)
EXTENDS DrLint

CONSTANTS MaxRows,   \* rows of a log whose answers clash
          MaxVaried  \* rows of a log whose clients and times vary

Texts == <<"10.1", "10.2", "10.3", "10.9", "app1", "app1.c", "app2", "app2.c", "database_host", "db",
           "db2.c", "dc1", "dc1.c", "dc2.c", "directory_service", "dns_resolver", "file_share",
           "files.c", "Files", "_ldap.c", "ldap", "ns1.c", "share.c", "Share", "sql1", "sql1.c",
           "vpn_endpoint", "vpn.x">>

MCRank == [t \in ToSet(Texts) \cup {None} |-> IF t = None THEN 0 ELSE CHOOSE k \in DOMAIN Texts : Texts[k] = t]

MCDotted == {"10.1", "10.2", "10.3", "10.9", "app1.c", "app2.c", "db2.c", "dc1.c", "dc2.c", "files.c",
             "_ldap.c", "ns1.c", "share.c", "sql1.c", "vpn.x"}

\* No system is named by an address, so that "10" is nobody's short name.
MCShortName ==
  [t \in ToSet(Texts) |->
    CASE t \in {"10.1", "10.2", "10.3", "10.9"} -> "10" [] t = "app1.c" -> "app1" [] t = "app2.c" -> "app2"
      [] t = "db2.c" -> "db2" [] t = "dc1.c" -> "dc1" [] t = "dc2.c" -> "dc2" [] t = "sql1.c" -> "sql1"
      [] t = "_ldap.c" -> "_ldap" [] t = "ns1.c" -> "ns1" [] OTHER -> t]

QueryNames == {"_ldap.c", "sql1.c", "db2.c", "files.c", "share.c", "vpn.x"}
MCSrvKind == [n \in QueryNames |-> IF n = "_ldap.c" THEN "ldap" ELSE None]
MCHostKind ==
  [n \in QueryNames |->
    CASE n \in {"sql1.c", "db2.c"} -> "database_host" [] n \in {"files.c", "share.c"} -> "file_share"
      [] n = "vpn.x" -> "vpn_endpoint" [] OTHER -> None]

-----------------------------------------------------------------------------
Query(qname, qtype, names, ips) ==
  [qname |-> qname, qtype |-> qtype, names |-> names, ips |-> ips, client_ip |-> "10.9", client_name |-> None,
   time |-> 48, resolver_name |-> None, resolver_ip |-> None]

Pool ==
  { Query("_ldap.c", "SRV", <<"dc1.c", "dc2.c">>, <<"10.1">>), Query("_ldap.c", "SRV", <<"dc2.c">>, <<"10.2">>),
    Query("_ldap.c", "SRV", <<>>, <<>>), Query("sql1.c", "A", <<>>, <<"10.2">>), Query("sql1.c", "A", <<>>, <<"10.3">>),
    Query("db2.c", "CNAME", <<"sql1.c">>, <<"10.3">>), Query("files.c", "A", <<>>, <<"10.3">>), Query("share.c", "A", <<>>, <<"10.3">>),
    Query("share.c", "A", <<>>, <<"10.1">>) }

\* Names answered by the answer map alone, and names of other people.
Bare == {Query("db2.c", "A", <<>>, <<>>), Query("vpn.x", "A", <<>>, <<>>)}

Clients == { <<"10.9", None>>, <<None, "app2.c">>, <<None, "dc1">>, <<"10.3", None>> }

Vary(q) ==
  {[q EXCEPT !.client_ip = c[1], !.client_name = c[2]] : c \in Clients} \cup
  {[q EXCEPT !.time = t, !.resolver_ip = r] : t \in {0, 24, 48, None}, r \in {None, "10.1", "10.2"}}

Row(workload, fqdn, ips, aliases, roles, set, include) ==
  [workload |-> workload, fqdn |-> fqdn, ips |-> ips, aliases |-> aliases, roles |-> roles, set |-> set,
   include |-> include, protected |-> TRUE]

App1 == Row("app1", "app1.c", <<"10.9">>, {}, {}, "r1", "yes")
App2 == Row("app2", "app2.c", <<>>, {}, {}, None, "unset")
Dc(include) == Row("dc1", "dc1.c", <<"10.1">>, {}, {"domain_controller"}, "r1", include)
Sql(ips) == Row("sql1", None, ips, {"share.c"}, {}, "r1", "yes")

Crowded ==
  { <<App1, App2, Dc("yes"), Sql(<<"10.2">>)>>, <<App1, App2, Dc("no"), Sql(<<>>)>>,
    <<App1, Dc("yes"), Sql(<<"10.3", "10.1">>)>> }

Inventories == Crowded \cup { <<App1, App2>>, <<App1, [Dc("yes") EXCEPT !.protected = FALSE], App2>> }

Rule(name, display, required) == [name |-> display, category |-> "file_share", names |-> {name}, required |-> required]

Known == <<Rule("files.c", "Files", TRUE), Rule("share.c", "Share", FALSE)>>

Risk(category, name) == [category |-> category, name |-> name, expired |-> FALSE]

Hint(required) == [name |-> "ns1.c", ips |-> <<"10.1", "10.2">>, required |-> required]

Plain ==
  [hours |-> 24, windows |-> {24}, recovery_set |-> None, known |-> Known, risks |-> <<>>, hints |-> <<Hint(FALSE)>>,
   answer_map |-> <<>>, include_unmapped |-> FALSE, include_external |-> FALSE]

Entry(qname, qtype, names, ips) == [qname |-> qname, qtype |-> qtype, names |-> names, ips |-> ips]

Options ==
  {[Plain EXCEPT !.risks = r, !.hints = h, !.recovery_set = s, !.include_unmapped = all, !.include_external = all,
                 !.answer_map = m] :
     r \in {<<>>, <<Risk(None, "10.3")>>, <<Risk("dns_resolver", "ns1.c"), Risk("file_share", "share.c")>>},
     h \in {<<>>, <<Hint(TRUE)>>}, s \in {None, "r1"}, all \in BOOLEAN,
     m \in {<<>>, <<Entry("db2.c", "UNKNOWN", <<>>, <<"10.2">>), Entry("db2.c", "A", <<"sql1.c">>, <<>>)>>}}

-----------------------------------------------------------------------------
Clashing ==
  [inventory |-> Crowded,
   rows      |-> UNION {[1..n -> Pool] : n \in 0..MaxRows},
   options   |-> {Plain, [Plain EXCEPT !.risks = <<Risk(None, "sql1.c"), Risk("file_share", "files.c")>>]}]

Varied ==
  [inventory |-> Inventories,
   rows      |-> {<<q>> \o rest : q \in UNION {Vary(p) : p \in Pool}, rest \in UNION {[1..n -> Pool] : n \in 0..(MaxVaried - 1)}},
   options   |-> {[Plain EXCEPT !.windows = {24, 48}],
                 [Plain EXCEPT !.windows = {24, 48}, !.hints = <<>>, !.include_unmapped = TRUE]}]

Optional ==
  [inventory |-> Inventories,
   rows      |-> UNION {[1..n -> Pool \cup Bare] : n \in 1..(MaxVaried - 1)},
   options   |-> Options]

MCInputs == {Clashing, Varied, Optional}

=============================================================================
