------------------------------- MODULE DrLint -------------------------------
(***************************************************************************)
(* dr-prereq-lint, one run of the analyze command: the evidence of the      *)
(* chosen window is collected, turned into observations and judged, and     *)
(* then every window to be compared is judged by a second path, which      *)
(* classifies all rows once and picks those of the window by row number.    *)
(***************************************************************************)
EXTENDS DrFindings

CONSTANTS Inputs  \* sets of inputs, each a record of sets: what one run may be given

(* What the readers hand over: names and addresses are texts, and a list     *)
(* that a file does not give is empty (models.py, answer_map.py,             *)
(* known_prereqs.py, support_files.py).                                      *)
Text == DOMAIN Rank
Given == Text \ {None}

QueryRow ==
  [qname: DOMAIN SrvKind, qtype: STRING, names: Seq(Given), ips: Seq(Given), client_ip: Text, client_name: Text,
   time: Nat \cup {None}, resolver_name: Text, resolver_ip: Text]

KnownRule == [name: Text, category: Text, names: SUBSET Text, required: BOOLEAN]

ResolverHint ==
  {hint \in [name: Text, ips: Seq(Given), required: BOOLEAN] : hint.name # None \/ hint.ips # <<>>}

AnswerMapEntry == [qname: Text, qtype: STRING, names: Seq(Given), ips: Seq(Given)]

SystemRow ==
  [workload: Text, fqdn: Text, ips: Seq(Given), aliases: SUBSET Text, roles: SUBSET STRING,
   set: STRING \cup {None}, include: {"yes", "no", "unset"}, protected: BOOLEAN]

OptionNames ==
  {"hours", "windows", "recovery_set", "known", "risks", "hints", "answer_map", "include_unmapped", "include_external"}

(* Rank orders the texts. A query has a name, and a service a category; an   *)
(* empty field is no text but the empty one, no place and no key.            *)
ASSUME InputsAssumption ==
  /\ None \in Text /\ "dns_resolver" \in Text /\ NoSystem \notin Nat
  /\ None \notin (Text \X {"ip", "role", "name"} \X Text) \cup (Text \X Text \X Text \X BOOLEAN)
  /\ Rank \in [Text -> Nat] /\ \A s, t \in Text : Rank[s] = Rank[t] => s = t
  /\ \A n \in DOMAIN SrvKind :
       /\ n \in Given /\ HostKind[n] \in Text
       /\ SrvKind[n] = None \/ (SrvKind[n] \in Given \cap DOMAIN ServiceCategory /\ ServiceCategory[SrvKind[n]] \in Text)
  /\ \A f \in Inputs :
       /\ \A inventory \in f.inventory : inventory \in Seq(SystemRow)
       /\ \A rows \in f.rows : rows \in Seq(QueryRow)
       /\ \A opt \in f.options :
            /\ DOMAIN opt = OptionNames
            /\ opt.known \in Seq(KnownRule) /\ opt.hints \in Seq(ResolverHint) /\ opt.answer_map \in Seq(AnswerMapEntry)
            /\ opt.hours \in Nat

VARIABLES input,      \* the files and options, read before anything is decided
          phase,      \* "collect", "observe", "judge", "compare" or "done"
          evidence,   \* the query-level items, in the order in which they were found
          observed,   \* the observations after matching
          report,     \* lint_status, the family statuses and the overall decision
          comparison  \* the windows judged so far: hours, lint_status and names of the missing

lintVars == <<input, phase, evidence, observed, report, comparison>>

NoReport == [lint_status |-> "none", families |-> <<>>, decision |-> "none"]

LintInit ==
  /\ \E f \in Inputs : input \in [inventory: f.inventory, rows: f.rows, options: f.options]
  /\ phase = "collect"
  /\ evidence = <<>>
  /\ observed = <<>>
  /\ report = NoReport
  /\ comparison = <<>>

-----------------------------------------------------------------------------
Rows == Enriched(input.rows, input.options.answer_map)

WindowRows == InWindow(Rows, input.options.hours)

RowItems(q) == RowEvidence(input.inventory, q, input.options)

Evidence(rows) == FlattenSeq(Mapped(rows, RowItems))

Identity(q) == Or(q.client_ip, q.client_name)

MappedClients(rows) ==
  {Identity(rows[k]) : k \in {j \in DOMAIN rows : MapClient(Protected(input.inventory), rows[j]).at # NoSystem}}

Systems == RecoverySet(input.inventory, input.options.recovery_set)

Collect ==
  /\ phase = "collect"
  /\ evidence' = Evidence(WindowRows) \o ResolverEvidence(input.options.hints, WindowRows)
  /\ phase' = "observe"
  /\ UNCHANGED <<input, observed, report, comparison>>

Observe ==
  /\ phase = "observe"
  /\ observed' = Observed(evidence, Systems, input.options.risks)
  /\ phase' = "judge"
  /\ UNCHANGED <<input, evidence, report, comparison>>

Judge ==
  LET lint == LintStatus(observed, ResolverKnown(input.options.hints, WindowRows), MappedClients(WindowRows))
      families == FamilyStatus(observed)
  IN  /\ phase = "judge"
      /\ report' = [lint_status |-> lint, families |-> families, decision |-> OverallDecision(lint, families)]
      /\ phase' = "compare"
      /\ UNCHANGED <<input, evidence, observed, comparison>>

-----------------------------------------------------------------------------
(* lint_rules.py: compare_windows.  The numbers of the window's rows are    *)
(* held in a set, and the evidence is taken in the order of that set.       *)
Orders(rows) ==
  {order \in [DOMAIN rows -> DOMAIN rows] : \A i, j \in DOMAIN rows : i # j => order[i] # order[j]}

Missing(obs) == {obs[k].name : k \in {j \in DOMAIN obs : ~obs[j].present /\ Severity(obs[j]) # "INFO"}}

Compared(hours, rows, order) ==
  LET items == Evidence([k \in DOMAIN rows |-> rows[order[k]]]) \o ResolverEvidence(input.options.hints, rows)
      obs == Observed(items, Systems, input.options.risks)
  IN  [hours |-> hours,
       lint_status |-> LintStatus(obs, ResolverKnown(input.options.hints, rows), MappedClients(rows)),
       missing |-> Missing(obs)]

\* The windows are taken in ascending order, each once.
WindowsLeft == {hours \in input.options.windows : \A k \in DOMAIN comparison : comparison[k].hours < hours}

CompareWindow(hours) ==
  LET rows == InWindow(Rows, hours)
  IN  /\ phase = "compare"
      /\ hours \in WindowsLeft /\ \A other \in WindowsLeft : hours <= other
      /\ \E order \in Orders(rows) : comparison' = Append(comparison, Compared(hours, rows, order))
      /\ phase' = IF WindowsLeft = {hours} THEN "done" ELSE phase
      /\ UNCHANGED <<input, evidence, observed, report>>

LintNext == Collect \/ Observe \/ Judge \/ \E hours \in input.options.windows : CompareWindow(hours)

LintSpec == LintInit /\ [][LintNext]_lintVars

-----------------------------------------------------------------------------
Judged == phase \in {"compare", "done"}

(* The status of the run, the decision of the assessment and the statuses   *)
(* of the service families are computed apart: they fail together, and a    *)
(* status of PASS leaves a family to review only for an accepted risk       *)
(* (lint_rules.py: _build_summary, decision.py, assessment.py).             *)
StatusesAgree ==
  Judged =>
    LET failing == {f \in DOMAIN report.families : report.families[f] = "FAIL"}
        doubtful == {f \in DOMAIN report.families : report.families[f] = "REVIEW"}
    IN  /\ (report.lint_status = "FAIL") <=> failing # {}
        /\ (report.decision = "FAIL") <=> failing # {}
        /\ report.lint_status = "PASS" =>
             \A f \in doubtful : \E k \in DOMAIN observed : Family(observed[k].category) = f /\ observed[k].accepted

-----------------------------------------------------------------------------
(* Rows that cannot be shown to lie outside the window: of no known time,   *)
(* or no older than the window before the newest known time.                *)
PossibleRows ==
  LET rows == Rows
      untimed(k) == rows[k].time = None
      recent(k) == \A j \in DOMAIN rows : ~untimed(j) => rows[j].time <= rows[k].time + input.options.hours
  IN  Picked(rows, {k \in DOMAIN rows : untimed(k) \/ recent(k)})

\* Everything an item could be known by.
MarksOf(e) == ToSet(CandidateIps(e)) \cup ToSet(CandidateNames(e))

\* Items of one category that have no name or address in common with the others of it.
StandApart(S, items) ==
  /\ \A e, w \in S : e.category = w.category
  /\ \A e \in S, w \in items \ S : e.category = w.category => MarksOf(e) \cap MarksOf(w) = {}

InRecoverySet(e) == Match(e, Systems).basis # "NO_RECOVERY_SET_MATCH"

(* No gap is passed over: if a run passes, items of which one is required   *)
(* and that have no name or address in common with others include one that   *)
(* is in the recovery set, or that an accepted risk names; if the assessment *)
(* passes too, no risk was needed (aggregation, merging, matching and        *)
(* statuses of lint_rules.py, and the window of dns_log.py with times it     *)
(* cannot read).                                                             *)
PassIsBorneOut ==
  Judged /\ report.lint_status = "PASS" =>
    LET possible == ToSet(Evidence(PossibleRows)) \cup ToSet(ResolverEvidence(input.options.hints, PossibleRows))
        items == possible \cup ToSet(evidence)
    IN  \A S \in SUBSET items : StandApart(S, items) /\ (\E e \in S : e.required) =>
          \E w \in S :
            \/ InRecoverySet(w)
            \/ report.decision # "PASS" /\ Excused(w, input.options.risks)

-----------------------------------------------------------------------------
(* What an item of a row is called and answered.                             *)
Said(e) == <<e.name, e.target, e.role_level, e.source, e.qnames, e.names, e.ips>>

(* What is sorted alike is said alike: no name of a category was answered in *)
(* two ways, and none has two display names.                                 *)
SteadyAnswers ==
  LET items == Evidence(WindowRows)
  IN  \A i, j \in DOMAIN items : SortKey(items[i]) = SortKey(items[j]) => Said(items[i]) = Said(items[j])

(* The comparison takes the rows of a window in the order of a hash set,     *)
(* the run in the order of the file.  Where every name is always answered   *)
(* alike the two say the same of one window (lint_rules.py: compare_windows *)
(* and analyze_inputs).                                                     *)
ComparisonAgrees ==
  Judged /\ SteadyAnswers =>
    \A k \in DOMAIN comparison : comparison[k].hours = input.options.hours =>
      /\ comparison[k].lint_status = report.lint_status
      /\ comparison[k].missing = Missing(observed)

=============================================================================
