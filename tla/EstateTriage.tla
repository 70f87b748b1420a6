---------------------------- MODULE EstateTriage ----------------------------
(***************************************************************************)
(* estate-triage, one analysis (api.py: analyze_estate, and the ranking a  *)
(* command does with its result): the inventory rows are resolved one by   *)
(* one against the backup export, the backup rows nobody took are listed,  *)
(* every resolved row is assessed, and the assessments are ranked.         *)
(***************************************************************************)
EXTENDS EstateIdentity, EstateRules

CONSTANTS Families,  \* inputs: records of inventories, backups, utilizations and overrides, each a set
          TopNs,     \* how many rows a ranking may be asked for
          KeyRank    \* the place of an identifier in the order of strings

(* An export is a sequence of rows.  No row has the place of no row, and a   *)
(* row without a uuid and a name never gets past the adapters.              *)
IsExport(rows) == rows \in Seq({rows[k] : k \in DOMAIN rows})

ASSUME FamiliesAssumption ==
  /\ NoBackup \notin Nat
  /\ TopNs \subseteq Nat \ {0}
  /\ \A f \in Families :
       /\ \A rows \in f.inventories \cup f.backups : IsExport(rows)
       /\ \A rows \in f.inventories : \A k \in DOMAIN rows :
            KeyRank[IF rows[k].uuid # None THEN rows[k].uuid ELSE rows[k].name] \in Int

VARIABLES estate,    \* the input, read before anything is decided
          phase,     \* "resolve", "assess" or "done"
          workloads, \* the resolved rows, in the order of the inventory
          unmatched, \* positions of the backup rows listed as not matched
          assessed,  \* their assessments, in the same order
          ranking    \* mode, size and rows (positions in assessed) of the ranking written

vars == <<estate, phase, workloads, unmatched, assessed, ranking>>

NoRanking == [mode |-> "none", top_n |-> 0, rows |-> <<>>]

Init == /\ \E f \in Families :
             \E inv \in f.inventories, bak \in f.backups, use \in f.utilizations, ovr \in f.overrides :
               estate = [inventory |-> inv, backups |-> bak, utilization |-> use, overrides |-> ovr]
        /\ phase = "resolve"
        /\ workloads = <<>>
        /\ unmatched = {}
        /\ assessed = <<>>
        /\ ranking = NoRanking

-----------------------------------------------------------------------------
ResolveRow ==
  /\ phase = "resolve" /\ Len(workloads) < Len(estate.inventory)
  /\ workloads' = Append(workloads,
       Resolve(estate.inventory, estate.backups, estate.overrides, Len(workloads) + 1))
  /\ UNCHANGED <<estate, phase, unmatched, assessed, ranking>>

Used == {workloads[i].backup : i \in DOMAIN workloads}

ListUnmatched ==
  /\ phase = "resolve" /\ Len(workloads) = Len(estate.inventory)
  /\ unmatched' = DOMAIN estate.backups \ Used
  /\ phase' = "assess"
  /\ UNCHANGED <<estate, workloads, assessed, ranking>>

-----------------------------------------------------------------------------
BackupRow(k) == IF k = NoBackup THEN NoRow ELSE estate.backups[k]

SamplesOf(row) == [k \in UtilizationOf(estate.utilization, row) |-> estate.utilization[k]]

(* The resolved row i as the assessment reads it.                           *)
Workload(i, found) ==
  [inventory  |-> estate.inventory[i],
   backup     |-> BackupRow(found.backup),
   samples    |-> SamplesOf(estate.inventory[i]),
   matched_by |-> found.matched_by,
   status     |-> found.status]

AssessRow ==
  LET i == Len(assessed) + 1
  IN  /\ phase = "assess" /\ i <= Len(workloads)
      /\ assessed' = Append(assessed, Assessment(Workload(i, workloads[i])))
      /\ UNCHANGED <<estate, phase, workloads, unmatched, ranking>>

-----------------------------------------------------------------------------
(* assessment.py: rank_assessments.  Every mode sorts by a tuple.           *)

LexLess(a, b) == \E k \in DOMAIN a : a[k] < b[k] /\ \A j \in 1..(k - 1) : a[j] = b[j]

MotionIndex(motion) == CHOOSE k \in DOMAIN MotionOrder : MotionOrder[k] = motion

WorkloadKey(i) ==
  LET row == estate.inventory[i] IN KeyRank[IF row.uuid # None THEN row.uuid ELSE row.name]

ConfidenceOrder == [high |-> 0, medium |-> 1, low |-> 2]

(* Mutant: flags do not count.                                              *)
PresentationByConfidence(a) == ConfidenceOrder[a.confidence]

PresentationRank(a) ==
  CASE a.confidence = "high" /\ a.blocking_flags = {} -> 0
    [] a.confidence = "high" /\ a.blocking_flags # {} -> 1
    [] a.confidence = "medium" -> 2
    [] a.confidence = "low" -> 3

GlobalKey(i) == <<-assessed[i].score, MotionIndex(assessed[i].motion), WorkloadKey(i), i>>
BalancedKey(i) == <<PresentationRank(assessed[i])>> \o GlobalKey(i)
ConfidenceKey(i) == <<ConfidenceOrder[assessed[i].confidence]>> \o GlobalKey(i)
BlockersKey(i) == <<-Cardinality(assessed[i].blocking_flags), -assessed[i].score, WorkloadKey(i), i>>

Take(s, n) == SubSeq(s, 1, IF n < Len(s) THEN n ELSE Len(s))

(* The elements of a set, the r-th with r - 1 others before it.             *)
InOrder(S, before) ==
  [r \in 1..Cardinality(S) |-> CHOOSE a \in S : Cardinality({b \in S : <<b, a>> \in before}) = r - 1]

Sorted(rows, Key(_)) == InOrder(rows, {p \in rows \X rows : LexLess(Key(p[1]), Key(p[2]))})

Bucket(motion) == {i \in DOMAIN assessed : assessed[i].motion = motion}

(* One row of every motion in turn, each motion in its own order.           *)
RoundKey(i) ==
  <<Cardinality({j \in Bucket(assessed[i].motion) : LexLess(BalancedKey(j), BalancedKey(i))}),
    MotionIndex(assessed[i].motion)>>

RankedRows(mode, n) ==
  CASE mode = "balanced" -> Take(Sorted(DOMAIN assessed, RoundKey), n)
    [] mode = "per_motion" ->
         FlattenSeq([k \in DOMAIN MotionOrder |-> Take(Sorted(Bucket(MotionOrder[k]), GlobalKey), n)])
    [] mode = "confidence_first" -> Take(Sorted(DOMAIN assessed, ConfidenceKey), n)
    [] mode = "blockers_first" -> Take(Sorted(DOMAIN assessed, BlockersKey), n)
    [] mode = "global" -> Take(Sorted(DOMAIN assessed, GlobalKey), n)

RankAssessments(mode, n) ==
  /\ phase = "assess" /\ Len(assessed) = Len(workloads)
  /\ ranking' = [mode |-> mode, top_n |-> n, rows |-> RankedRows(mode, n)]
  /\ phase' = "done"
  /\ UNCHANGED <<estate, workloads, unmatched, assessed>>

\* The sixth mode counts the missing fields, of which only the important ones are kept here.
Modes == {"balanced", "per_motion", "confidence_first", "blockers_first", "global"}

Next == \/ ResolveRow
        \/ ListUnmatched
        \/ AssessRow
        \/ \E mode \in Modes, n \in TopNs : RankAssessments(mode, n)

Spec == Init /\ [][Next]_vars

-----------------------------------------------------------------------------
(* An inventory and a backup export that carry only what the older engine  *)
(* reads: no override applies, no name is compared loosely, no utilization  *)
(* was given, and the last-seen date and the RPO say nothing of note.       *)
ReadByBoth(i) ==
  /\ estate.overrides = <<>>
  /\ workloads[i].strategy # "controlled_relaxed_name"
  /\ SamplesOf(estate.inventory[i]) = <<>>
  /\ LET w == Workload(i, workloads[i]) IN ~StaleInventorySeen(w) /\ ~LongRpoReview(w)

(* The tests of the rules run rules.py and scoring.py, the commands run the *)
(* kernel: on what both read they choose the same backup row, give every    *)
(* motion the same score, raise the same flags (the doubts about identity   *)
(* and the flag of a powered-off row aside, which the kernel raises for     *)
(* migrations only), and unless the identity is in doubt are as confident.  *)
TestedEngineAgrees ==
  \A i \in DOMAIN assessed : phase = "assess" /\ ReadByBoth(i) =>
    LET joined == Join(estate.backups, estate.inventory[i])
        w == Workload(i, workloads[i])
        old == [w EXCEPT !.backup = BackupRow(joined.backup), !.matched_by = joined.matched_by]
        scored == ScoreJoinedWorkload(old)
        before == ScoreAllMotions(old, DeriveFeatures(old))
        now == EvaluatePolicy(w)
        doubts == {"CONFLICTED", "DUPLICATE_CANDIDATES"}
        poweredOff == {"POWERED_OFF_NOT_MIGRATION_CANDIDATE"}
    IN  /\ joined.backup = workloads[i].backup /\ joined.matched_by = workloads[i].matched_by
        /\ \A k \in DOMAIN MotionOrder :
             before[k].score = now[k].score /\ before[k].allocation_only = now[k].allocation_only
        /\ scored.blocking_flags \ poweredOff = assessed[i].blocking_flags \ (doubts \cup poweredOff)
        /\ workloads[i].status \notin doubts => scored.confidence = assessed[i].confidence

(* Rows are matched one at a time and nothing stops two from taking the     *)
(* same backup row; but two rows put forward as strong candidates rest on   *)
(* the same backup row only if a reviewed override says so of one of them.  *)
StrongCandidatesShareNoBackup ==
  \A i, j \in DOMAIN assessed :
    /\ i # j
    /\ assessed[i].presentation = "strong_candidate"
    /\ assessed[j].presentation = "strong_candidate"
    /\ workloads[i].backup = workloads[j].backup
    => "identity_override" \in {workloads[i].strategy, workloads[j].strategy}

(* "First source row" decides between backup rows with the same identifier: *)
(* with the export in the opposite order a row gets another backup only if  *)
(* its identity is reported in doubt or was given by an override.           *)
OrderMattersOnlyWhereFlagged ==
  \A i \in DOMAIN workloads : phase = "resolve" =>
    LET size == Len(estate.backups)
        again == Resolve(estate.inventory, Reverse(estate.backups), estate.overrides, i).backup
        place == IF again = NoBackup THEN NoBackup ELSE size + 1 - again
    IN  \/ place = workloads[i].backup
        \/ workloads[i].status \in {"CONFLICTED", "DUPLICATE_CANDIDATES"}
        \/ workloads[i].strategy = "identity_override"

(* A backup row listed as taken by nobody, "likely decommissioned", has its *)
(* uuid in no inventory row, unless an override speaks for that row or      *)
(* another backup row with the uuid was taken.                              *)
DecommissionedHasNoTaker ==
  \A k \in unmatched : \A i \in DOMAIN estate.inventory :
    i \in Having(estate.inventory, "uuid", estate.backups[k].uuid) =>
      \/ OverridesFor(estate.overrides, estate.inventory[i]) # {}
         \/ \E l \in Having(estate.backups, "uuid", estate.backups[k].uuid) : l \in Used

(* The balanced ranking cuts a strong candidate last: when one is left out, *)
(* the rows of its motion that made it are as sure and as free of flags,    *)
(* and no motion got more than one row more than its motion.                *)
StrongIsCutLast ==
  ranking.mode = "balanced" =>
    \A i \in DOMAIN assessed :
      LET in == {ranking.rows[k] : k \in DOMAIN ranking.rows}
          Listed(motion) == Bucket(motion) \cap in
      IN  assessed[i].presentation = "strong_candidate" /\ i \notin in =>
            /\ \A j \in Listed(assessed[i].motion) :
                 assessed[j].confidence = "high" /\ assessed[j].blocking_flags = {}
            /\ \A j \in in : Cardinality(Listed(assessed[j].motion))
                               <= Cardinality(Listed(assessed[i].motion)) + 1

=============================================================================
