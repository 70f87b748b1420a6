---------------------------- MODULE EstatePolicy ----------------------------
(***************************************************************************)
(* estate-triage, the assessment kernel: feature_engine.py, policy.py with *)
(* its default policy pack, the confidence and the flags of assessment.py  *)
(* and the presentation class of business_impact.py.                       *)
(*                                                                         *)
(* A workload w is a resolved inventory row: w.inventory, w.backup (NoRow  *)
(* when none was found), w.samples (its utilization rows by position),     *)
(* w.matched_by and w.status.  Amounts are natural numbers in the unit of  *)
(* the thresholds, ages are in days; a ratio is rounded down and a change  *)
(* rate up, which leaves every comparison with a whole threshold as it is. *)
(***************************************************************************)
EXTENDS Integers, SequencesExt, FiniteSetsExt

CONSTANTS NoRow,      \* no backup row
          Thresholds  \* the thresholds of config.py, a record

(* config.py takes no threshold below zero.                                 *)
ASSUME ThresholdsAssumption ==
  Thresholds \in [{"recent_backup_days", "stale_backup_days", "high_cpu_count", "high_memory_mib",
                   "small_workload_mib", "large_backup_mib", "low_change_rate_pct",
                   "high_backup_to_used_ratio", "many_restore_points", "idle_cpu_pct",
                   "low_memory_usage_pct"} -> Nat]

Missing == -1         \* a numeric field without a value
Absent == "absent"    \* a text field without a value

Present(v) == v # Missing

Largest(S) == IF S = {} THEN Missing ELSE Max(S)

Known(w, field) == {w.samples[k][field] : k \in DOMAIN w.samples} \ {Missing}

Of(w, field) == IF w.backup = NoRow THEN Missing ELSE w.backup[field]

-----------------------------------------------------------------------------
(* feature_engine.py                                                        *)

BackupToUsedRatio(w) ==
  IF w.inventory.in_use_mib <= 0 \/ ~Present(Of(w, "backup_total_mib")) THEN Missing
  ELSE Of(w, "backup_total_mib") \div w.inventory.in_use_mib

ChangeRatePct(w) ==
  IF w.inventory.in_use_mib <= 0 \/ Of(w, "avg_daily_change_mib") <= 0 THEN Missing
  ELSE (100 * Of(w, "avg_daily_change_mib") + w.inventory.in_use_mib - 1) \div w.inventory.in_use_mib

HasRecentBackup(w) == /\ Present(Of(w, "restore_point_age"))
                      /\ Of(w, "restore_point_age") <= Thresholds.recent_backup_days

StaleBackup(w) == /\ Present(Of(w, "restore_point_age"))
                  /\ Of(w, "restore_point_age") > Thresholds.stale_backup_days

\* The threshold of a stale backup serves for a stale inventory row too.
StaleInventorySeen(w) == /\ Present(w.inventory.last_seen_age)
                         /\ w.inventory.last_seen_age > Thresholds.stale_backup_days

LongRpoReview(w) == Present(Of(w, "rpo_hours")) /\ Of(w, "rpo_hours") > 24

PoweredOff(w) == w.inventory.power_state = "off"
PoweredOn(w) == w.inventory.power_state = "on"

HighAllocatedCpu(w) == w.inventory.cpu_count >= Thresholds.high_cpu_count
HighAllocatedMemory(w) == w.inventory.memory_mib >= Thresholds.high_memory_mib
LargeBackupFootprint(w) == Of(w, "backup_total_mib") >= Thresholds.large_backup_mib
LowChangeRate(w) == Present(ChangeRatePct(w)) /\ ChangeRatePct(w) <= Thresholds.low_change_rate_pct
SnapshotPresent(w) == w.inventory.snapshot_total_mib > 0
OsUnknown(w) == w.inventory.os \in {Absent, "unknown"}

CpuP95(w) == Largest(Known(w, "cpu_p95_pct"))
MemoryP95(w) == Largest(Known(w, "memory_p95_pct"))

SampleCount(w) ==
  IF Known(w, "sample_count") = {} THEN Missing
  ELSE MapThenSumSet(LAMBDA k : w.samples[k].sample_count,
                     {k \in DOMAIN w.samples : Present(w.samples[k].sample_count)})

WindowDays(w) ==
  IF Known(w, "sample_start") = {} \/ Known(w, "sample_end") = {} THEN Missing
  ELSE Max(Known(w, "sample_end")) - Min(Known(w, "sample_start"))

SampleQuality(w) == SampleCount(w) >= 24 /\ WindowDays(w) >= 1

(* The high-priority part of what compute_features reports as missing.      *)
HighMissing(w) ==
  {field \in {"in_use_mib", "backup_total_mib", "avg_daily_change_mib", "latest_restore_point_utc",
              "cpu_p95_pct", "memory_p95_pct", "cpu_usage_pct", "memory_usage_pct"} :
     \/ field = "in_use_mib" /\ w.inventory.in_use_mib <= 0
     \/ field = "backup_total_mib" /\ ~Present(Of(w, "backup_total_mib"))
     \/ field = "avg_daily_change_mib" /\ \/ w.backup = NoRow
                                          \/ /\ w.inventory.in_use_mib > 0
                                             /\ Of(w, "avg_daily_change_mib") <= 0
     \/ field = "latest_restore_point_utc" /\ ~Present(Of(w, "restore_point_age"))
     \/ field = "cpu_p95_pct" /\ w.samples # <<>> /\ ~Present(CpuP95(w))
     \/ field = "memory_p95_pct" /\ w.samples # <<>> /\ ~Present(MemoryP95(w))
     \/ field = "cpu_usage_pct" /\ HighAllocatedCpu(w)
                                /\ ~Present(w.inventory.cpu_usage_pct) /\ ~Present(CpuP95(w))
     \/ field = "memory_usage_pct" /\ HighAllocatedMemory(w)
                                   /\ ~Present(w.inventory.memory_usage_pct) /\ ~Present(MemoryP95(w))}

(* What the conditions of a policy may ask for.                             *)
Facts(w) ==
  [backup_matched             |-> w.backup # NoRow,
   backup_to_used_ratio       |-> BackupToUsedRatio(w),
   has_recent_backup          |-> HasRecentBackup(w),
   stale_backup               |-> StaleBackup(w),
   stale_inventory_seen       |-> StaleInventorySeen(w),
   long_rpo_review            |-> LongRpoReview(w),
   powered_on                 |-> PoweredOn(w),
   powered_off                |-> PoweredOff(w),
   high_allocated_cpu         |-> HighAllocatedCpu(w),
   high_allocated_memory      |-> HighAllocatedMemory(w),
   large_backup_footprint     |-> LargeBackupFootprint(w),
   low_change_rate            |-> LowChangeRate(w),
   snapshot_present           |-> SnapshotPresent(w),
   os_unknown                 |-> OsUnknown(w),
   utilization_sample_count   |-> SampleCount(w),
   utilization_sample_quality |-> SampleQuality(w),
   in_use_mib                 |-> w.inventory.in_use_mib,
   cpu_count                  |-> w.inventory.cpu_count,
   memory_mib                 |-> w.inventory.memory_mib,
   cpu_usage_pct              |-> IF Present(w.inventory.cpu_usage_pct)
                                  THEN w.inventory.cpu_usage_pct ELSE CpuP95(w),
   memory_usage_pct           |-> IF Present(w.inventory.memory_usage_pct)
                                  THEN w.inventory.memory_usage_pct ELSE MemoryP95(w),
   restore_point_count        |-> Of(w, "restore_point_count")]

-----------------------------------------------------------------------------
(* policy.py: rules are data.                                               *)

Is(field) == [field |-> field, op |-> "eq", value |-> TRUE]
IsNot(field) == [field |-> field, op |-> "eq", value |-> FALSE]
Compare(field, op, value) == [field |-> field, op |-> op, value |-> value]

Rule(motion, score, when, flags, tags) ==
  [motion |-> motion, score |-> score, when |-> when, flags |-> flags, tags |-> tags]

Migration(score, when, flags) == Rule("MIGRATION_REVIEW", score, when, flags, {})
Archive(score, when, flags) == Rule("ARCHIVE_REVIEW", score, when, flags, {})
Rightsizing(score, when, flags, tags) == Rule("RIGHTSIZING_REVIEW", score, when, flags, tags)
DrTier(score, when, flags) == Rule("DR_TIER_REVIEW", score, when, flags, {})

MigrationRules ==
  << Migration(20, <<Is("powered_on")>>, {}),
     Migration(20, <<Is("has_recent_backup")>>, {}),
     Migration(20, <<Is("low_change_rate")>>, {}),
     Migration(15, <<Compare("in_use_mib", "lt", Thresholds.small_workload_mib)>>, {}),
     Migration(10, <<IsNot("os_unknown")>>, {}),
     Migration(10, <<IsNot("snapshot_present")>>, {}),
     Migration(-25, <<Is("snapshot_present")>>, {"SNAPSHOT_PRESENT"}),
     Migration(-20, <<IsNot("backup_matched")>>, {"NO_BACKUP_MATCH"}) >>

ArchiveRules ==
  << Archive(35, <<Is("powered_off")>>, {}),
     Archive(20, <<Is("stale_backup")>>, {}),
     Archive(15, <<Is("stale_inventory_seen")>>, {}),
     Archive(15, <<Compare("in_use_mib", "lt", Thresholds.small_workload_mib)>>, {}),
     Archive(15, <<IsNot("backup_matched")>>, {"NO_BACKUP_MATCH"}),
     Archive(10, <<Is("os_unknown")>>, {}),
     Archive(-25, <<Is("powered_on")>>, {}) >>

RightsizingRules ==
  << Rightsizing(30, <<Compare("cpu_usage_pct", "lte", Thresholds.idle_cpu_pct),
                       Compare("cpu_count", "gte", 4)>>, {}, {"utilization_signal"}),
     Rightsizing(20, <<Compare("cpu_usage_pct", "missing", 0), Is("high_allocated_cpu")>>,
                 {}, {"allocation_signal"}),
     Rightsizing(30, <<Compare("memory_usage_pct", "lte", Thresholds.low_memory_usage_pct),
                       Compare("memory_mib", "gte", 16384)>>, {}, {"utilization_signal"}),
     Rightsizing(20, <<Compare("memory_usage_pct", "missing", 0), Is("high_allocated_memory")>>,
                 {}, {"allocation_signal"}),
     Rightsizing(10, <<Is("low_change_rate")>>, {}, {}),
     Rightsizing(5, <<Is("utilization_sample_quality")>>, {}, {"utilization_signal"}),
     Rightsizing(-10, <<Compare("utilization_sample_count", "present", 0),
                        IsNot("utilization_sample_quality")>>, {"SPARSE_UTILIZATION_WINDOW"}, {}) >>

DrTierRules ==
  << DrTier(30, <<Is("low_change_rate")>>, {}),
     DrTier(25, <<Is("large_backup_footprint")>>, {}),
     DrTier(15, <<Compare("backup_to_used_ratio", "gte", Thresholds.high_backup_to_used_ratio)>>, {}),
     DrTier(10, <<Compare("restore_point_count", "gte", Thresholds.many_restore_points)>>, {}),
     DrTier(10, <<Is("has_recent_backup")>>, {}),
     DrTier(10, <<Is("long_rpo_review")>>, {}),
     DrTier(-25, <<IsNot("backup_matched")>>, {"NO_BACKUP_MATCH"}) >>

(* Mutant: a value at the threshold is not below it.                        *)
EvalConditionStrict(c, facts) ==
  \/ c.op = "present" /\ Present(facts[c.field])
  \/ c.op = "missing" /\ ~Present(facts[c.field])
  \/ c.op = "eq" /\ facts[c.field] = c.value
  \/ c.op \in {"lt", "lte"} /\ Present(facts[c.field]) /\ facts[c.field] < c.value
  \/ c.op = "gte" /\ Present(facts[c.field]) /\ facts[c.field] >= c.value

(* A missing value meets no comparison, only "missing".                     *)
EvalCondition(c, facts) ==
  \/ c.op = "present" /\ Present(facts[c.field])
  \/ c.op = "missing" /\ ~Present(facts[c.field])
  \/ c.op = "eq" /\ facts[c.field] = c.value
  \/ c.op = "lt" /\ Present(facts[c.field]) /\ facts[c.field] < c.value
  \/ c.op = "lte" /\ Present(facts[c.field]) /\ facts[c.field] <= c.value
  \/ c.op = "gte" /\ Present(facts[c.field]) /\ facts[c.field] >= c.value

Fires(rule, facts) == \A k \in DOMAIN rule.when : EvalCondition(rule.when[k], facts)

Clamp(n) == IF n < 0 THEN 0 ELSE IF n > 100 THEN 100 ELSE n

MotionOrder == <<"MIGRATION_REVIEW", "ARCHIVE_REVIEW", "RIGHTSIZING_REVIEW", "DR_TIER_REVIEW">>

SumOf(points) ==
  LET sum[n \in 0..Len(points)] == IF n = 0 THEN 0 ELSE sum[n - 1] + points[n]
  IN  sum[Len(points)]

Assess(motion, rules, facts) ==
  LET fired == {k \in DOMAIN rules : Fires(rules[k], facts)}
      tags == UNION {rules[k].tags : k \in fired}
  IN  [motion          |-> motion,
       score           |-> Clamp(SumOf([k \in DOMAIN rules |-> IF k \in fired THEN rules[k].score ELSE 0])),
       blocking_flags  |-> UNION {rules[k].flags : k \in fired},
       allocation_only |-> "allocation_signal" \in tags /\ "utilization_signal" \notin tags]

EvaluatePolicy(w) ==
  LET facts == Facts(w)
  IN  << Assess("MIGRATION_REVIEW", MigrationRules, facts),
         Assess("ARCHIVE_REVIEW", ArchiveRules, facts),
         Assess("RIGHTSIZING_REVIEW", RightsizingRules, facts),
         Assess("DR_TIER_REVIEW", DrTierRules, facts) >>

(* The best score; of equal scores the first motion.                        *)
ChooseWinner(assessments) ==
  assessments[CHOOSE k \in DOMAIN assessments :
                \A l \in DOMAIN assessments :
                  \/ assessments[k].score > assessments[l].score
                  \/ assessments[k].score = assessments[l].score /\ k <= l]

-----------------------------------------------------------------------------
(* assessment.py                                                            *)

HasEnoughMetrics(w, winner) ==
  \/ /\ winner.motion = "MIGRATION_REVIEW"
     /\ w.backup # NoRow /\ HasRecentBackup(w) /\ Present(ChangeRatePct(w))
     /\ Present(w.inventory.in_use_mib) /\ w.inventory.os # Absent
  \/ /\ winner.motion = "ARCHIVE_REVIEW"
     /\ w.inventory.power_state # Absent \/ StaleBackup(w)
  \/ /\ winner.motion = "RIGHTSIZING_REVIEW" /\ ~winner.allocation_only
     /\ \/ Present(w.inventory.cpu_usage_pct) \/ Present(w.inventory.memory_usage_pct)
        \/ Present(CpuP95(w)) \/ Present(MemoryP95(w))
  \/ /\ winner.motion = "DR_TIER_REVIEW"
     /\ w.backup # NoRow /\ Present(Of(w, "backup_total_mib"))
     /\ Present(w.inventory.in_use_mib) /\ Present(ChangeRatePct(w))

AllocationOnly(winner) == winner.motion = "RIGHTSIZING_REVIEW" /\ winner.allocation_only

Confidence(w, winner) ==
  IF \/ w.backup = NoRow
     \/ w.status \in {"CONFLICTED", "DUPLICATE_CANDIDATES"}
     \/ AllocationOnly(winner)
     \/ ~HasEnoughMetrics(w, winner)
  THEN "low"
  ELSE IF w.matched_by = "UUID" THEN "high"
  ELSE IF w.matched_by = "NAME" THEN "medium"
  ELSE "low"

BlockingFlags(w, winner) ==
  winner.blocking_flags \cup
  {flag \in {"NO_BACKUP_MATCH", "SNAPSHOT_PRESENT", "MISSING_STORAGE_USED", "MISSING_BACKUP_SIZE",
             "MISSING_CHANGE_RATE", "NAME_MATCH_ONLY", "CONFLICTED", "DUPLICATE_CANDIDATES",
             "LOW_CONFIDENCE_RIGHTSIZING", "POWERED_OFF_NOT_MIGRATION_CANDIDATE"} :
     \/ flag = "NO_BACKUP_MATCH" /\ w.backup = NoRow
     \/ flag = "SNAPSHOT_PRESENT" /\ SnapshotPresent(w)
     \/ flag = "MISSING_STORAGE_USED" /\ w.inventory.in_use_mib <= 0
     \/ flag = "MISSING_BACKUP_SIZE" /\ ~Present(Of(w, "backup_total_mib"))
     \/ flag = "MISSING_CHANGE_RATE" /\ ~Present(ChangeRatePct(w))
     \/ flag = "NAME_MATCH_ONLY" /\ w.matched_by = "NAME"
     \/ flag \in {"CONFLICTED", "DUPLICATE_CANDIDATES"} /\ w.status = flag
     \/ flag = "LOW_CONFIDENCE_RIGHTSIZING" /\ AllocationOnly(winner)
     \/ flag = "POWERED_OFF_NOT_MIGRATION_CANDIDATE" /\ winner.motion = "MIGRATION_REVIEW" /\ PoweredOff(w)}

-----------------------------------------------------------------------------
(* business_impact.py                                                       *)

HighBlockers == {"CONFLICTED", "DUPLICATE_CANDIDATES", "NO_BACKUP_MATCH", "MISSING_STORAGE_USED"}

ReviewBlockers ==
  {"NAME_MATCH_ONLY", "SNAPSHOT_PRESENT", "MISSING_CHANGE_RATE", "MISSING_BACKUP_SIZE",
   "LOW_CONFIDENCE_RIGHTSIZING", "SPARSE_UTILIZATION_WINDOW", "POWERED_OFF_NOT_MIGRATION_CANDIDATE"}

PresentationClass(flags, confidence, highMissing) ==
  IF flags \cap HighBlockers # {} THEN "do_not_present"
  ELSE IF confidence = "low" \/ highMissing # {} THEN "needs_more_data"
  ELSE IF flags \cap ReviewBlockers # {} \/ confidence # "high" THEN "review_candidate"
  ELSE "strong_candidate"

Assessment(w) ==
  LET winner == ChooseWinner(EvaluatePolicy(w))
      flags == BlockingFlags(w, winner)
      confidence == Confidence(w, winner)
  IN  [motion |-> winner.motion, score |-> winner.score, confidence |-> confidence,
       blocking_flags |-> flags, presentation |-> PresentationClass(flags, confidence, HighMissing(w))]

=============================================================================
