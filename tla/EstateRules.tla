----------------------------- MODULE EstateRules -----------------------------
(***************************************************************************)
(* estate-triage, the engine before the kernel: features.py, rules.py and  *)
(* scoring.py.  No command uses it any more, but the repository's tests of *)
(* the rules run it, so it has to say what the kernel says.  A workload is *)
(* written as in EstatePolicy.                                             *)
(***************************************************************************)
EXTENDS EstatePolicy

(* features.py                                                              *)
DeriveFeatures(w) ==
  LET used == w.inventory.in_use_mib
      total == Of(w, "backup_total_mib")
      change == Of(w, "avg_daily_change_mib")
      age == Of(w, "restore_point_age")
      rate == IF used <= 0 \/ ~Present(change) \/ change <= 0 THEN Missing
              ELSE (100 * change + used - 1) \div used
  IN  [backup_to_used_ratio   |-> IF used <= 0 \/ ~Present(total) THEN Missing ELSE total \div used,
       change_rate_pct        |-> rate,
       has_recent_backup      |-> Present(age) /\ age <= Thresholds.recent_backup_days,
       stale_backup           |-> Present(age) /\ age > Thresholds.stale_backup_days,
       powered_on             |-> w.inventory.power_state = "on",
       powered_off            |-> w.inventory.power_state = "off",
       high_allocated_cpu     |-> w.inventory.cpu_count >= Thresholds.high_cpu_count,
       high_allocated_memory  |-> w.inventory.memory_mib >= Thresholds.high_memory_mib,
       large_backup_footprint |-> total >= Thresholds.large_backup_mib,
       low_change_rate        |-> Present(rate) /\ rate <= Thresholds.low_change_rate_pct,
       snapshot_present       |-> w.inventory.snapshot_total_mib > 0]

IsUnknownOs(os) == os = Absent \/ os = "unknown"

Points(condition, n) == IF condition THEN n ELSE 0

SmallStorage(w) == /\ Present(w.inventory.in_use_mib)
                   /\ w.inventory.in_use_mib < Thresholds.small_workload_mib

-----------------------------------------------------------------------------
(* rules.py                                                                 *)

MigrationReview(w, f) ==
  Points(f.powered_on, 20) + Points(f.has_recent_backup, 20) + Points(f.low_change_rate, 20)
    + Points(SmallStorage(w), 15) + Points(~IsUnknownOs(w.inventory.os), 10)
    + (IF f.snapshot_present THEN -25 ELSE 10) + Points(w.backup = NoRow, -20)

ArchiveReview(w, f) ==
  Points(f.powered_off, 35) + Points(f.stale_backup, 20) + Points(SmallStorage(w), 15)
    + Points(w.backup = NoRow, 15) + Points(IsUnknownOs(w.inventory.os), 10) + Points(f.powered_on, -25)

IdleCpu(w) == /\ Present(w.inventory.cpu_usage_pct) /\ w.inventory.cpu_count >= 4
              /\ w.inventory.cpu_usage_pct <= Thresholds.idle_cpu_pct

OversizedMemory(w) == /\ Present(w.inventory.memory_usage_pct) /\ w.inventory.memory_mib >= 16384
                      /\ w.inventory.memory_usage_pct <= Thresholds.low_memory_usage_pct

AllocatedCpu(w, f) == ~Present(w.inventory.cpu_usage_pct) /\ f.high_allocated_cpu
AllocatedMemory(w, f) == ~Present(w.inventory.memory_usage_pct) /\ f.high_allocated_memory

RightsizingReview(w, f) ==
  Points(IdleCpu(w), 30) + Points(AllocatedCpu(w, f), 20)
    + Points(OversizedMemory(w), 30) + Points(AllocatedMemory(w, f), 20) + Points(f.low_change_rate, 10)

AllocationOnlyReview(w, f) ==
  (AllocatedCpu(w, f) \/ AllocatedMemory(w, f)) /\ ~IdleCpu(w) /\ ~OversizedMemory(w)

DrTierReview(w, f) ==
  Points(f.low_change_rate, 30) + Points(f.large_backup_footprint, 25)
    + Points(f.backup_to_used_ratio >= Thresholds.high_backup_to_used_ratio, 15)
    + Points(Of(w, "restore_point_count") >= Thresholds.many_restore_points, 10)
    + Points(f.has_recent_backup, 10) + Points(w.backup = NoRow, -25)

ScoreAllMotions(w, f) ==
  << [motion |-> "MIGRATION_REVIEW", score |-> Clamp(MigrationReview(w, f)), allocation_only |-> FALSE],
     [motion |-> "ARCHIVE_REVIEW", score |-> Clamp(ArchiveReview(w, f)), allocation_only |-> FALSE],
     [motion |-> "RIGHTSIZING_REVIEW", score |-> Clamp(RightsizingReview(w, f)),
      allocation_only |-> AllocationOnlyReview(w, f)],
     [motion |-> "DR_TIER_REVIEW", score |-> Clamp(DrTierReview(w, f)), allocation_only |-> FALSE] >>

-----------------------------------------------------------------------------
(* scoring.py                                                               *)

ScoredEnough(w, f, winner) ==
  \/ /\ winner.motion = "MIGRATION_REVIEW"
     /\ w.backup # NoRow /\ f.has_recent_backup /\ Present(f.change_rate_pct)
     /\ Present(w.inventory.in_use_mib) /\ w.inventory.os # Absent
  \/ /\ winner.motion = "ARCHIVE_REVIEW"
     /\ w.inventory.power_state # Absent \/ f.stale_backup
  \/ /\ winner.motion = "RIGHTSIZING_REVIEW" /\ ~winner.allocation_only
     /\ Present(w.inventory.cpu_usage_pct) \/ Present(w.inventory.memory_usage_pct)
  \/ /\ winner.motion = "DR_TIER_REVIEW"
     /\ w.backup # NoRow /\ Present(Of(w, "backup_total_mib"))
     /\ Present(w.inventory.in_use_mib) /\ Present(f.change_rate_pct)

ScoredConfidence(w, f, winner) ==
  IF w.backup = NoRow \/ winner.allocation_only \/ ~ScoredEnough(w, f, winner) THEN "low"
  ELSE IF w.matched_by = "UUID" THEN "high"
  ELSE IF w.matched_by = "NAME" THEN "medium"
  ELSE "low"

ScoredFlags(w, f, winner) ==
  {flag \in {"NO_BACKUP_MATCH", "SNAPSHOT_PRESENT", "MISSING_STORAGE_USED", "MISSING_BACKUP_SIZE",
             "MISSING_CHANGE_RATE", "NAME_MATCH_ONLY", "LOW_CONFIDENCE_RIGHTSIZING",
             "POWERED_OFF_NOT_MIGRATION_CANDIDATE"} :
     \/ flag = "NO_BACKUP_MATCH" /\ w.backup = NoRow
     \/ flag = "SNAPSHOT_PRESENT" /\ f.snapshot_present
     \/ flag = "MISSING_STORAGE_USED" /\ w.inventory.in_use_mib <= 0
     \/ flag = "MISSING_BACKUP_SIZE" /\ ~Present(Of(w, "backup_total_mib"))
     \/ flag = "MISSING_CHANGE_RATE" /\ ~Present(f.change_rate_pct)
     \/ flag = "NAME_MATCH_ONLY" /\ w.matched_by = "NAME"
     \/ flag = "LOW_CONFIDENCE_RIGHTSIZING" /\ winner.allocation_only
     \/ flag = "POWERED_OFF_NOT_MIGRATION_CANDIDATE" /\ f.powered_off}

ScoreJoinedWorkload(w) ==
  LET f == DeriveFeatures(w)
      winner == ChooseWinner(ScoreAllMotions(w, f))
  IN  [motion |-> winner.motion, score |-> winner.score,
       confidence |-> ScoredConfidence(w, f, winner), blocking_flags |-> ScoredFlags(w, f, winner)]

=============================================================================
