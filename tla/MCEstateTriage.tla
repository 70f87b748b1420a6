--------------------------- MODULE MCEstateTriage ---------------------------
(***************************************************************************)
(* Small exports for EstateTriage: several rows whose identifiers clash in *)
(* every way but whose content is one of a few profiles, and single rows   *)
(* whose content varies in up to MaxVaried fields.                         *)
(***************************************************************************)
EXTENDS EstateTriage

CONSTANTS MaxVaried,    \* fields in which a single row differs from the profile
          MaxInventory, \* rows of the inventory
          MaxBackups    \* rows of the backup export

MCThresholds ==
  [recent_backup_days |-> 14, stale_backup_days |-> 60, high_cpu_count |-> 8, high_memory_mib |-> 32768,
   small_workload_mib |-> 50, large_backup_mib |-> 200, low_change_rate_pct |-> 1,
   high_backup_to_used_ratio |-> 3, many_restore_points |-> 30, idle_cpu_pct |-> 5,
   low_memory_usage_pct |-> 30]

\* "mail01.corp" and "mail01" are one name to the loose comparison, "db" is too short for it.
MCRelaxedName == [n \in {"mail01", "mail01.corp", "db"} |-> IF n = "db" THEN None ELSE "mail01"]

MCKeyRank == [k \in {"db", "mail01", "mail01.corp", "u1", "u2"} |->
               CASE k = "db" -> 1 [] k = "mail01" -> 2 [] k = "mail01.corp" -> 3
                 [] k = "u1" -> 4 [] k = "u2" -> 5]

-----------------------------------------------------------------------------
Active ==
  [uuid |-> "u1", name |-> "mail01", power_state |-> "on", os |-> "known", cpu_count |-> 2,
   memory_mib |-> 4096, cpu_usage_pct |-> Missing, memory_usage_pct |-> Missing, in_use_mib |-> 40,
   snapshot_total_mib |-> 0, last_seen_age |-> Missing]

Idle == [Active EXCEPT !.cpu_count = 8, !.memory_mib = 16384, !.cpu_usage_pct = 3,
                       !.memory_usage_pct = 20, !.in_use_mib = 100]

Retired == [Active EXCEPT !.power_state = "off", !.os = "unknown", !.snapshot_total_mib = 1]

Protected ==
  [uuid |-> "u1", name |-> "mail01", backup_total_mib |-> 150, avg_daily_change_mib |-> 1,
   restore_point_count |-> 14, restore_point_age |-> 3, rpo_hours |-> Missing]

Emptied == [Retired EXCEPT !.in_use_mib = 60, !.snapshot_total_mib = 0]

Named(row, u, n) == [row EXCEPT !.uuid = u, !.name = n]

InventoryRows ==
  {Named(Active, "u1", "mail01"), Named(Idle, "u2", "mail01"), Named(Active, None, "mail01.corp"),
   Named(Active, "u2", "db"), Named(Retired, "u1", "db"), Named(Active, None, "db"), Named(Emptied, "u2", None)}

BackupRows ==
  {Named(Protected, "u1", "mail01"), Named(Protected, "u2", "mail01"), Named(Protected, "u1", "db"),
   Named(Protected, None, "mail01.corp"), Named(Protected, "u2", None)}

Override(iu, in, bu, bn) ==
  [inventory_uuid |-> iu, inventory_name |-> in, backup_uuid |-> bu, backup_name |-> bn]

Overrides ==
  { <<>>, <<Override("u1", None, "u2", None)>>, <<Override(None, "db", "u3", "mail01.corp")>>,
    <<Override("u2", "db", "u1", None), Override("u2", None, None, "db")>>,
    <<Override("u1", "mail01", "u3", "nosuch")>> }

Clashing ==
  [inventories  |-> UNION {[1..n -> InventoryRows] : n \in 1..MaxInventory},
   backups      |-> UNION {[1..n -> BackupRows] : n \in 0..MaxBackups},
   utilizations |-> {<<>>},
   overrides    |-> Overrides]

-----------------------------------------------------------------------------
InventoryValues ==
  [power_state |-> {"off", "suspended", Absent}, os |-> {"unknown", Absent}, cpu_count |-> {4, 8, Missing},
   memory_mib |-> {16384, 32768, Missing}, cpu_usage_pct |-> {5, 6}, memory_usage_pct |-> {30, 31},
   in_use_mib |-> {0, 50, 100, Missing}, snapshot_total_mib |-> {1, Missing}, last_seen_age |-> {60, 61}]

BackupValues ==
  [backup_total_mib |-> {20, 200, Missing}, avg_daily_change_mib |-> {0, 2, Missing},
   restore_point_count |-> {30, Missing}, restore_point_age |-> {14, 15, 60, 61, Missing},
   rpo_hours |-> {24, 25}]

Sample == [uuid |-> "u1", name |-> None, cpu_p95_pct |-> 4, memory_p95_pct |-> Missing,
           sample_count |-> 12, sample_start |-> 0, sample_end |-> 1]

Samples ==
  { <<Sample>>, <<Sample, [Sample EXCEPT !.sample_end = 2, !.memory_p95_pct = 20]>>,
    <<[Sample EXCEPT !.uuid = None, !.name = "mail01", !.cpu_p95_pct = 50, !.sample_count = Missing]>> }

\* The rows that differ from row in at most n fields.
Varied(row, values, n) ==
  LET vary[k \in 0..n] ==
        IF k = 0 THEN {row}
        ELSE vary[k - 1] \cup UNION {{[r EXCEPT ![f] = v] : v \in values[f]} : r \in vary[k - 1], f \in DOMAIN values}
  IN  vary[n]

Single ==
  [inventories  |-> {<<row>> : row \in Varied(Active, InventoryValues, MaxVaried)},
   backups      |-> {<<>>} \cup {<<row>> : row \in Varied(Protected, BackupValues, MaxVaried)},
   utilizations |-> {<<>>} \cup Samples,
   overrides    |-> {<<>>}]

MCFamilies == {Clashing, Single}

=============================================================================
