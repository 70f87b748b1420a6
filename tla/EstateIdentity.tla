--------------------------- MODULE EstateIdentity ---------------------------
(***************************************************************************)
(* estate-triage, identity.py and matching.py: which row of the backup     *)
(* export belongs to a row of the inventory.  A row keeps its identifiers  *)
(* (uuid and normalised name, either may be absent) and its position; what *)
(* else a row carries is the business of EstatePolicy.                     *)
(***************************************************************************)
EXTENDS Naturals, Sequences

CONSTANTS None,          \* an absent identifier
          NoBackup,      \* the position of no backup row
          RelaxedName    \* from a name to its letters and digits, or to None when fewer than four

Statuses == {"RESOLVED", "PROBABLE", "CONFLICTED", "DUPLICATE_CANDIDATES", "UNMATCHED"}

-----------------------------------------------------------------------------
(* The indexes over an export, as the sets of positions they give.          *)

Having(rows, field, v) == {k \in DOMAIN rows : v # None /\ rows[k][field] = v}

HavingRelaxed(rows, v) ==
  {k \in DOMAIN rows : v # None /\ rows[k].name # None /\ RelaxedName[rows[k].name] = v}

Relaxed(row) == IF row.name = None THEN None ELSE RelaxedName[row.name]

FirstByRow(ks) == CHOOSE k \in ks : \A l \in ks : k <= l

Several(ks) == \E k, l \in ks : k # l

-----------------------------------------------------------------------------
(* Reviewed overrides.  A row with a uuid is looked up by it alone; of two  *)
(* overrides with the same key the later one counts.                        *)

OverridesFor(overrides, row) ==
  IF row.uuid # None
  THEN Having(overrides, "inventory_uuid", row.uuid)
  ELSE Having(overrides, "inventory_name", row.name)

LastByRow(ks) == CHOOSE k \in ks : \A l \in ks : l <= k

NoMatch == [backup |-> NoBackup, matched_by |-> "NONE", status |-> "UNMATCHED", strategy |-> "no_match"]

ByOverride(backups, override) ==
  LET uuids == Having(backups, "uuid", override.backup_uuid)
      names == Having(backups, "name", override.backup_name)
  IN  IF uuids # {} THEN [backup |-> FirstByRow(uuids), matched_by |-> "UUID",
                          status |-> "RESOLVED", strategy |-> "identity_override"]
      ELSE IF names # {} THEN [backup |-> FirstByRow(names), matched_by |-> "NAME",
                               status |-> "PROBABLE", strategy |-> "identity_override"]
      ELSE NoMatch

(* By uuid.  Two rows with the uuid make the match doubtful, and a first    *)
(* row of the same name that is another row makes it a conflict.            *)
UuidStatus(uuids, names) ==
  IF names # {} /\ FirstByRow(names) # FirstByRow(uuids) THEN "CONFLICTED"
  ELSE IF Several(uuids) THEN "DUPLICATE_CANDIDATES"
  ELSE "RESOLVED"

ByUuid(uuids, names) ==
  [backup |-> FirstByRow(uuids), matched_by |-> "UUID", status |-> UuidStatus(uuids, names),
   strategy |-> IF UuidStatus(uuids, names) = "CONFLICTED"
                THEN "uuid_preferred_over_conflicting_name" ELSE "exact_uuid"]

(* Mutant: a name shared by several backup rows goes unreported.            *)
ByNameSilently(names) ==
  [backup |-> FirstByRow(names), matched_by |-> "NAME", strategy |-> "normalized_name", status |-> "PROBABLE"]

ByName(names) ==
  [backup |-> FirstByRow(names), matched_by |-> "NAME", strategy |-> "normalized_name",
   status |-> IF Several(names) THEN "DUPLICATE_CANDIDATES" ELSE "PROBABLE"]

ByRelaxedName(relaxed) ==
  [backup |-> FirstByRow(relaxed), matched_by |-> "NAME", strategy |-> "controlled_relaxed_name",
   status |-> "PROBABLE"]

(* Mutant: names are compared before uuids.                                 *)
MatchNameFirst(backups, overrides, row) ==
  LET reviewed == OverridesFor(overrides, row)
      uuids == Having(backups, "uuid", row.uuid)
      names == Having(backups, "name", row.name)
      relaxed == HavingRelaxed(backups, Relaxed(row))
  IN  IF reviewed # {} THEN ByOverride(backups, overrides[LastByRow(reviewed)])
      ELSE IF names # {} THEN ByName(names)
      ELSE IF uuids # {} THEN ByUuid(uuids, names)
      ELSE IF relaxed # {} /\ ~Several(relaxed) THEN ByRelaxedName(relaxed)
      ELSE NoMatch

(* An override that names no backup row leaves the row unmatched: the other *)
(* ways are not tried.                                                      *)
Match(backups, overrides, row) ==
  LET reviewed == OverridesFor(overrides, row)
      uuids == Having(backups, "uuid", row.uuid)
      names == Having(backups, "name", row.name)
      relaxed == HavingRelaxed(backups, Relaxed(row))
  IN  IF reviewed # {} THEN ByOverride(backups, overrides[LastByRow(reviewed)])
      ELSE IF uuids # {} THEN ByUuid(uuids, names)
      ELSE IF names # {} THEN ByName(names)
      ELSE IF relaxed # {} /\ ~Several(relaxed) THEN ByRelaxedName(relaxed)
      ELSE NoMatch

(* Mutant: only rows without a uuid are looked for twice.                   *)
DuplicateByName(inventory, row) ==
  row.uuid = None /\ Several(Having(inventory, "name", row.name))

(* Another inventory row with the uuid (without a uuid: with the name).     *)
DuplicateRow(inventory, row) ==
  IF row.uuid # None THEN Several(Having(inventory, "uuid", row.uuid))
  ELSE Several(Having(inventory, "name", row.name))

Resolve(inventory, backups, overrides, i) ==
  LET found == Match(backups, overrides, inventory[i])
  IN  IF DuplicateRow(inventory, inventory[i])
      THEN [found EXCEPT !.status = "DUPLICATE_CANDIDATES"]
      ELSE found

(* The samples that belong to a row: those with its uuid, else its name.    *)
UtilizationOf(utilization, row) ==
  IF Having(utilization, "uuid", row.uuid) # {}
  THEN Having(utilization, "uuid", row.uuid)
  ELSE Having(utilization, "name", row.name)

-----------------------------------------------------------------------------
(* matching.py: the older join the tests of the scoring rules start from.   *)

Join(backups, row) ==
  LET uuids == Having(backups, "uuid", row.uuid)
      names == Having(backups, "name", row.name)
  IN  IF uuids # {} THEN [backup |-> FirstByRow(uuids), matched_by |-> "UUID"]
      ELSE IF names # {} THEN [backup |-> FirstByRow(names), matched_by |-> "NAME"]
      ELSE [backup |-> NoBackup, matched_by |-> "NONE"]

=============================================================================
