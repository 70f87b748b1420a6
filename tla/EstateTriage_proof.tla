------------------------ MODULE EstateTriage_proof ------------------------
(* What holds of one analysis of an estate for all exports and overrides,    *)
(* all thresholds and all sizes of a ranking.                                *)
EXTENDS EstateTriage, FiniteSetTheorems, FunctionTheorems, SequenceTheorems, NaturalsInduction, WellFoundedInduction, TLAPS

-----------------------------------------------------------------------------
LEMMA NatMin ==
  ASSUME NEW T \in SUBSET Nat, T # {}
  PROVE  \E n \in T : \A m \in T : n <= m
<1> DEFINE R == {ss \in Nat \X Nat : ss[1] < ss[2]}
<1>1. R = OpToRel(<, Nat)  BY Zenon DEF OpToRel
<1>2. IsWellFoundedOn(R, Nat)  BY <1>1, NatLessThanWellFounded
<1> HIDE DEF R
<1>3. PICK n \in T : \A m \in T : <<m, n>> \notin R  BY <1>2, WFMin
<1>4. \A m \in T : ~(m < n)  BY <1>3 DEF R
<1> QED  BY <1>4

-----------------------------------------------------------------------------
(* What a match gives.                                                       *)
LEMMA FirstIsOne ==
  ASSUME NEW ks \in SUBSET Nat, ks # {}
  PROVE  FirstByRow(ks) \in ks
BY NatMin DEF FirstByRow

LEMMA MatchIsOneOf ==
  ASSUME NEW backups, NEW overrides, NEW row
  PROVE  LET m == Match(backups, overrides, row)
             uuids == Having(backups, "uuid", row.uuid)
             names == Having(backups, "name", row.name)
             relaxed == HavingRelaxed(backups, Relaxed(row))
         IN  \/ /\ OverridesFor(overrides, row) # {}
                /\ m = ByOverride(backups, overrides[LastByRow(OverridesFor(overrides, row))])
             \/ /\ OverridesFor(overrides, row) = {}
                /\ \/ uuids # {} /\ m = ByUuid(uuids, names)
                   \/ uuids = {} /\ names # {} /\ m = ByName(names)
                   \/ /\ uuids = {} /\ names = {} /\ relaxed # {} /\ ~Several(relaxed)
                      /\ m = ByRelaxedName(relaxed)
                   \/ /\ uuids = {} /\ names = {} /\ (relaxed = {} \/ Several(relaxed))
                      /\ m = NoMatch
BY DEF Match

MatchFields == {"backup", "matched_by", "status", "strategy"}

LEMMA MatchHasFields ==
  ASSUME NEW backups, NEW overrides, NEW row
  PROVE  /\ DOMAIN Match(backups, overrides, row) = MatchFields
         /\ Match(backups, overrides, row) = [f \in MatchFields |-> Match(backups, overrides, row)[f]]
<1> DEFINE m == Match(backups, overrides, row)
           Good(r) == r = [f \in MatchFields |-> r[f]]
<1>1. \A uuids, names : Good(ByUuid(uuids, names))  BY DEF ByUuid, MatchFields
<1>2. \A names : Good(ByName(names))  BY DEF ByName, MatchFields
<1>3. \A relaxed : Good(ByRelaxedName(relaxed))  BY DEF ByRelaxedName, MatchFields
<1>4. Good(NoMatch)  BY DEF NoMatch, MatchFields
<1>5. \A override : Good(ByOverride(backups, override))  BY <1>4 DEF ByOverride, MatchFields
<1> HIDE DEF Good
<1>6. Good(m)  BY <1>1, <1>2, <1>3, <1>4, <1>5, MatchIsOneOf
<1> QED  BY <1>6 DEF Good

(* A duplicate row only gets another status.                                 *)
LEMMA ResolveIs ==
  ASSUME NEW inventory, NEW backups, NEW overrides, NEW i
  PROVE  LET r == Resolve(inventory, backups, overrides, i)
             m == Match(backups, overrides, inventory[i])
         IN  /\ r.backup = m.backup /\ r.matched_by = m.matched_by /\ r.strategy = m.strategy
             /\ r.status = IF DuplicateRow(inventory, inventory[i]) THEN "DUPLICATE_CANDIDATES" ELSE m.status
<1> DEFINE m == Match(backups, overrides, inventory[i])
<1>1. DOMAIN m = MatchFields  BY MatchHasFields
<1>2. Resolve(inventory, backups, overrides, i)
        = IF DuplicateRow(inventory, inventory[i]) THEN [m EXCEPT !.status = "DUPLICATE_CANDIDATES"] ELSE m
  BY DEF Resolve
<1> HIDE DEF m
<1>3. DOMAIN m = MatchFields => [m EXCEPT !.status = "DUPLICATE_CANDIDATES"].status = "DUPLICATE_CANDIDATES"
  BY DEF MatchFields
<1> QED  BY <1>1, <1>2, <1>3 DEF m, MatchFields

-----------------------------------------------------------------------------
(* The analysis so far: what was resolved and assessed is what the rows give. *)
Found(i) == Resolve(estate.inventory, estate.backups, estate.overrides, i)

Assessed(i) == Assessment(Workload(i, Found(i)))

InputRead ==
  /\ IsExport(estate.inventory) /\ IsExport(estate.backups)
  /\ \A k \in DOMAIN estate.inventory : WorkloadKey(k) \in Int

RowsResolved ==
  /\ workloads \in Seq({Found(i) : i \in DOMAIN estate.inventory})
  /\ Len(workloads) <= Len(estate.inventory)
  /\ \A i \in DOMAIN workloads : workloads[i] = Found(i)
  /\ phase # "resolve" => Len(workloads) = Len(estate.inventory)

RestListed == unmatched = IF phase = "resolve" THEN {} ELSE DOMAIN estate.backups \ Used

RowsAssessed ==
  /\ assessed \in Seq({Assessed(i) : i \in DOMAIN estate.inventory})
  /\ Len(assessed) <= Len(workloads)
  /\ \A i \in DOMAIN assessed : assessed[i] = Assessed(i)
  /\ phase = "resolve" => assessed = <<>>

RowsRanked ==
  ranking # NoRanking =>
    /\ ranking.mode \in Modes /\ ranking.top_n \in TopNs
    /\ ranking.rows = RankedRows(ranking.mode, ranking.top_n)
    /\ phase = "done"

Traced == InputRead /\ RowsResolved /\ RestListed /\ RowsAssessed /\ RowsRanked

LEMMA InputStays == InputRead /\ UNCHANGED estate => InputRead'
BY DEF InputRead, WorkloadKey

LEMMA WorkStays ==
  ASSUME UNCHANGED <<estate, workloads>>
  PROVE  /\ Used' = Used
         /\ \A i : Found(i)' = Found(i) /\ Assessed(i)' = Assessed(i)
BY DEF Used, Found, Assessed, Workload, BackupRow, SamplesOf

LEMMA RankStays ==
  ASSUME UNCHANGED <<estate, assessed>>, NEW mode, NEW n
  PROVE  RankedRows(mode, n)' = RankedRows(mode, n)
BY DEF RankedRows, Take, Sorted, InOrder, Bucket, RoundKey, BalancedKey, GlobalKey, ConfidenceKey, BlockersKey,
       PresentationRank, WorkloadKey

LEMMA AllFound ==
  ASSUME InputRead, RowsResolved
  PROVE  /\ Len(workloads) \in Nat /\ DOMAIN workloads = 1..Len(workloads)
         /\ Len(estate.inventory) \in Nat /\ DOMAIN estate.inventory = 1..Len(estate.inventory)
BY DEF InputRead, RowsResolved, IsExport

LEMMA ResolveRowTraced == Traced /\ ResolveRow => Traced'
<1> SUFFICES ASSUME Traced, ResolveRow PROVE Traced'  OBVIOUS
<1> DEFINE n == Len(workloads)
           S == {Found(i) : i \in DOMAIN estate.inventory}
<1>1. /\ phase = "resolve" /\ n < Len(estate.inventory)
      /\ workloads' = Append(workloads, Found(n + 1))
      /\ UNCHANGED <<estate, phase, unmatched, assessed, ranking>>
  BY DEF ResolveRow, Found
<1>2. /\ n \in Nat /\ DOMAIN workloads = 1..n
      /\ Len(estate.inventory) \in Nat /\ DOMAIN estate.inventory = 1..Len(estate.inventory)
  BY AllFound DEF Traced
<1>3. workloads \in Seq(S) /\ Found(n + 1) \in S  BY <1>1, <1>2 DEF Traced, RowsResolved
<1>4. /\ workloads' \in Seq(S) /\ Len(workloads') = n + 1 /\ DOMAIN workloads' = 1..(n + 1)
      /\ \A i \in 1..(n + 1) : workloads'[i] = IF i = n + 1 THEN Found(n + 1) ELSE workloads[i]
  <2> HIDE DEF S
  <2> QED  BY <1>1, <1>2, <1>3
<1>5. (\A i : Found(i)' = Found(i)) /\ S' = S  BY <1>1 DEF Found
<1>6. \A i \in 1..(n + 1) : workloads'[i] = Found(i)
  <2>1. \A i \in 1..n : workloads[i] = Found(i)  BY <1>2 DEF Traced, RowsResolved
  <2> HIDE DEF n
  <2>2. \A i \in 1..(n + 1) : i = n + 1 \/ i \in 1..n  BY <1>2
  <2> QED  BY <1>4, <2>1, <2>2
<1>7. RowsResolved'  BY <1>1, <1>2, <1>4, <1>5, <1>6 DEF RowsResolved
<1>8. RestListed'  BY <1>1 DEF Traced, RestListed
<1>9. RowsAssessed'
  <2>1. assessed' = <<>>  BY <1>1 DEF Traced, RowsAssessed
  <2>2. \A T : <<>> \in Seq(T) /\ Len(<<>>) = 0 /\ DOMAIN <<>> = {}  OBVIOUS
  <2> QED  BY <2>1, <2>2, <1>2, <1>4 DEF RowsAssessed
<1>10. RowsRanked'  BY <1>1 DEF Traced, RowsRanked
<1> QED  BY <1>1, <1>7, <1>8, <1>9, <1>10, InputStays DEF Traced

LEMMA ListUnmatchedTraced == Traced /\ ListUnmatched => Traced'
<1> SUFFICES ASSUME Traced, ListUnmatched PROVE Traced'  OBVIOUS
<1>1. /\ phase = "resolve" /\ Len(workloads) = Len(estate.inventory) /\ phase' = "assess"
      /\ unmatched' = DOMAIN estate.backups \ Used
      /\ UNCHANGED <<estate, workloads, assessed, ranking>>
  BY DEF ListUnmatched
<1>2. Used' = Used /\ \A i : Found(i)' = Found(i) /\ Assessed(i)' = Assessed(i)  BY <1>1, WorkStays
<1>3. RowsResolved'  BY <1>1, <1>2 DEF Traced, RowsResolved
<1>4. RestListed'  BY <1>1, <1>2 DEF RestListed
<1>5. RowsAssessed'  BY <1>1, <1>2 DEF Traced, RowsAssessed
<1>6. RowsRanked'  BY <1>1 DEF Traced, RowsRanked
<1> QED  BY <1>1, <1>3, <1>4, <1>5, <1>6, InputStays DEF Traced

LEMMA AssessRowTraced == Traced /\ AssessRow => Traced'
<1> SUFFICES ASSUME Traced, AssessRow PROVE Traced'  OBVIOUS
<1> DEFINE n == Len(assessed)
           S == {Assessed(i) : i \in DOMAIN estate.inventory}
<1>1. /\ phase = "assess" /\ n + 1 <= Len(workloads)
      /\ assessed' = Append(assessed, Assessment(Workload(n + 1, workloads[n + 1])))
      /\ UNCHANGED <<estate, phase, workloads, unmatched, ranking>>
  BY DEF AssessRow
<1>2. /\ Len(workloads) \in Nat /\ DOMAIN workloads = 1..Len(workloads)
      /\ Len(estate.inventory) \in Nat /\ DOMAIN estate.inventory = 1..Len(estate.inventory)
      /\ Len(workloads) <= Len(estate.inventory)
  BY AllFound DEF Traced, RowsResolved
<1>3. assessed \in Seq(S)  BY DEF Traced, RowsAssessed
<1>4. n \in Nat /\ DOMAIN assessed = 1..n
  <2> HIDE DEF S
  <2> QED  BY <1>3
<1>5. assessed' = Append(assessed, Assessed(n + 1))
  <2>1. workloads[n + 1] = Found(n + 1)  BY <1>1, <1>2, <1>4 DEF Traced, RowsResolved
  <2> QED  BY <2>1, <1>1 DEF Assessed
<1>6. Assessed(n + 1) \in S  BY <1>1, <1>2, <1>4
<1>7. /\ assessed' \in Seq(S) /\ Len(assessed') = n + 1 /\ DOMAIN assessed' = 1..(n + 1)
      /\ \A i \in 1..(n + 1) : assessed'[i] = IF i = n + 1 THEN Assessed(n + 1) ELSE assessed[i]
  <2> HIDE DEF S
  <2> QED  BY <1>3, <1>4, <1>5, <1>6
<1>8. /\ Used' = Used
      /\ \A i : Found(i)' = Found(i) /\ Assessed(i)' = Assessed(i)
  BY <1>1, WorkStays
<1>9. S' = S  BY <1>1, <1>8
<1>10. \A i \in 1..(n + 1) : assessed'[i] = Assessed(i)  BY <1>4, <1>7 DEF Traced, RowsAssessed
<1>11. RowsResolved'  BY <1>1, <1>8 DEF Traced, RowsResolved
<1>12. RestListed'  BY <1>1, <1>8 DEF Traced, RestListed
<1>13. RowsAssessed'
  <2>1. assessed' \in Seq(S')  BY <1>7, <1>9
  <2>2. \A i \in DOMAIN assessed' : assessed'[i] = Assessed(i)'  BY <1>7, <1>8, <1>10
  <2> QED  BY <2>1, <2>2, <1>1, <1>7 DEF RowsAssessed
<1>14. RowsRanked'  BY <1>1 DEF Traced, RowsRanked
<1> QED  BY <1>1, <1>11, <1>12, <1>13, <1>14, InputStays DEF Traced

LEMMA RankTraced ==
  ASSUME NEW mode \in Modes, NEW n \in TopNs, Traced, RankAssessments(mode, n)
  PROVE  Traced'
<1>1. /\ phase = "assess" /\ phase' = "done"
      /\ ranking' = [mode |-> mode, top_n |-> n, rows |-> RankedRows(mode, n)]
      /\ UNCHANGED <<estate, workloads, unmatched, assessed>>
  BY DEF RankAssessments
<1>2. Used' = Used /\ \A i : Found(i)' = Found(i) /\ Assessed(i)' = Assessed(i)  BY <1>1, WorkStays
<1>3. RowsResolved'  BY <1>1, <1>2 DEF Traced, RowsResolved
<1>4. RestListed'  BY <1>1, <1>2 DEF Traced, RestListed
<1>5. RowsAssessed'  BY <1>1, <1>2 DEF Traced, RowsAssessed
<1>6. RowsRanked'  BY <1>1, RankStays DEF RowsRanked
<1> QED  BY <1>1, <1>3, <1>4, <1>5, <1>6, InputStays DEF Traced

LEMMA InitTraced == Init => Traced
<1> SUFFICES ASSUME Init PROVE Traced  OBVIOUS
<1>1. PICK f \in Families :
        /\ estate.inventory \in f.inventories /\ estate.backups \in f.backups
        /\ phase = "resolve" /\ workloads = <<>> /\ unmatched = {} /\ assessed = <<>> /\ ranking = NoRanking
  BY DEF Init
<1>2. InputRead  BY <1>1, FamiliesAssumption DEF InputRead, WorkloadKey
<1>3. Len(estate.inventory) \in Nat  BY <1>2 DEF InputRead, IsExport
<1>4. \A S : <<>> \in Seq(S) /\ Len(<<>>) = 0 /\ DOMAIN <<>> = {}  OBVIOUS
<1> QED  BY <1>1, <1>2, <1>3, <1>4 DEF Traced, RowsResolved, RestListed, RowsAssessed, RowsRanked

LEMMA TracedInductive == Traced /\ [Next]_vars => Traced'
<1> SUFFICES ASSUME Traced, [Next]_vars PROVE Traced'  OBVIOUS
<1>1. CASE UNCHANGED vars
  <2>1. UNCHANGED <<estate, workloads>> /\ UNCHANGED <<phase, unmatched, assessed, ranking>>  BY <1>1 DEF vars
  <2>2. Used' = Used /\ \A i : Found(i)' = Found(i) /\ Assessed(i)' = Assessed(i)  BY <2>1, WorkStays
  <2>3. RowsResolved'  BY <2>1, <2>2 DEF Traced, RowsResolved
  <2>4. RestListed'  BY <2>1, <2>2 DEF Traced, RestListed
  <2>5. RowsAssessed'  BY <2>1, <2>2 DEF Traced, RowsAssessed
  <2>6. RowsRanked'  BY <2>1, RankStays DEF Traced, RowsRanked
  <2> QED  BY <2>1, <2>3, <2>4, <2>5, <2>6, InputStays DEF Traced
<1> QED  BY <1>1, ResolveRowTraced, ListUnmatchedTraced, AssessRowTraced, RankTraced DEF Next

LEMMA AlwaysTraced == Spec => []Traced
BY InitTraced, TracedInductive, PTL DEF Spec

-----------------------------------------------------------------------------
(* A backup row nobody took.                                                 *)
LEMMA UuidTakesOne ==
  ASSUME NEW backups, NEW overrides, NEW row, IsExport(backups),
         OverridesFor(overrides, row) = {}, Having(backups, "uuid", row.uuid) # {}
  PROVE  Match(backups, overrides, row).backup \in Having(backups, "uuid", row.uuid)
<1>1. Having(backups, "uuid", row.uuid) \in SUBSET Nat  BY DEF Having, IsExport
<1>2. FirstByRow(Having(backups, "uuid", row.uuid)) \in Having(backups, "uuid", row.uuid)  BY <1>1, FirstIsOne
<1> QED  BY <1>2 DEF Match, ByUuid

LEMMA NoTaker == Traced => DecommissionedHasNoTaker
<1> SUFFICES ASSUME Traced,
                    NEW k \in unmatched, NEW i \in DOMAIN estate.inventory,
                    i \in Having(estate.inventory, "uuid", estate.backups[k].uuid),
                    OverridesFor(estate.overrides, estate.inventory[i]) = {}
             PROVE  \E l \in Having(estate.backups, "uuid", estate.backups[k].uuid) : l \in Used
  BY DEF DecommissionedHasNoTaker
<1>1. k \in DOMAIN estate.backups /\ Len(workloads) = Len(estate.inventory)
  BY DEF Traced, RestListed, RowsResolved
<1>2. i \in DOMAIN workloads /\ workloads[i] = Found(i)  BY <1>1, AllFound DEF Traced, RowsResolved
<1>3. estate.inventory[i].uuid = estate.backups[k].uuid /\ estate.backups[k].uuid # None  BY DEF Having
<1>4. k \in Having(estate.backups, "uuid", estate.inventory[i].uuid)  BY <1>1, <1>3 DEF Having
<1>5. Match(estate.backups, estate.overrides, estate.inventory[i]).backup
        \in Having(estate.backups, "uuid", estate.inventory[i].uuid)
  BY <1>4, UuidTakesOne DEF Traced, InputRead
<1>6. workloads[i].backup \in Having(estate.backups, "uuid", estate.backups[k].uuid)
  BY <1>2, <1>3, <1>5, ResolveIs DEF Found
<1> QED  BY <1>2, <1>6 DEF Used

(* DecommissionedHasNoTaker of the specification: a backup row listed as     *)
(* likely decommissioned has its uuid in no inventory row but one an         *)
(* override speaks for, unless another row with the uuid was taken.          *)
THEOREM NoTakerHolds == Spec => []DecommissionedHasNoTaker
BY AlwaysTraced, NoTaker, PTL

-----------------------------------------------------------------------------
(* Strong candidates.                                                        *)
Doubts == {"CONFLICTED", "DUPLICATE_CANDIDATES"}

LEMMA StrongIsCertain ==
  ASSUME NEW w, Assessment(w).presentation = "strong_candidate"
  PROVE  /\ w.backup # NoRow /\ w.status \notin Doubts /\ w.matched_by = "UUID"
         /\ Assessment(w).confidence = "high"
         /\ Assessment(w).blocking_flags \cap (HighBlockers \cup ReviewBlockers) = {}
<1> DEFINE winner == ChooseWinner(EvaluatePolicy(w))
           flags == BlockingFlags(w, winner)
           confidence == Confidence(w, winner)
<1>1. /\ Assessment(w).presentation = PresentationClass(flags, confidence, HighMissing(w))
      /\ Assessment(w).confidence = confidence /\ Assessment(w).blocking_flags = flags
  BY DEF Assessment
<1> HIDE DEF winner
<1>2. confidence = "high" /\ flags \cap HighBlockers = {} /\ flags \cap ReviewBlockers = {}
  BY <1>1 DEF PresentationClass
<1>3. w.backup # NoRow /\ w.status \notin Doubts /\ w.matched_by = "UUID"
  BY <1>2 DEF Confidence, Doubts
<1> QED  BY <1>1, <1>2, <1>3

LEMMA CertainHasItsUuid ==
  ASSUME NEW inventory, NEW backups, NEW overrides, NEW i, IsExport(backups),
         NEW r, r = Resolve(inventory, backups, overrides, i),
         r.matched_by = "UUID", r.status \notin Doubts, r.strategy # "identity_override"
  PROVE  /\ ~DuplicateRow(inventory, inventory[i])
         /\ inventory[i].uuid # None
         /\ r.backup \in DOMAIN backups /\ backups[r.backup].uuid = inventory[i].uuid
<1> DEFINE row == inventory[i]
           m == Match(backups, overrides, row)
           uuids == Having(backups, "uuid", row.uuid)
           names == Having(backups, "name", row.name)
<1>1. /\ r.backup = m.backup /\ r.matched_by = m.matched_by /\ r.strategy = m.strategy
      /\ ~DuplicateRow(inventory, row)
  BY ResolveIs DEF Doubts
<1>2. \A override : ByOverride(backups, override).matched_by = "UUID"
                      => ByOverride(backups, override).strategy = "identity_override"
  BY DEF ByOverride, NoMatch
<1>3. OverridesFor(overrides, row) = {} /\ uuids # {}
  BY <1>1, <1>2, MatchIsOneOf DEF ByName, ByRelaxedName, NoMatch
<1>4. m.backup \in uuids  BY <1>3, UuidTakesOne
<1> QED  BY <1>1, <1>4 DEF Having

LEMMA StrongShareNothing == Traced => StrongCandidatesShareNoBackup
<1> SUFFICES ASSUME Traced, NEW i \in DOMAIN assessed, NEW j \in DOMAIN assessed, i # j,
                    assessed[i].presentation = "strong_candidate",
                    assessed[j].presentation = "strong_candidate",
                    workloads[i].backup = workloads[j].backup,
                    workloads[i].strategy # "identity_override",
                    workloads[j].strategy # "identity_override"
             PROVE  FALSE
  BY DEF StrongCandidatesShareNoBackup
<1> DEFINE inventory == estate.inventory
           backups == estate.backups
<1>1. ASSUME NEW k \in DOMAIN assessed, assessed[k].presentation = "strong_candidate",
             workloads[k].strategy # "identity_override"
      PROVE  /\ k \in DOMAIN inventory
             /\ ~DuplicateRow(inventory, inventory[k])
             /\ inventory[k].uuid # None
             /\ backups[workloads[k].backup].uuid = inventory[k].uuid
  <2>1. assessed \in Seq({Assessed(l) : l \in DOMAIN inventory}) /\ Len(assessed) <= Len(workloads)
    BY DEF Traced, RowsAssessed
  <2>2. DOMAIN assessed = 1..Len(assessed) /\ Len(assessed) \in Nat
    <3> DEFINE S == {Assessed(l) : l \in DOMAIN inventory}
    <3>1. assessed \in Seq(S)  BY <2>1
    <3> HIDE DEF S
    <3> QED  BY <3>1
  <2>3. k \in DOMAIN workloads /\ k \in DOMAIN inventory
    <3>1. /\ Len(workloads) \in Nat /\ DOMAIN workloads = 1..Len(workloads)
          /\ Len(estate.inventory) \in Nat /\ DOMAIN estate.inventory = 1..Len(estate.inventory)
          /\ Len(workloads) <= Len(estate.inventory)
      BY AllFound DEF Traced, RowsResolved
    <3>2. k \in Nat /\ 1 <= k /\ k <= Len(assessed)  BY <2>2
    <3>3. k \in 1..Len(workloads) /\ k \in 1..Len(estate.inventory)  BY <2>1, <2>2, <3>1, <3>2
    <3> QED  BY <3>1, <3>3
  <2>4. workloads[k] = Found(k) /\ assessed[k] = Assessed(k)
    BY <2>3 DEF Traced, RowsResolved, RowsAssessed
  <2> DEFINE w == Workload(k, Found(k))
  <2>5. Assessment(w).presentation = "strong_candidate"  BY <1>1, <2>4 DEF Assessed
  <2>6. w.status \notin Doubts /\ w.matched_by = "UUID"
    <3> HIDE DEF w
    <3> QED  BY <2>5, StrongIsCertain
  <2>7. Found(k).status \notin Doubts /\ Found(k).matched_by = "UUID"  BY <2>6 DEF Workload
  <2>8. Found(k).strategy # "identity_override"  BY <1>1, <2>4
  <2> QED  BY <2>3, <2>4, <2>7, <2>8, CertainHasItsUuid DEF Found, Traced, InputRead
<1>2. i \in DOMAIN inventory /\ j \in DOMAIN inventory
      /\ inventory[i].uuid = inventory[j].uuid /\ inventory[i].uuid # None
  BY <1>1
<1>3. {i, j} \in SUBSET Having(inventory, "uuid", inventory[i].uuid)  BY <1>2 DEF Having
<1>4. DuplicateRow(inventory, inventory[i])  BY <1>2, <1>3 DEF DuplicateRow, Several
<1> QED  BY <1>1, <1>4

(* StrongCandidatesShareNoBackup of the specification: although nothing      *)
(* stops two rows from taking the same backup row, two strong candidates     *)
(* rest on one only where a reviewed override says so.                       *)
THEOREM StrongHolds == Spec => []StrongCandidatesShareNoBackup
BY AlwaysTraced, StrongShareNothing, PTL

-----------------------------------------------------------------------------
(* The backup export in the opposite order.                                  *)
Mirrored(backups, k) == Len(backups) + 1 - k

LEMMA ReverseMirrors ==
  ASSUME NEW backups, IsExport(backups)
  PROVE  LET back == Reverse(backups)
         IN  /\ DOMAIN backups = 1..Len(backups) /\ Len(backups) \in Nat
             /\ DOMAIN back = DOMAIN backups
             /\ \A k \in DOMAIN backups :
                  Mirrored(backups, k) \in DOMAIN backups /\ back[k] = backups[Mirrored(backups, k)]
<1>1. DOMAIN backups = 1..Len(backups) /\ Len(backups) \in Nat  BY DEF IsExport
<1>2. DOMAIN Reverse(backups) = DOMAIN backups  BY <1>1 DEF Reverse
<1>3. ASSUME NEW k \in DOMAIN backups
      PROVE  Mirrored(backups, k) \in DOMAIN backups /\ Reverse(backups)[k] = backups[Mirrored(backups, k)]
  BY <1>1 DEF Mirrored, Reverse
<1> QED  BY <1>1, <1>2, <1>3

(* Of the rows with a property the mirrored ones have it in the mirror, so   *)
(* when there is one the two exports agree which it is.                      *)
LEMMA OneInTheMirror ==
  ASSUME NEW backups, IsExport(backups), NEW ks \in SUBSET DOMAIN backups,
         NEW back \in SUBSET DOMAIN backups,
         \A k \in DOMAIN backups : k \in back <=> Mirrored(backups, k) \in ks
  PROVE  /\ ks = {} <=> back = {}
         /\ Several(ks) <=> Several(back)
         /\ ks # {} /\ ~Several(ks) =>
              /\ FirstByRow(ks) \in DOMAIN backups
              /\ FirstByRow(back) = Mirrored(backups, FirstByRow(ks))
<1>1. /\ DOMAIN backups = 1..Len(backups) /\ Len(backups) \in Nat
  BY DEF IsExport
<1>2. \A k \in DOMAIN backups : Mirrored(backups, k) \in DOMAIN backups
                                 /\ Mirrored(backups, Mirrored(backups, k)) = k
  BY <1>1 DEF Mirrored
<1>3. \A k, l \in DOMAIN backups : Mirrored(backups, k) = Mirrored(backups, l) => k = l
  BY <1>2
<1>4. \A k \in ks : Mirrored(backups, k) \in back  BY <1>2
<1>5. \A k \in back : Mirrored(backups, k) \in ks  BY <1>2
<1>6. ks = {} <=> back = {}  BY <1>4, <1>5
<1>7. Several(ks) <=> Several(back)  BY <1>3, <1>4, <1>5 DEF Several
<1>8. ASSUME ks # {}, ~Several(ks)
      PROVE  /\ FirstByRow(ks) \in DOMAIN backups
             /\ FirstByRow(back) = Mirrored(backups, FirstByRow(ks))
  <2>1. ks \in SUBSET Nat /\ back \in SUBSET Nat  BY <1>1
  <2>2. FirstByRow(ks) \in ks  BY <1>8, <2>1, FirstIsOne
  <2>3. back # {}  BY <1>6, <1>8
  <2>4. FirstByRow(back) \in back  BY <2>1, <2>3, FirstIsOne
  <2>5. Mirrored(backups, FirstByRow(ks)) \in back  BY <1>4, <2>2
  <2> QED  BY <1>7, <1>8, <2>2, <2>4, <2>5 DEF Several
<1> QED  BY <1>6, <1>7, <1>8

LEMMA MirroredRows ==
  ASSUME NEW backups, IsExport(backups), NEW field, NEW v
  PROVE  /\ Having(backups, field, v) \in SUBSET DOMAIN backups
         /\ Having(Reverse(backups), field, v) \in SUBSET DOMAIN backups
         /\ \A k \in DOMAIN backups : k \in Having(Reverse(backups), field, v)
                                       <=> Mirrored(backups, k) \in Having(backups, field, v)
         /\ HavingRelaxed(backups, v) \in SUBSET DOMAIN backups
         /\ HavingRelaxed(Reverse(backups), v) \in SUBSET DOMAIN backups
         /\ \A k \in DOMAIN backups : k \in HavingRelaxed(Reverse(backups), v)
                                       <=> Mirrored(backups, k) \in HavingRelaxed(backups, v)
<1> DEFINE back == Reverse(backups)
<1>1. /\ DOMAIN back = DOMAIN backups
      /\ \A k \in DOMAIN backups :
           Mirrored(backups, k) \in DOMAIN backups /\ back[k] = backups[Mirrored(backups, k)]
  BY ReverseMirrors
<1> HIDE DEF back
<1>2. /\ Having(backups, field, v) \in SUBSET DOMAIN backups
      /\ Having(back, field, v) \in SUBSET DOMAIN backups
      /\ \A k \in DOMAIN backups : k \in Having(back, field, v)
                                     <=> Mirrored(backups, k) \in Having(backups, field, v)
  BY <1>1 DEF Having
<1>3. /\ HavingRelaxed(backups, v) \in SUBSET DOMAIN backups
      /\ HavingRelaxed(back, v) \in SUBSET DOMAIN backups
      /\ \A k \in DOMAIN backups : k \in HavingRelaxed(back, v)
                                     <=> Mirrored(backups, k) \in HavingRelaxed(backups, v)
  BY <1>1 DEF HavingRelaxed
<1> QED  BY <1>2, <1>3 DEF back

LEMMA MirroredMatch ==
  ASSUME NEW backups, IsExport(backups), NEW overrides, NEW row,
         NEW m, m = Match(backups, overrides, row),
         NEW r, r = Match(Reverse(backups), overrides, row),
         m.status \notin Doubts, m.strategy # "identity_override"
  PROVE  \/ m.backup = NoBackup /\ r.backup = NoBackup
         \/ m.backup \in DOMAIN backups /\ r.backup = Mirrored(backups, m.backup)
<1> DEFINE back == Reverse(backups)
           uuids == Having(backups, "uuid", row.uuid)
           names == Having(backups, "name", row.name)
           relaxed == HavingRelaxed(backups, Relaxed(row))
           uuidsBack == Having(back, "uuid", row.uuid)
           namesBack == Having(back, "name", row.name)
           relaxedBack == HavingRelaxed(back, Relaxed(row))
           Same(ks, ls) == /\ ks = {} <=> ls = {}
                           /\ Several(ks) <=> Several(ls)
                           /\ ks # {} /\ ~Several(ks) => /\ FirstByRow(ks) \in DOMAIN backups
                                                         /\ FirstByRow(ls) = Mirrored(backups, FirstByRow(ks))
<1>1. Same(uuids, uuidsBack)  BY MirroredRows, OneInTheMirror
<1>2. Same(names, namesBack)  BY MirroredRows, OneInTheMirror
<1>3. Same(relaxed, relaxedBack)  BY MirroredRows, OneInTheMirror
<1>4. CASE OverridesFor(overrides, row) # {}
  <2> DEFINE override == overrides[LastByRow(OverridesFor(overrides, row))]
             named == Having(backups, "uuid", override.backup_uuid)
             namedBack == Having(back, "uuid", override.backup_uuid)
             called == Having(backups, "name", override.backup_name)
             calledBack == Having(back, "name", override.backup_name)
  <2>1. Same(named, namedBack)  BY MirroredRows, OneInTheMirror
  <2>2. Same(called, calledBack)  BY MirroredRows, OneInTheMirror
  <2>3. m = ByOverride(backups, override) /\ r = ByOverride(back, override)  BY <1>4 DEF Match
  <2>4. named = {} /\ called = {}  BY <2>3 DEF ByOverride
  <2> QED  BY <2>1, <2>2, <2>3, <2>4 DEF ByOverride, NoMatch
<1>5. CASE OverridesFor(overrides, row) = {} /\ uuids # {}
  <2>1. m = ByUuid(uuids, names) /\ r = ByUuid(uuidsBack, namesBack)  BY <1>1, <1>5 DEF Match
  <2>2. ~Several(uuids)  BY <2>1 DEF ByUuid, UuidStatus, Doubts
  <2> QED  BY <1>1, <1>5, <2>1, <2>2 DEF ByUuid
<1>6. CASE OverridesFor(overrides, row) = {} /\ uuids = {} /\ names # {}
  <2>1. m = ByName(names) /\ r = ByName(namesBack)  BY <1>1, <1>2, <1>6 DEF Match
  <2>2. ~Several(names)  BY <2>1 DEF ByName, Doubts
  <2> QED  BY <1>2, <1>6, <2>1, <2>2 DEF ByName
<1>7. CASE /\ OverridesFor(overrides, row) = {} /\ uuids = {} /\ names = {}
           /\ relaxed # {} /\ ~Several(relaxed)
  <2>1. m = ByRelaxedName(relaxed) /\ r = ByRelaxedName(relaxedBack)  BY <1>1, <1>2, <1>3, <1>7 DEF Match
  <2> QED  BY <1>3, <1>7, <2>1 DEF ByRelaxedName
<1>8. CASE /\ OverridesFor(overrides, row) = {} /\ uuids = {} /\ names = {}
           /\ relaxed = {} \/ Several(relaxed)
  <2>1. m = NoMatch /\ r = NoMatch  BY <1>1, <1>2, <1>3, <1>8 DEF Match
  <2> QED  BY <2>1 DEF NoMatch
<1> QED  BY <1>4, <1>5, <1>6, <1>7, <1>8

LEMMA OrderMatters == Traced => OrderMattersOnlyWhereFlagged
<1> SUFFICES ASSUME Traced, NEW i \in DOMAIN workloads,
                    workloads[i].status \notin Doubts,
                    workloads[i].strategy # "identity_override"
             PROVE  LET size == Len(estate.backups)
                        again == Resolve(estate.inventory, Reverse(estate.backups), estate.overrides, i).backup
                        place == IF again = NoBackup THEN NoBackup ELSE size + 1 - again
                    IN  place = workloads[i].backup
  BY DEF OrderMattersOnlyWhereFlagged, Doubts
<1> DEFINE row == estate.inventory[i]
           m == Match(estate.backups, estate.overrides, row)
           r == Match(Reverse(estate.backups), estate.overrides, row)
           again == Resolve(estate.inventory, Reverse(estate.backups), estate.overrides, i).backup
<1>1. workloads[i] = Found(i) /\ IsExport(estate.backups)  BY DEF Traced, RowsResolved, InputRead
<1>2. /\ workloads[i].backup = m.backup /\ workloads[i].strategy = m.strategy
      /\ workloads[i].status = IF DuplicateRow(estate.inventory, row) THEN "DUPLICATE_CANDIDATES" ELSE m.status
  BY <1>1, ResolveIs DEF Found
<1>3. again = r.backup  BY ResolveIs
<1>4. m.status \notin Doubts /\ m.strategy # "identity_override"  BY <1>2 DEF Doubts
<1>5. \/ m.backup = NoBackup /\ r.backup = NoBackup
      \/ m.backup \in DOMAIN estate.backups /\ r.backup = Mirrored(estate.backups, m.backup)
  BY <1>1, <1>4, MirroredMatch
<1>6. DOMAIN estate.backups = 1..Len(estate.backups) /\ Len(estate.backups) \in Nat
  BY <1>1 DEF IsExport
<1>7. CASE m.backup = NoBackup /\ r.backup = NoBackup  BY <1>2, <1>3, <1>7
<1>8. CASE m.backup \in DOMAIN estate.backups /\ r.backup = Mirrored(estate.backups, m.backup)
  <2> HIDE DEF m, r, again
  <2>1. /\ r.backup \in Nat /\ r.backup # NoBackup
        /\ Len(estate.backups) + 1 - r.backup = m.backup
    BY <1>6, <1>8, FamiliesAssumption DEF Mirrored
  <2> QED  BY <1>2, <1>3, <2>1 DEF again
<1> QED  BY <1>5, <1>7, <1>8

(* OrderMattersOnlyWhereFlagged of the specification: which of two backup    *)
(* rows comes first decides a match only where the identity is reported in   *)
(* doubt or an override gave it.                                             *)
THEOREM OrderHolds == Spec => []OrderMattersOnlyWhereFlagged
BY AlwaysTraced, OrderMatters, PTL

-----------------------------------------------------------------------------
(* Scores are numbers: the running sum of a list of points is defined, which *)
(* takes an induction over the length.                                       *)
IsSumOf(sum, points, n) ==
  sum = [k \in 0..n |-> IF k = 0 THEN 0 ELSE sum[k - 1] + points[k]]

LEMMA SumsExist ==
  ASSUME NEW points \in Seq(Int), NEW n \in 0..Len(points)
  PROVE  \E sum \in [0..n -> Int] : IsSumOf(sum, points, n)
<1> DEFINE Has(m) == \E sum \in [0..m -> Int] : IsSumOf(sum, points, m)
           Lacking == {m \in 0..Len(points) : ~Has(m)}
<1> SUFFICES ASSUME n \in Lacking PROVE FALSE  OBVIOUS
<1>1. Len(points) \in Nat /\ \A k \in 1..Len(points) : points[k] \in Int  OBVIOUS
<1>2. PICK m \in Lacking : \A k \in Lacking : m <= k
  <2>1. Lacking \in SUBSET Nat /\ Lacking # {}  BY <1>1
  <2> HIDE DEF Lacking
  <2> QED  BY <2>1, NatMin
<1>3. m \in 0..Len(points) /\ ~Has(m)  OBVIOUS
<1>4. CASE m = 0
  <2> DEFINE sum == [k \in 0..0 |-> 0]
  <2>1. sum \in [0..0 -> Int] /\ IsSumOf(sum, points, 0)  BY DEF IsSumOf
  <2> QED  BY <1>3, <1>4, <2>1
<1>5. CASE m # 0
  <2>1. m - 1 \in 0..Len(points) /\ Has(m - 1)
    <3>1. m - 1 \in 0..Len(points) /\ ~(m <= m - 1)  BY <1>1, <1>3, <1>5
    <3>2. m - 1 \notin Lacking
      <4> HIDE DEF Lacking
      <4> QED  BY <1>2, <3>1
    <3> QED  BY <3>1, <3>2
  <2>2. PICK old \in [0..(m - 1) -> Int] : IsSumOf(old, points, m - 1)  BY <2>1
  <2> DEFINE sum == [k \in 0..m |-> IF k = m THEN old[m - 1] + points[m] ELSE old[k]]
  <2>3. m \in 1..Len(points) /\ old[m - 1] \in Int /\ points[m] \in Int  BY <1>1, <1>3, <1>5
  <2>4. sum \in [0..m -> Int]  BY <1>3, <2>3
  <2>5. ASSUME NEW k \in 0..m PROVE sum[k] = IF k = 0 THEN 0 ELSE sum[k - 1] + points[k]
    <3>1. CASE k = m  BY <1>3, <1>5, <3>1
    <3>2. CASE k # m
      <4>1. k \in 0..(m - 1)  BY <1>3, <3>2
      <4>2. old[k] = IF k = 0 THEN 0 ELSE old[k - 1] + points[k]
        <5> HIDE DEF sum
        <5> QED  BY <2>2, <4>1 DEF IsSumOf
      <4> QED  BY <1>3, <3>2, <4>1, <4>2
    <3> QED  BY <3>1, <3>2
  <2>6. IsSumOf(sum, points, m)  BY <2>5 DEF IsSumOf
  <2> HIDE DEF sum
  <2> QED  BY <1>3, <2>4, <2>6
<1> QED  BY <1>4, <1>5

LEMMA SumUnfolds ==
  ASSUME NEW points \in Seq(Int)
  PROVE  \E sum \in [0..Len(points) -> Int] :
           /\ SumOf(points) = sum[Len(points)] /\ sum[0] = 0
           /\ \A k \in 1..Len(points) : sum[k] = sum[k - 1] + points[k]
<1> DEFINE n == Len(points)
           sum == CHOOSE f : f = [k \in 0..n |-> IF k = 0 THEN 0 ELSE f[k - 1] + points[k]]
<1>1. n \in Nat  OBVIOUS
<1>2. SumOf(points) = sum[n]  BY DEF SumOf
<1>3. PICK found \in [0..n -> Int] : IsSumOf(found, points, n)  BY <1>1, SumsExist
<1>4. IsSumOf(sum, points, n)
  <2> HIDE DEF n
  <2>1. found = [k \in 0..n |-> IF k = 0 THEN 0 ELSE found[k - 1] + points[k]]  BY <1>3 DEF IsSumOf
  <2>2. sum = [k \in 0..n |-> IF k = 0 THEN 0 ELSE sum[k - 1] + points[k]]  BY <2>1
  <2> QED  BY <2>2 DEF IsSumOf
<1> HIDE DEF sum
<1>5. ASSUME NEW k \in 0..n PROVE sum[k] = found[k]
  <2> DEFINE Wrong == {l \in 0..n : sum[l] # found[l]}
  <2> SUFFICES ASSUME k \in Wrong PROVE FALSE  OBVIOUS
  <2>1. PICK l \in Wrong : \A other \in Wrong : l <= other
    <3>1. Wrong \in SUBSET Nat /\ Wrong # {}  BY <1>1
    <3> HIDE DEF Wrong
    <3> QED  BY <3>1, NatMin
  <2>2. l \in 0..n /\ sum[l] # found[l]  OBVIOUS
  <2>3. /\ sum[l] = IF l = 0 THEN 0 ELSE sum[l - 1] + points[l]
        /\ found[l] = IF l = 0 THEN 0 ELSE found[l - 1] + points[l]
    <3> HIDE DEF n, Wrong
    <3> QED  BY <1>3, <1>4, <2>2 DEF IsSumOf
  <2>4. l # 0 /\ l - 1 \in 0..n /\ l - 1 \in Wrong  BY <1>1, <2>2, <2>3
  <2> QED  BY <2>1, <2>4
<1>6. SumOf(points) = found[n]  BY <1>1, <1>2, <1>5
<1>7. found[0] = 0 /\ \A k \in 1..n : found[k] = found[k - 1] + points[k]
  <2> HIDE DEF n
  <2>1. \A k \in 0..n : found[k] = IF k = 0 THEN 0 ELSE found[k - 1] + points[k]  BY <1>3 DEF IsSumOf
  <2>2. 0 \in 0..n /\ \A k \in 1..n : k \in 0..n /\ k # 0  BY <1>1
  <2> QED  BY <2>1, <2>2
<1> QED  BY <1>6, <1>7

LEMMA SumIsInteger ==
  ASSUME NEW points \in Seq(Int)
  PROVE  SumOf(points) \in Int
<1>1. Len(points) \in 0..Len(points)  OBVIOUS
<1> QED  BY <1>1, SumUnfolds

LEMMA AssessIs ==
  ASSUME NEW motion, NEW rules, NEW facts, NEW n \in Nat, DOMAIN rules = 1..n, NEW known,
         \A k \in 1..n : rules[k].score \in Int /\ rules[k].flags \in SUBSET known
  PROVE  /\ Assess(motion, rules, facts).motion = motion
         /\ Assess(motion, rules, facts).score \in 0..100
         /\ Assess(motion, rules, facts).blocking_flags \in SUBSET known
<1> DEFINE fired == {k \in DOMAIN rules : Fires(rules[k], facts)}
           points == [k \in DOMAIN rules |-> IF k \in fired THEN rules[k].score ELSE 0]
<1>1. points \in Seq(Int)
  <2>1. points \in [1..n -> Int]  OBVIOUS
  <2> HIDE DEF points
  <2> QED  BY <2>1
<1>2. SumOf(points) \in Int  BY <1>1, SumIsInteger
<1>3. /\ Assess(motion, rules, facts).motion = motion
      /\ Assess(motion, rules, facts).score = Clamp(SumOf(points))
      /\ Assess(motion, rules, facts).blocking_flags = UNION {rules[k].flags : k \in fired}
  BY DEF Assess
<1>4. Clamp(SumOf(points)) \in 0..100
  <2>1. ASSUME NEW m \in Int PROVE Clamp(m) \in 0..100
    <3>1. CASE m < 0  BY <3>1 DEF Clamp
    <3>2. CASE ~(m < 0) /\ m > 100  BY <3>2 DEF Clamp
    <3>3. CASE ~(m < 0) /\ ~(m > 100)
      <4>1. Clamp(m) = m  BY <3>3 DEF Clamp
      <4>2. 0 <= m /\ m <= 100  BY <3>3
      <4> QED  BY <4>1, <4>2
    <3> QED  BY <3>1, <3>2, <3>3
  <2> QED  BY <1>2, <2>1
<1>5. UNION {rules[k].flags : k \in fired} \in SUBSET known
  <2>1. \A k \in fired : rules[k].flags \in SUBSET known  OBVIOUS
  <2> HIDE DEF fired
  <2> QED  BY <2>1
<1> QED  BY <1>3, <1>4, <1>5

KnownFlags == HighBlockers \cup ReviewBlockers

Motions == {"MIGRATION_REVIEW", "ARCHIVE_REVIEW", "RIGHTSIZING_REVIEW", "DR_TIER_REVIEW"}

IsAssessment(a) == a.motion \in Motions /\ a.score \in 0..100 /\ a.blocking_flags \in SUBSET KnownFlags

LEMMA PolicyAssesses ==
  ASSUME NEW w, NEW k \in 1..4
  PROVE  /\ DOMAIN EvaluatePolicy(w) = 1..4
         /\ IsAssessment(EvaluatePolicy(w)[k])
<1> DEFINE facts == Facts(w)
           Known2 == {"NO_BACKUP_MATCH", "SNAPSHOT_PRESENT", "SPARSE_UTILIZATION_WINDOW"}
<1>1. Known2 \in SUBSET KnownFlags  BY DEF KnownFlags, HighBlockers, ReviewBlockers
<1>2. \A motion, score, when, flags, tags :
        /\ Rule(motion, score, when, flags, tags).score = score
        /\ Rule(motion, score, when, flags, tags).flags = flags
  BY DEF Rule
<1>3. {} \in SUBSET Known2  OBVIOUS
<1>4. /\ DOMAIN MigrationRules = 1..8
      /\ \A r \in 1..8 : MigrationRules[r].score \in Int /\ MigrationRules[r].flags \in SUBSET Known2
  BY <1>2 DEF MigrationRules, Migration
<1>5. /\ DOMAIN ArchiveRules = 1..7
      /\ \A r \in 1..7 : ArchiveRules[r].score \in Int /\ ArchiveRules[r].flags \in SUBSET Known2
  BY <1>2 DEF ArchiveRules, Archive
<1>6. /\ DOMAIN RightsizingRules = 1..7
      /\ \A r \in 1..7 : RightsizingRules[r].score \in Int /\ RightsizingRules[r].flags \in SUBSET Known2
  BY <1>2 DEF RightsizingRules, Rightsizing
<1>7. /\ DOMAIN DrTierRules = 1..7
      /\ \A r \in 1..7 : DrTierRules[r].score \in Int /\ DrTierRules[r].flags \in SUBSET Known2
  BY <1>2 DEF DrTierRules, DrTier
<1> HIDE DEF facts, Known2
<1>a. ASSUME NEW motion \in Motions, NEW rules, NEW n \in Nat, DOMAIN rules = 1..n,
             \A r \in 1..n : rules[r].score \in Int /\ rules[r].flags \in SUBSET Known2
      PROVE  IsAssessment(Assess(motion, rules, facts))
  BY <1>1, <1>a, AssessIs DEF IsAssessment
<1>8. IsAssessment(Assess("MIGRATION_REVIEW", MigrationRules, facts))
  BY <1>a, <1>4 DEF Motions
<1>9. IsAssessment(Assess("ARCHIVE_REVIEW", ArchiveRules, facts))
  BY <1>a, <1>5 DEF Motions
<1>10. IsAssessment(Assess("RIGHTSIZING_REVIEW", RightsizingRules, facts))
  BY <1>a, <1>6 DEF Motions
<1>11. IsAssessment(Assess("DR_TIER_REVIEW", DrTierRules, facts))
  BY <1>a, <1>7 DEF Motions
<1> QED  BY <1>8, <1>9, <1>10, <1>11 DEF EvaluatePolicy, facts

(* The best score wins, of equal scores the first motion.                    *)
LEMMA OneWins ==
  ASSUME NEW a, DOMAIN a = 1..4, \A k \in 1..4 : a[k].score \in 0..100
  PROVE  \E k \in 1..4 : /\ ChooseWinner(a) = a[k]
                         /\ \A l \in 1..4 : \/ a[k].score > a[l].score
                                            \/ a[k].score = a[l].score /\ k <= l
<1> DEFINE worth(k) == (100 - a[k].score) * 4 + k
           Worths == {n \in Nat : \E k \in 1..4 : n = worth(k)}
           Best(k) == \A l \in 1..4 : a[k].score > a[l].score \/ (a[k].score = a[l].score /\ k <= l)
<1>1. \A k \in 1..4 : worth(k) \in Nat
  <2> TAKE k \in 1..4
  <2>1. a[k].score \in 0..100  OBVIOUS
  <2> QED  BY <2>1
<1>2. Worths \in SUBSET Nat /\ Worths # {}
  <2>1. 1 \in 1..4 /\ worth(1) \in Worths  BY <1>1
  <2> QED  BY <2>1
<1>3. PICK n \in Worths : \A m \in Worths : n <= m
  <2> HIDE DEF Worths
  <2> QED  BY <1>2, NatMin
<1>4. PICK k \in 1..4 : n = worth(k)  OBVIOUS
<1>5. ASSUME NEW l \in 1..4
      PROVE  a[k].score > a[l].score \/ (a[k].score = a[l].score /\ k <= l)
  <2>1. worth(l) \in Worths  BY <1>1
  <2>2. worth(k) <= worth(l)  BY <1>3, <1>4, <2>1
  <2>3. a[k].score \in 0..100 /\ a[l].score \in 0..100 /\ k \in 1..4  OBVIOUS
  <2>4. (100 - a[k].score) * 4 + k <= (100 - a[l].score) * 4 + l  BY <2>2
  <2>5. \A x, y \in 0..100 : (100 - x) * 4 + k <= (100 - y) * 4 + l => x > y \/ (x = y /\ k <= l)
    OBVIOUS
  <2> HIDE DEF worth, Worths
  <2> QED  BY <2>3, <2>4, <2>5
<1>6. Best(k)  BY <1>5
<1>7. ChooseWinner(a) = a[CHOOSE c \in 1..4 : Best(c)]  BY DEF ChooseWinner
<1> HIDE DEF Best
<1>8. (CHOOSE c \in 1..4 : Best(c)) \in 1..4 /\ Best(CHOOSE c \in 1..4 : Best(c))  BY <1>6
<1> DEFINE c == CHOOSE m \in 1..4 : Best(m)
<1>9. ChooseWinner(a) = a[c] /\ c \in 1..4 /\ Best(c)  BY <1>7, <1>8
<1> HIDE DEF c
<1> QED  BY <1>9 DEF Best

LEMMA FlagsAreKnown ==
  ASSUME NEW w
  PROVE  /\ IsAssessment(Assessment(w))
         /\ Assessment(w).confidence \in {"high", "medium", "low"}
<1> DEFINE winner == ChooseWinner(EvaluatePolicy(w))
<1>1. IsAssessment(winner)
  <2>1. \A k \in 1..4 : EvaluatePolicy(w)[k].score \in 0..100  BY PolicyAssesses DEF IsAssessment
  <2>2. DOMAIN EvaluatePolicy(w) = 1..4
    <3>1. 1 \in 1..4  OBVIOUS
    <3> QED  BY <3>1, PolicyAssesses
  <2>3. PICK k \in 1..4 : winner = EvaluatePolicy(w)[k]  BY <2>1, <2>2, OneWins
  <2> QED  BY <2>3, PolicyAssesses
<1>2. /\ Assessment(w).motion = winner.motion /\ Assessment(w).score = winner.score
      /\ Assessment(w).confidence = Confidence(w, winner)
      /\ Assessment(w).blocking_flags = BlockingFlags(w, winner)
  BY DEF Assessment
<1> HIDE DEF winner
<1>3. BlockingFlags(w, winner) \in SUBSET KnownFlags
  <2>1. winner.blocking_flags \in SUBSET KnownFlags  BY <1>1 DEF IsAssessment
  <2>2. {"NO_BACKUP_MATCH", "SNAPSHOT_PRESENT", "MISSING_STORAGE_USED", "MISSING_BACKUP_SIZE",
         "MISSING_CHANGE_RATE", "NAME_MATCH_ONLY", "CONFLICTED", "DUPLICATE_CANDIDATES",
         "LOW_CONFIDENCE_RIGHTSIZING", "POWERED_OFF_NOT_MIGRATION_CANDIDATE"} \in SUBSET KnownFlags
    BY DEF KnownFlags, HighBlockers, ReviewBlockers
  <2> QED  BY <2>1, <2>2 DEF BlockingFlags
<1>4. Confidence(w, winner) \in {"high", "medium", "low"}  BY DEF Confidence
<1> QED  BY <1>1, <1>2, <1>3, <1>4 DEF IsAssessment

-----------------------------------------------------------------------------
(* The order of keys compares the first place in which they differ.          *)
LEMMA LexLessIsOrder ==
  ASSUME NEW n \in Nat, NEW s \in [1..n -> Int], NEW t \in [1..n -> Int], NEW u \in [1..n -> Int]
  PROVE  /\ ~LexLess(s, s)
         /\ LexLess(s, t) /\ LexLess(t, u) => LexLess(s, u)
         /\ s = t \/ LexLess(s, t) \/ LexLess(t, s)
<1>1. ~LexLess(s, s)  BY DEF LexLess
<1>2. ASSUME LexLess(s, t), LexLess(t, u) PROVE LexLess(s, u)
  <2>1. PICK i \in 1..n : s[i] < t[i] /\ \A m \in 1..(i - 1) : s[m] = t[m]  BY <1>2 DEF LexLess
  <2>2. PICK j \in 1..n : t[j] < u[j] /\ \A m \in 1..(j - 1) : t[m] = u[m]  BY <1>2 DEF LexLess
  <2> DEFINE k == IF i < j THEN i ELSE j
  <2>3. k \in 1..n /\ \A m \in 1..(k - 1) : m \in 1..n /\ m \in 1..(i - 1) /\ m \in 1..(j - 1)  OBVIOUS
  <2>4. \A m \in 1..(k - 1) : s[m] = u[m]  BY <2>1, <2>2, <2>3
  <2>5. s[k] < u[k]
    <3>1. CASE i < j
      <4>1. t[i] = u[i]  BY <2>2, <3>1
      <4> QED  BY <4>1, <2>1, <3>1
    <3>2. CASE i = j
      <4>1. s[i] \in Int /\ t[i] \in Int /\ u[i] \in Int  OBVIOUS
      <4> QED  BY <4>1, <2>1, <2>2, <3>2
    <3>3. CASE j < i
      <4>1. s[j] = t[j]  BY <2>1, <3>3
      <4> QED  BY <4>1, <2>2, <3>3
    <3> QED  BY <3>1, <3>2, <3>3
  <2> HIDE DEF k
  <2> QED  BY <2>3, <2>4, <2>5 DEF LexLess
<1>3. ASSUME s # t PROVE LexLess(s, t) \/ LexLess(t, s)
  <2> DEFINE D == {i \in 1..n : s[i] # t[i]}
  <2>a. s = [i \in 1..n |-> s[i]] /\ t = [i \in 1..n |-> t[i]]  OBVIOUS
  <2>b. PICK d \in 1..n : s[d] # t[d]  BY Zenon, <1>3, <2>a
  <2>c. d \in D  BY <2>b
  <2>d. \A i \in D : i \in Nat  OBVIOUS
  <2>1. D \in SUBSET Nat /\ D # {}
    <3> HIDE DEF D
    <3> QED  BY <2>c, <2>d
  <2>2. PICK i \in D : \A m \in D : i <= m
    <3> HIDE DEF D
    <3> QED  BY <2>1, NatMin
  <2>3. i \in 1..n /\ \A m \in 1..(i - 1) : s[m] = t[m]  BY <2>2
  <2>4. s[i] < t[i] \/ t[i] < s[i]
    <3>1. s[i] \in Int /\ t[i] \in Int /\ s[i] # t[i]  BY <2>2
    <3> QED  BY <3>1
  <2>5. DOMAIN s = 1..n /\ DOMAIN t = 1..n  OBVIOUS
  <2> QED  BY <2>3, <2>4, <2>5 DEF LexLess
<1> QED  BY <1>1, <1>2, <1>3

-----------------------------------------------------------------------------
(* The order of the balanced ranking.                                        *)
RowsJudged ==
  /\ Len(assessed) \in Nat /\ DOMAIN assessed = 1..Len(assessed)
  /\ \A i \in DOMAIN assessed :
       /\ IsAssessment(assessed[i])
       /\ assessed[i].confidence \in {"high", "medium", "low"}
       /\ WorkloadKey(i) \in Int
       /\ assessed[i].presentation = "strong_candidate" =>
            assessed[i].confidence = "high" /\ assessed[i].blocking_flags = {}

LEMMA TracedJudged == Traced => RowsJudged
<1> SUFFICES ASSUME Traced PROVE RowsJudged  OBVIOUS
<1>1. Len(assessed) \in Nat /\ DOMAIN assessed = 1..Len(assessed)
  <2> DEFINE S == {Assessed(i) : i \in DOMAIN estate.inventory}
  <2>1. assessed \in Seq(S)  BY DEF Traced, RowsAssessed
  <2> HIDE DEF S
  <2> QED  BY <2>1
<1>2. ASSUME NEW i \in DOMAIN assessed
      PROVE  /\ IsAssessment(assessed[i])
             /\ assessed[i].confidence \in {"high", "medium", "low"}
             /\ WorkloadKey(i) \in Int
             /\ assessed[i].presentation = "strong_candidate" =>
                  assessed[i].confidence = "high" /\ assessed[i].blocking_flags = {}
  <2> DEFINE w == Workload(i, Found(i))
  <2>1. assessed[i] = Assessment(w)  BY DEF Traced, RowsAssessed, Assessed
  <2>2. WorkloadKey(i) \in Int
    <3>1. /\ Len(workloads) \in Nat /\ Len(workloads) <= Len(estate.inventory) /\ Len(assessed) <= Len(workloads)
          /\ Len(estate.inventory) \in Nat /\ DOMAIN estate.inventory = 1..Len(estate.inventory)
      BY AllFound DEF Traced, RowsResolved, RowsAssessed
    <3>2. i \in Nat /\ 1 <= i /\ i <= Len(assessed)  BY <1>1
    <3>3. i \in DOMAIN estate.inventory  BY <1>1, <3>1, <3>2
    <3> QED  BY <3>3 DEF Traced, InputRead
  <2> HIDE DEF w
  <2>3. IsAssessment(assessed[i]) /\ assessed[i].confidence \in {"high", "medium", "low"}
    BY <2>1, FlagsAreKnown
  <2>4. ASSUME assessed[i].presentation = "strong_candidate"
        PROVE  assessed[i].confidence = "high" /\ assessed[i].blocking_flags = {}
    <3>1. /\ assessed[i].confidence = "high"
          /\ assessed[i].blocking_flags \cap KnownFlags = {}
      BY <2>1, <2>4, StrongIsCertain DEF KnownFlags
    <3> QED  BY <2>3, <3>1 DEF IsAssessment
  <2> QED  BY <2>2, <2>3, <2>4
<1> QED  BY <1>1, <1>2 DEF RowsJudged

LEMMA MotionsAreNumbered ==
  /\ \A motion \in Motions : MotionIndex(motion) \in 1..4
  /\ \A m, n \in Motions : MotionIndex(m) = MotionIndex(n) => m = n
<1>1. DOMAIN MotionOrder = 1..4 /\ \A motion \in Motions : \E k \in 1..4 : MotionOrder[k] = motion
  <2>1. DOMAIN MotionOrder = 1..4  BY DEF MotionOrder
  <2>2. /\ MotionOrder[1] = "MIGRATION_REVIEW" /\ MotionOrder[2] = "ARCHIVE_REVIEW"
        /\ MotionOrder[3] = "RIGHTSIZING_REVIEW" /\ MotionOrder[4] = "DR_TIER_REVIEW"
    BY DEF MotionOrder
  <2>3. 1 \in 1..4 /\ 2 \in 1..4 /\ 3 \in 1..4 /\ 4 \in 1..4  OBVIOUS
  <2> QED  BY <2>1, <2>2, <2>3 DEF Motions
<1>2. ASSUME NEW motion \in Motions
      PROVE  MotionIndex(motion) \in 1..4 /\ MotionOrder[MotionIndex(motion)] = motion
  BY <1>1 DEF MotionIndex
<1> QED  BY <1>2

LEMMA BalancedKeyIs ==
  ASSUME RowsJudged, NEW i \in DOMAIN assessed
  PROVE  /\ BalancedKey(i) \in [1..5 -> Int]
         /\ BalancedKey(i)[1] = PresentationRank(assessed[i])
         /\ BalancedKey(i)[5] = i
         /\ PresentationRank(assessed[i]) \in 0..3
         /\ PresentationRank(assessed[i]) = 0 <=>
              assessed[i].confidence = "high" /\ assessed[i].blocking_flags = {}
<1>1. /\ assessed[i].score \in Int /\ assessed[i].motion \in Motions /\ WorkloadKey(i) \in Int /\ i \in Int
      /\ assessed[i].confidence \in {"high", "medium", "low"}
  <2>1. IsAssessment(assessed[i]) /\ i \in 1..Len(assessed)  BY DEF RowsJudged
  <2>2. assessed[i].score \in 0..100 /\ assessed[i].motion \in Motions  BY <2>1 DEF IsAssessment
  <2>3. \A n \in 0..100 : n \in Int  OBVIOUS
  <2>4. assessed[i].score \in Int  BY <2>2, <2>3
  <2>5. i \in Int  BY <2>1
  <2>6. WorkloadKey(i) \in Int /\ assessed[i].confidence \in {"high", "medium", "low"}  BY DEF RowsJudged
  <2> QED  BY <2>2, <2>4, <2>5, <2>6
<1>2. MotionIndex(assessed[i].motion) \in Int  BY <1>1, MotionsAreNumbered
<1>3. /\ PresentationRank(assessed[i]) \in 0..3
      /\ PresentationRank(assessed[i]) = 0 <=>
           assessed[i].confidence = "high" /\ assessed[i].blocking_flags = {}
  BY <1>1 DEF PresentationRank
<1> DEFINE a == PresentationRank(assessed[i])
           b == -assessed[i].score
           c == MotionIndex(assessed[i].motion)
           d == WorkloadKey(i)
<1>4. a \in Int /\ b \in Int /\ c \in Int /\ d \in Int  BY <1>1, <1>2, <1>3
<1>5. BalancedKey(i) = <<a>> \o <<b, c, d, i>>  BY DEF BalancedKey, GlobalKey
<1> HIDE DEF a, b, c, d
<1>6. /\ BalancedKey(i) \in Seq(Int) /\ Len(BalancedKey(i)) = 5
      /\ BalancedKey(i)[1] = a /\ BalancedKey(i)[5] = i
  <2> DEFINE s == <<a>>
             t == <<b, c, d, i>>
  <2>1. s \in Seq(Int) /\ Len(s) = 1 /\ s[1] = a  BY <1>4
  <2>2. t \in Seq(Int) /\ Len(t) = 4 /\ t[4] = i  BY <1>1, <1>4
  <2>3. BalancedKey(i) = s \o t  BY <1>5
  <2> HIDE DEF s, t
  <2>4. s \o t \in Seq(Int) /\ Len(s \o t) = 5
    <3>1. s \o t \in Seq(Int) /\ Len(s \o t) = Len(s) + Len(t)  BY <2>1, <2>2, ConcatProperties
    <3> QED  BY <2>1, <2>2, <3>1
  <2>5. (s \o t)[1] = s[1] /\ (s \o t)[5] = t[4]
    <3>1. \A k \in 1..(Len(s) + Len(t)) : (s \o t)[k] = IF k <= Len(s) THEN s[k] ELSE t[k - Len(s)]
      BY <2>1, <2>2, ConcatProperties
    <3>2. /\ 1 \in 1..(Len(s) + Len(t)) /\ 1 <= Len(s)
          /\ 5 \in 1..(Len(s) + Len(t)) /\ ~(5 <= Len(s)) /\ 5 - Len(s) = 4
      BY <2>1, <2>2
    <3>3. (s \o t)[1] = s[1]  BY <3>1, <3>2
    <3>4. (s \o t)[5] = t[5 - Len(s)]  BY <3>1, <3>2
    <3> QED  BY <3>2, <3>3, <3>4
  <2> QED  BY <2>1, <2>2, <2>3, <2>4, <2>5
<1>7. BalancedKey(i) \in [1..5 -> Int]
  <2>1. \A s \in Seq(Int) : s \in [1..Len(s) -> Int]  OBVIOUS
  <2> QED  BY <1>6, <2>1
<1> QED  BY <1>3, <1>6, <1>7 DEF a

-----------------------------------------------------------------------------
(* A strict total order gives each element of a finite set a place of its    *)
(* own: the number of those below it.                                        *)
IsOrderOf(before, S) ==
  /\ \A a \in S : <<a, a>> \notin before
  /\ \A a, b, c \in S : <<a, b>> \in before /\ <<b, c>> \in before => <<a, c>> \in before
  /\ \A a, b \in S : a = b \/ <<a, b>> \in before \/ <<b, a>> \in before

Below(S, before, a) == {b \in S : <<b, a>> \in before}

Place(S, before, a) == Cardinality(Below(S, before, a))

LEMMA PlacesGrow ==
  ASSUME NEW S, IsFiniteSet(S), NEW before, IsOrderOf(before, S)
  PROVE  /\ \A a \in S : IsFiniteSet(Below(S, before, a)) /\ Place(S, before, a) \in 0..(Cardinality(S) - 1)
         /\ \A a, b \in S : <<a, b>> \in before <=> Place(S, before, a) < Place(S, before, b)
<1> DEFINE n == Cardinality(S)
           low(a) == Below(S, before, a)
           place(a) == Place(S, before, a)
<1>1. n \in Nat  BY FS_CardinalityType
<1>2. ASSUME NEW a \in S PROVE IsFiniteSet(low(a)) /\ place(a) \in 0..(n - 1)
  <2>1. low(a) \in SUBSET S /\ low(a) # S  BY DEF IsOrderOf, Below
  <2>2. place(a) = Cardinality(low(a))  BY DEF Place
  <2> HIDE DEF low, place
  <2>3. IsFiniteSet(low(a)) /\ Cardinality(low(a)) <= n /\ Cardinality(low(a)) # n  BY <2>1, FS_Subset
  <2>4. Cardinality(low(a)) \in Nat  BY <2>3, FS_CardinalityType
  <2> QED  BY <1>1, <2>2, <2>3, <2>4
<1>3. ASSUME NEW a \in S, NEW b \in S, <<a, b>> \in before PROVE place(a) < place(b)
  <2>1. a \in low(b) /\ a \notin low(a)  BY <1>3 DEF IsOrderOf, Below
  <2>2. low(a) \in SUBSET low(b)  BY <1>3 DEF IsOrderOf, Below
  <2>3. IsFiniteSet(low(b)) /\ place(a) \in 0..(n - 1) /\ place(b) \in 0..(n - 1)  BY <1>2
  <2>4. place(a) = Cardinality(low(a)) /\ place(b) = Cardinality(low(b))  BY DEF Place
  <2> HIDE DEF low, place
  <2>5. Cardinality(low(a)) <= Cardinality(low(b)) /\ Cardinality(low(a)) # Cardinality(low(b))
    BY <2>1, <2>2, <2>3, FS_Subset
  <2> QED  BY <1>1, <2>3, <2>4, <2>5
<1>4. ASSUME NEW a \in S, NEW b \in S, place(a) < place(b) PROVE <<a, b>> \in before
  <2>1. place(a) \in Int /\ place(b) \in Int  BY <1>1, <1>2
  <2>2. a # b /\ ~(place(b) < place(a))
    <3> HIDE DEF place
    <3> QED  BY <1>4, <2>1
  <2> QED  BY <1>3, <2>2 DEF IsOrderOf
<1> QED  BY <1>2, <1>3, <1>4

LEMMA InOrderIs ==
  ASSUME NEW S, IsFiniteSet(S), NEW before, IsOrderOf(before, S)
  PROVE  /\ InOrder(S, before) \in [1..Cardinality(S) -> S]
         /\ \A r \in 1..Cardinality(S) : Place(S, before, InOrder(S, before)[r]) = r - 1
         /\ \A a \in S : InOrder(S, before)[Place(S, before, a) + 1] = a
<1> DEFINE n == Cardinality(S)
           place(a) == Place(S, before, a)
           rank == [a \in S |-> place(a) + 1]
<1>1. n \in Nat  BY FS_CardinalityType
<1>2. \A a \in S : place(a) \in 0..(n - 1)  BY PlacesGrow
<1>3. \A a, b \in S : place(a) = place(b) => a = b
  <2> SUFFICES ASSUME NEW a \in S, NEW b \in S, a # b PROVE place(a) # place(b)  OBVIOUS
  <2>1. place(a) < place(b) \/ place(b) < place(a)  BY PlacesGrow DEF IsOrderOf
  <2>2. place(a) \in Int /\ place(b) \in Int  BY <1>1, <1>2
  <2> HIDE DEF place
  <2> QED  BY <2>1, <2>2
<1> HIDE DEF place
<1>4. rank \in [S -> 1..n]
  <2>1. \A a \in S : place(a) + 1 \in 1..n  BY <1>1, <1>2
  <2> HIDE DEF n
  <2> QED  BY <2>1
<1>5. \A a, b \in S : rank[a] = rank[b] => a = b
  <2> SUFFICES ASSUME NEW a \in S, NEW b \in S, rank[a] = rank[b] PROVE a = b  OBVIOUS
  <2>1. place(a) \in Int /\ place(b) \in Int  BY <1>1, <1>2
  <2>2. place(a) + 1 = place(b) + 1  OBVIOUS
  <2> QED  BY <1>3, <2>1, <2>2
<1>6. rank \in Injection(S, 1..n)
  <2> HIDE DEF rank
  <2> QED  BY <1>4, <1>5 DEF Injection, IsInjective
<1>7. IsFiniteSet(1..n) /\ Cardinality(1..n) = n
  <2> HIDE DEF n
  <2>1. n - 1 + 1 = n  BY <1>1
  <2> QED  BY <1>1, <2>1, FS_Interval
<1>8. rank \in Surjection(S, 1..n)
  <2> HIDE DEF rank
  <2> QED  BY <1>6, <1>7, FS_Injection
<1>9. \A r \in 1..n : \E a \in S : rank[a] = r
  <2> HIDE DEF rank
  <2> QED  BY <1>8 DEF Surjection
<1>10. ASSUME NEW r \in 1..n
       PROVE  InOrder(S, before)[r] \in S /\ place(InOrder(S, before)[r]) = r - 1
  <2>1. InOrder(S, before)[r] = CHOOSE a \in S : place(a) = r - 1  BY DEF InOrder, place, Place, Below
  <2>2. PICK a \in S : rank[a] = r  BY <1>9
  <2>3. place(a) = r - 1
    <3>1. place(a) \in Int /\ place(a) + 1 = r  BY <1>1, <1>2, <2>2
    <3> QED  BY <3>1
  <2> QED  BY <2>1, <2>3
<1>11. InOrder(S, before) \in [1..n -> S]
  <2>1. \A r \in 1..n : InOrder(S, before)[r] \in S  BY <1>10
  <2>2. InOrder(S, before) = [r \in 1..n |-> CHOOSE a \in S : Place(S, before, a) = r - 1]
    BY DEF InOrder, Place, Below
  <2> DEFINE at(r) == CHOOSE a \in S : Place(S, before, a) = r - 1
  <2>3. InOrder(S, before) = [r \in 1..n |-> at(r)]  BY <2>2
  <2> HIDE DEF at, n
  <2> QED  BY <2>1, <2>3
<1>12. ASSUME NEW a \in S PROVE InOrder(S, before)[place(a) + 1] = a
  <2> DEFINE r == place(a) + 1
  <2>1. r \in 1..n /\ r - 1 = place(a)  BY <1>1, <1>2
  <2> HIDE DEF r, n
  <2>2. InOrder(S, before)[r] \in S /\ place(InOrder(S, before)[r]) = r - 1  BY <1>10, <2>1
  <2>3. InOrder(S, before)[r] = a  BY <1>3, <2>1, <2>2
  <2> QED  BY <2>3 DEF r
<1> QED  BY <1>10, <1>11, <1>12 DEF place

-----------------------------------------------------------------------------
(* The two orders of the balanced ranking: a row's place within its motion,  *)
(* and the turn the motions take.                                            *)
Rows == DOMAIN assessed

BalancedBefore == {p \in Rows \X Rows : LexLess(BalancedKey(p[1]), BalancedKey(p[2]))}

RoundBefore == {p \in Rows \X Rows : LexLess(RoundKey(p[1]), RoundKey(p[2]))}

Turn(i) == Place(Bucket(assessed[i].motion), BalancedBefore, i)

LEMMA RowsAreFinite ==
  ASSUME RowsJudged
  PROVE  /\ IsFiniteSet(Rows) /\ Rows \in SUBSET Nat
         /\ \A motion : Bucket(motion) \in SUBSET Rows /\ IsFiniteSet(Bucket(motion))
<1>1. Rows = 1..Len(assessed) /\ Len(assessed) \in Nat  BY DEF RowsJudged, Rows
<1>2. IsFiniteSet(Rows) /\ Rows \in SUBSET Nat  BY <1>1, FS_Interval
<1>3. \A motion : Bucket(motion) \in SUBSET Rows  BY DEF Bucket, Rows
<1> QED  BY <1>2, <1>3, FS_Subset

LEMMA BalancedIsOrder ==
  ASSUME RowsJudged
  PROVE  /\ IsOrderOf(BalancedBefore, Rows)
         /\ \A motion : IsOrderOf(BalancedBefore, Bucket(motion))
         /\ \A i, j \in Rows : <<i, j>> \in BalancedBefore =>
              PresentationRank(assessed[i]) <= PresentationRank(assessed[j])
<1>1. \A i \in Rows : /\ BalancedKey(i) \in [1..5 -> Int]
                      /\ BalancedKey(i)[1] = PresentationRank(assessed[i]) /\ BalancedKey(i)[5] = i
                      /\ PresentationRank(assessed[i]) \in 0..3
  BY BalancedKeyIs DEF Rows
<1>2. \A i, j \in Rows : <<i, j>> \in BalancedBefore <=> LexLess(BalancedKey(i), BalancedKey(j))
  BY DEF BalancedBefore
<1>3. 5 \in Nat  OBVIOUS
<1>4. \A i \in Rows : ~LexLess(BalancedKey(i), BalancedKey(i))  BY <1>1, <1>3, LexLessIsOrder
<1>5. \A i, j, k \in Rows : LexLess(BalancedKey(i), BalancedKey(j)) /\ LexLess(BalancedKey(j), BalancedKey(k))
                              => LexLess(BalancedKey(i), BalancedKey(k))
  BY <1>1, <1>3, LexLessIsOrder
<1>6. \A i, j \in Rows : i = j \/ LexLess(BalancedKey(i), BalancedKey(j)) \/ LexLess(BalancedKey(j), BalancedKey(i))
  <2> SUFFICES ASSUME NEW i \in Rows, NEW j \in Rows, i # j
               PROVE  LexLess(BalancedKey(i), BalancedKey(j)) \/ LexLess(BalancedKey(j), BalancedKey(i))
    OBVIOUS
  <2>1. BalancedKey(i) # BalancedKey(j)  BY <1>1
  <2> QED  BY <1>1, <1>3, <2>1, LexLessIsOrder
<1>7. IsOrderOf(BalancedBefore, Rows)  BY <1>2, <1>4, <1>5, <1>6 DEF IsOrderOf
<1>8. \A motion : IsOrderOf(BalancedBefore, Bucket(motion))  BY <1>7, RowsAreFinite DEF IsOrderOf
<1>9. ASSUME NEW i \in Rows, NEW j \in Rows, <<i, j>> \in BalancedBefore
      PROVE  PresentationRank(assessed[i]) <= PresentationRank(assessed[j])
  <2> DEFINE a == BalancedKey(i)
             b == BalancedKey(j)
  <2>1. PICK k \in DOMAIN a : a[k] < b[k] /\ \A m \in 1..(k - 1) : a[m] = b[m]  BY <1>2, <1>9 DEF LexLess
  <2>2. k \in 1..5 /\ a[1] \in 0..3 /\ b[1] \in 0..3  BY <1>1
  <2>3. a[1] <= b[1]
    <3> HIDE DEF a, b
    <3>1. CASE k = 1  BY <2>1, <2>2, <3>1
    <3>2. CASE k # 1
      <4>1. 1 \in 1..(k - 1)  BY <2>2, <3>2
      <4> QED  BY <2>1, <2>2, <4>1
    <3> QED  BY <3>1, <3>2
  <2> QED  BY <1>1, <2>3
<1> QED  BY <1>7, <1>8, <1>9

LEMMA RoundKeyIs ==
  ASSUME RowsJudged, NEW i \in Rows
  PROVE  /\ i \in Bucket(assessed[i].motion) /\ Turn(i) \in Nat
         /\ assessed[i].motion \in Motions
         /\ RoundKey(i) = <<Turn(i), MotionIndex(assessed[i].motion)>>
         /\ RoundKey(i) \in [1..2 -> Int]
<1> DEFINE motion == assessed[i].motion
<1>1. i \in Bucket(motion)  BY DEF Bucket, Rows
<1>2. motion \in Motions  BY DEF RowsJudged, IsAssessment, Rows
<1>3. Turn(i) \in Nat
  <2>1. IsFiniteSet(Below(Bucket(motion), BalancedBefore, i))
    BY <1>1, RowsAreFinite, BalancedIsOrder, PlacesGrow
  <2> QED  BY <2>1, FS_CardinalityType DEF Turn, Place
<1>4. {j \in Bucket(motion) : LexLess(BalancedKey(j), BalancedKey(i))} = Below(Bucket(motion), BalancedBefore, i)
  <2>1. \A j \in Bucket(motion) : j \in Rows  BY RowsAreFinite
  <2> QED  BY <2>1 DEF Below, BalancedBefore
<1>5. RoundKey(i) = <<Turn(i), MotionIndex(motion)>>  BY <1>4 DEF RoundKey, Turn, Place
<1>6. MotionIndex(motion) \in Int  BY <1>2, MotionsAreNumbered
<1>7. RoundKey(i) \in [1..2 -> Int]
  <2> DEFINE t == Turn(i)
             m == MotionIndex(motion)
  <2>1. t \in Int /\ m \in Int /\ RoundKey(i) = <<t, m>>  BY <1>3, <1>5, <1>6
  <2> HIDE DEF t, m
  <2> QED  BY <2>1
<1> QED  BY <1>1, <1>2, <1>3, <1>5, <1>7

LEMMA SameMotionOrder ==
  ASSUME RowsJudged, NEW i \in Rows, NEW j \in Rows, assessed[i].motion = assessed[j].motion
  PROVE  <<i, j>> \in BalancedBefore <=> Turn(i) < Turn(j)
<1>1. i \in Bucket(assessed[i].motion) /\ j \in Bucket(assessed[i].motion)  BY RoundKeyIs
<1>2. IsFiniteSet(Bucket(assessed[i].motion)) /\ IsOrderOf(BalancedBefore, Bucket(assessed[i].motion))
  BY RowsAreFinite, BalancedIsOrder
<1> QED  BY <1>1, <1>2, PlacesGrow DEF Turn

LEMMA RoundIsOrder ==
  ASSUME RowsJudged
  PROVE  /\ IsOrderOf(RoundBefore, Rows)
         /\ \A i, j \in Rows : <<i, j>> \in RoundBefore =>
              /\ Turn(i) <= Turn(j)
              /\ assessed[i].motion = assessed[j].motion => Turn(i) < Turn(j)
<1> DEFINE motion(i) == assessed[i].motion
<1>1. \A i \in Rows : /\ RoundKey(i) \in [1..2 -> Int] /\ Turn(i) \in Nat /\ motion(i) \in Motions
                      /\ RoundKey(i) = <<Turn(i), MotionIndex(motion(i))>>
  BY RoundKeyIs
<1>2. \A i, j \in Rows : <<i, j>> \in RoundBefore <=> LexLess(RoundKey(i), RoundKey(j))
  BY DEF RoundBefore
<1>3. 2 \in Nat  OBVIOUS
<1>4. \A i \in Rows : ~LexLess(RoundKey(i), RoundKey(i))  BY <1>1, <1>3, LexLessIsOrder
<1>5. \A i, j, k \in Rows : LexLess(RoundKey(i), RoundKey(j)) /\ LexLess(RoundKey(j), RoundKey(k))
                              => LexLess(RoundKey(i), RoundKey(k))
  BY <1>1, <1>3, LexLessIsOrder
<1>6. \A i, j \in Rows : i = j \/ LexLess(RoundKey(i), RoundKey(j)) \/ LexLess(RoundKey(j), RoundKey(i))
  <2> SUFFICES ASSUME NEW i \in Rows, NEW j \in Rows, i # j
               PROVE  LexLess(RoundKey(i), RoundKey(j)) \/ LexLess(RoundKey(j), RoundKey(i))
    OBVIOUS
  <2>1. RoundKey(i) # RoundKey(j)
    <3> SUFFICES ASSUME RoundKey(i) = RoundKey(j) PROVE FALSE  OBVIOUS
    <3>1. Turn(i) = Turn(j) /\ MotionIndex(motion(i)) = MotionIndex(motion(j))
      <4>1. RoundKey(i)[1] = Turn(i) /\ RoundKey(i)[2] = MotionIndex(motion(i))  BY <1>1
      <4>2. RoundKey(j)[1] = Turn(j) /\ RoundKey(j)[2] = MotionIndex(motion(j))  BY <1>1
      <4> QED  BY <4>1, <4>2
    <3>2. motion(i) = motion(j)  BY <1>1, <3>1, MotionsAreNumbered
    <3>3. <<i, j>> \in BalancedBefore \/ <<j, i>> \in BalancedBefore  BY BalancedIsOrder DEF IsOrderOf
    <3>4. Turn(i) < Turn(j) \/ Turn(j) < Turn(i)  BY <3>2, <3>3, SameMotionOrder
    <3>5. Turn(i) \in Nat /\ Turn(j) \in Nat  BY <1>1
    <3> QED  BY <3>1, <3>4, <3>5
  <2> QED  BY <1>1, <1>3, <2>1, LexLessIsOrder
<1>7. IsOrderOf(RoundBefore, Rows)  BY <1>2, <1>4, <1>5, <1>6 DEF IsOrderOf
<1>8. ASSUME NEW i \in Rows, NEW j \in Rows, <<i, j>> \in RoundBefore
      PROVE  /\ Turn(i) <= Turn(j)
             /\ assessed[i].motion = assessed[j].motion => Turn(i) < Turn(j)
  <2> DEFINE a == RoundKey(i)
             b == RoundKey(j)
  <2>1. PICK k \in DOMAIN a : a[k] < b[k] /\ \A m \in 1..(k - 1) : a[m] = b[m]  BY <1>2, <1>8 DEF LexLess
  <2>2. k \in 1..2  BY <1>1
  <2>3. a[1] = Turn(i) /\ a[2] = MotionIndex(motion(i)) /\ b[1] = Turn(j) /\ b[2] = MotionIndex(motion(j))
    BY <1>1
  <2>4. a[1] \in Int /\ b[1] \in Int /\ a[2] \in Int /\ b[2] \in Int  BY <1>1
  <2> HIDE DEF a, b
  <2>5. CASE k = 1  BY <2>1, <2>3, <2>4, <2>5
  <2>6. CASE k = 2
    <3>1. 1 \in 1..(k - 1)  BY <2>6
    <3>2. a[1] = b[1] /\ a[2] < b[2]  BY <2>1, <2>6, <3>1
    <3>3. motion(i) # motion(j)  BY <2>3, <2>4, <3>2
    <3> QED  BY <2>3, <2>4, <3>2, <3>3
  <2> QED  BY <2>2, <2>5, <2>6
<1> QED  BY <1>7, <1>8

(* The balanced ranking is the rows in the order of RoundBefore, cut at n.   *)
LEMMA BalancedCut ==
  ASSUME RowsJudged, NEW n \in Nat,
         NEW in, in = {RankedRows("balanced", n)[k] : k \in DOMAIN RankedRows("balanced", n)}
  PROVE  /\ in \in SUBSET Rows
         /\ \A i \in Rows, j \in in : i \notin in => <<j, i>> \in RoundBefore
<1> DEFINE N == Cardinality(Rows)
           order == InOrder(Rows, RoundBefore)
           m == IF n < N THEN n ELSE N
           place(i) == Place(Rows, RoundBefore, i)
<1>1. N \in Nat /\ m \in Nat /\ m <= N  BY RowsAreFinite, FS_CardinalityType
<1>2. /\ order \in [1..N -> Rows]
      /\ \A r \in 1..N : place(order[r]) = r - 1
      /\ \A i \in Rows : order[place(i) + 1] = i
  BY RowsAreFinite, RoundIsOrder, InOrderIs
<1>3. \A i \in Rows : place(i) \in 0..(N - 1)  BY RowsAreFinite, RoundIsOrder, PlacesGrow
<1>4. \A i, j \in Rows : place(i) < place(j) => <<i, j>> \in RoundBefore
  BY RowsAreFinite, RoundIsOrder, PlacesGrow
<1>5. order = Sorted(DOMAIN assessed, RoundKey)
  BY DEF Sorted, Rows, RoundBefore
<1>6. RankedRows("balanced", n) = Take(order, n)  BY <1>5 DEF RankedRows
<1>7. order \in Seq(Rows) /\ Len(order) = N
  <2> HIDE DEF order, N
  <2> QED  BY <1>1, <1>2
<1>8. Take(order, n) = SubSeq(order, 1, m)  BY <1>7 DEF Take
<1>9. DOMAIN SubSeq(order, 1, m) = 1..m /\ \A k \in 1..m : SubSeq(order, 1, m)[k] = order[k]
  <2> HIDE DEF order, N, m
  <2> QED  BY <1>1, <1>7
<1>10. in = {order[k] : k \in 1..m}
  <2> HIDE DEF order, m
  <2> QED  BY <1>6, <1>8, <1>9
<1> HIDE DEF order, place, N, m
<1>11. \A k \in 1..m : k \in 1..N  BY <1>1
<1>12. in \in SUBSET Rows  BY <1>2, <1>10, <1>11
<1>13. ASSUME NEW i \in Rows, NEW j \in in, i \notin in PROVE <<j, i>> \in RoundBefore
  <2>1. PICK k \in 1..m : j = order[k]  BY <1>10
  <2>2. j \in Rows /\ place(j) = k - 1  BY <1>2, <1>11, <1>12, <2>1
  <2>3. place(i) \in Nat /\ place(i) + 1 \in 1..N  BY <1>1, <1>3
  <2>4. place(i) + 1 \notin 1..m  BY <1>2, <1>10, <1>13
  <2>5. k - 1 < place(i)  BY <1>1, <2>1, <2>3, <2>4
  <2> QED  BY <1>4, <2>2, <2>5
<1> QED  BY <1>12, <1>13

(* A set of rows of one motion that holds all up to a row, or ends with one. *)
LEMMA FirstOfUnlisted ==
  ASSUME RowsJudged, NEW motion, NEW Out \in SUBSET Bucket(motion), Out # {}
  PROVE  \E i \in Out : \A j \in Out : Turn(i) <= Turn(j)
<1> DEFINE Turns == {Turn(i) : i \in Out}
<1>1. Turns \in SUBSET Nat /\ Turns # {}  BY RoundKeyIs, RowsAreFinite
<1>2. PICK t \in Turns : \A u \in Turns : t <= u
  <2> HIDE DEF Turns
  <2> QED  BY <1>1, NatMin
<1> QED  BY <1>2

LEMMA LastOfListed ==
  ASSUME RowsJudged, NEW motion, NEW In \in SUBSET Bucket(motion), In # {}
  PROVE  \E i \in In : \A j \in In : Turn(j) <= Turn(i)
<1> DEFINE N == Cardinality(Bucket(motion))
           Left == {N - Turn(i) : i \in In}
<1>1. N \in Nat  BY RowsAreFinite, FS_CardinalityType
<1>2. ASSUME NEW i \in In PROVE Turn(i) \in Nat /\ N - Turn(i) \in Nat
  <2>1. i \in Rows /\ i \in Bucket(motion)  BY RowsAreFinite
  <2>2. assessed[i].motion = motion  BY <2>1 DEF Bucket
  <2>3. Turn(i) \in 0..(N - 1)  BY <2>1, <2>2, RowsAreFinite, BalancedIsOrder, PlacesGrow DEF Turn
  <2> HIDE DEF N
  <2> QED  BY <1>1, <2>3
<1>3. Left \in SUBSET Nat /\ Left # {}
  <2> HIDE DEF N
  <2> QED  BY <1>2
<1>4. PICK l \in Left : \A u \in Left : l <= u
  <2> HIDE DEF Left
  <2> QED  BY <1>3, NatMin
<1>5. PICK i \in In : l = N - Turn(i)  OBVIOUS
<1>6. ASSUME NEW j \in In PROVE Turn(j) <= Turn(i)
  <2>1. N - Turn(i) <= N - Turn(j)  BY <1>4, <1>5
  <2> HIDE DEF N
  <2> QED  BY <1>1, <1>2, <2>1
<1> QED  BY <1>6

LEMMA CutLast == Traced => StrongIsCutLast
<1> DEFINE in == {ranking.rows[k] : k \in DOMAIN ranking.rows}
           Listed(motion) == Bucket(motion) \cap in
<1> SUFFICES ASSUME Traced, ranking.mode = "balanced",
                    NEW i \in DOMAIN assessed,
                    assessed[i].presentation = "strong_candidate", i \notin in
             PROVE  /\ \A j \in Listed(assessed[i].motion) :
                         assessed[j].confidence = "high" /\ assessed[j].blocking_flags = {}
                    /\ \A j \in in : Cardinality(Listed(assessed[j].motion))
                                       <= Cardinality(Listed(assessed[i].motion)) + 1
  BY DEF StrongIsCutLast
<1>1. RowsJudged  BY TracedJudged
<1>2. ranking # NoRanking  BY DEF NoRanking
<1>3. ranking.top_n \in Nat /\ ranking.rows = RankedRows("balanced", ranking.top_n)
  BY <1>2, FamiliesAssumption DEF Traced, RowsRanked
<1>4. in = {RankedRows("balanced", ranking.top_n)[k] : k \in DOMAIN RankedRows("balanced", ranking.top_n)}
  BY <1>3
<1> HIDE DEF in
<1>5. in \in SUBSET Rows /\ \A k \in Rows, j \in in : k \notin in => <<j, k>> \in RoundBefore
  BY <1>1, <1>3, <1>4, BalancedCut
<1>6. i \in Rows  BY DEF Rows
<1>7. ASSUME NEW j \in Listed(assessed[i].motion)
      PROVE  assessed[j].confidence = "high" /\ assessed[j].blocking_flags = {}
  <2>1. j \in Rows /\ j \in in /\ assessed[j].motion = assessed[i].motion  BY <1>5 DEF Bucket
  <2>2. <<j, i>> \in RoundBefore  BY <1>5, <1>6, <2>1
  <2>3. Turn(j) < Turn(i)  BY <1>1, <1>6, <2>1, <2>2, RoundIsOrder
  <2>4. <<j, i>> \in BalancedBefore  BY <1>1, <1>6, <2>1, <2>3, SameMotionOrder
  <2>5. PresentationRank(assessed[j]) <= PresentationRank(assessed[i])
    BY <1>1, <1>6, <2>1, <2>4, BalancedIsOrder
  <2>6. PresentationRank(assessed[i]) = 0
    <3>1. assessed[i].confidence = "high" /\ assessed[i].blocking_flags = {}  BY <1>1 DEF RowsJudged
    <3> QED  BY <1>1, <3>1, BalancedKeyIs
  <2>7. PresentationRank(assessed[j]) \in 0..3  BY <1>1, <2>1, BalancedKeyIs DEF Rows
  <2>8. PresentationRank(assessed[j]) = 0  BY <2>5, <2>6, <2>7
  <2> QED  BY <1>1, <2>1, <2>8, BalancedKeyIs DEF Rows
<1>8. ASSUME NEW j \in in
      PROVE  Cardinality(Listed(assessed[j].motion)) <= Cardinality(Listed(assessed[i].motion)) + 1
  <2> DEFINE mine == assessed[i].motion
             other == assessed[j].motion
             Out == Bucket(mine) \ in
  <2>1. j \in Rows /\ j \in Bucket(other) /\ i \in Bucket(mine)
    BY <1>1, <1>5, <1>6, RoundKeyIs
  <2>2. PICK first \in Out : \A k \in Out : Turn(first) <= Turn(k)
    <3>1. i \in Out /\ Out \in SUBSET Bucket(mine)  BY <2>1
    <3> HIDE DEF Out, mine
    <3> QED  BY <1>1, <3>1, FirstOfUnlisted
  <2>3. PICK last \in Listed(other) : \A k \in Listed(other) : Turn(k) <= Turn(last)
    <3>1. j \in Listed(other) /\ Listed(other) \in SUBSET Bucket(other)  BY <2>1
    <3> HIDE DEF Listed, other
    <3> QED  BY <1>1, <3>1, LastOfListed
  <2>4. /\ first \in Rows /\ first \notin in /\ first \in Bucket(mine) /\ assessed[first].motion = mine
        /\ last \in Rows /\ last \in in /\ last \in Bucket(other) /\ assessed[last].motion = other
    BY <1>5, RowsAreFinite DEF Bucket, Rows
  <2>5. Turn(last) <= Turn(first)  BY <1>1, <1>5, <2>4, RoundIsOrder
  <2>6. /\ IsFiniteSet(Listed(mine)) /\ IsFiniteSet(Listed(other))
        /\ Cardinality(Listed(mine)) \in Nat /\ Cardinality(Listed(other)) \in Nat
    <3>1. Listed(mine) \in SUBSET Bucket(mine) /\ Listed(other) \in SUBSET Bucket(other)  OBVIOUS
    <3> HIDE DEF Listed, mine, other
    <3> QED  BY <1>1, <3>1, RowsAreFinite, FS_Subset, FS_CardinalityType
  <2>7. Turn(first) <= Cardinality(Listed(mine))
    <3> DEFINE low == Below(Bucket(mine), BalancedBefore, first)
    <3>1. \A k \in low : k \in Listed(mine)
      <4> SUFFICES ASSUME NEW k \in low, k \notin in PROVE FALSE  BY DEF Below
      <4>1. k \in Bucket(mine) /\ k \in Rows /\ assessed[k].motion = mine /\ <<k, first>> \in BalancedBefore
        BY DEF Below, Bucket, Rows
      <4>2. Turn(k) < Turn(first)  BY <1>1, <2>4, <4>1, SameMotionOrder
      <4>3. Turn(first) <= Turn(k)  BY <2>2, <4>1
      <4>4. Turn(k) \in Nat /\ Turn(first) \in Nat  BY <1>1, <2>4, <4>1, RoundKeyIs
      <4> QED  BY <4>2, <4>3, <4>4
    <3>2. Turn(first) = Cardinality(low)  BY <2>4 DEF Turn, Place
    <3> HIDE DEF low, Listed
    <3> QED  BY <2>6, <3>1, <3>2, FS_Subset
  <2>8. Cardinality(Listed(other)) <= Turn(last) + 1
    <3> DEFINE low == Below(Bucket(other), BalancedBefore, last)
               listed == Listed(other)
    <3>1. ASSUME NEW k \in listed PROVE k \in low \/ k = last
      <4>1. k \in Bucket(other) /\ k \in Rows /\ assessed[k].motion = other  BY DEF Bucket, Rows
      <4>2. Turn(k) <= Turn(last)  BY <2>3
      <4>3. Turn(k) \in Nat /\ Turn(last) \in Nat  BY <1>1, <2>4, <4>1, RoundKeyIs
      <4>4. <<last, k>> \notin BalancedBefore
        <5>1. ~(Turn(last) < Turn(k))  BY <4>2, <4>3
        <5> QED  BY <1>1, <2>4, <4>1, <5>1, SameMotionOrder
      <4>5. k = last \/ <<k, last>> \in BalancedBefore
        BY <1>1, <2>4, <4>1, <4>4, BalancedIsOrder DEF IsOrderOf
      <4> QED  BY <4>1, <4>5 DEF Below
    <3>2. Turn(last) = Cardinality(low)  BY <2>4 DEF Turn, Place
    <3>3. IsFiniteSet(low)  BY <1>1, <2>4, RowsAreFinite, BalancedIsOrder, PlacesGrow
    <3>4. last \notin low  BY <1>1, <2>4, BalancedIsOrder DEF Below, IsOrderOf
    <3> HIDE DEF low, listed
    <3>5. listed \in SUBSET (low \cup {last})  BY <3>1
    <3>6. IsFiniteSet(low \cup {last}) /\ Cardinality(low \cup {last}) = Cardinality(low) + 1
      BY <3>3, <3>4, FS_AddElement
    <3>7. Cardinality(listed) <= Cardinality(low) + 1  BY <3>5, <3>6, FS_Subset
    <3> QED  BY <3>2, <3>7 DEF listed
  <2>9. Turn(first) \in Nat /\ Turn(last) \in Nat  BY <1>1, <2>4, RoundKeyIs
  <2> HIDE DEF Listed, mine, other
  <2>10. Cardinality(Listed(other)) <= Cardinality(Listed(mine)) + 1  BY <2>5, <2>6, <2>7, <2>8, <2>9
  <2> QED  BY <2>10 DEF mine, other
<1> QED  BY <1>7, <1>8

(* StrongIsCutLast of the specification: when the balanced ranking leaves a  *)
(* strong candidate out, the rows of its motion that made it are as sure and *)
(* as free of flags, and no motion got more than one row more than its own.  *)
THEOREM CutLastHolds == Spec => []StrongIsCutLast
BY AlwaysTraced, CutLast, PTL

-----------------------------------------------------------------------------
(* The two engines.  First which rules of the kernel fire.                   *)
LEMMA RuleFires ==
  ASSUME NEW motion, NEW score, NEW when, NEW flags, NEW tags, NEW facts
  PROVE  Fires(Rule(motion, score, when, flags, tags), facts)
           <=> \A k \in DOMAIN when : EvalCondition(when[k], facts)
BY DEF Fires, Rule

LEMMA IsHolds ==
  ASSUME NEW field, NEW facts
  PROVE  EvalCondition(Is(field), facts) <=> facts[field] = TRUE
BY DEF EvalCondition, Is

LEMMA IsNotHolds ==
  ASSUME NEW field, NEW facts
  PROVE  EvalCondition(IsNot(field), facts) <=> facts[field] = FALSE
BY DEF EvalCondition, IsNot

LEMMA CompareHolds ==
  ASSUME NEW field, NEW value, NEW facts
  PROVE  /\ EvalCondition(Compare(field, "present", value), facts) <=> Present(facts[field])
         /\ EvalCondition(Compare(field, "missing", value), facts) <=> ~Present(facts[field])
         /\ EvalCondition(Compare(field, "lt", value), facts) <=> Present(facts[field]) /\ facts[field] < value
         /\ EvalCondition(Compare(field, "lte", value), facts) <=> Present(facts[field]) /\ facts[field] <= value
         /\ EvalCondition(Compare(field, "gte", value), facts) <=> Present(facts[field]) /\ facts[field] >= value
BY DEF EvalCondition, Compare

LEMMA OneConditionFires ==
  ASSUME NEW motion, NEW score, NEW c, NEW flags, NEW tags, NEW facts
  PROVE  Fires(Rule(motion, score, <<c>>, flags, tags), facts) <=> EvalCondition(c, facts)
<1>1. DOMAIN <<c>> = {1} /\ <<c>>[1] = c  OBVIOUS
<1> QED  BY <1>1, RuleFires

LEMMA TwoConditionsFire ==
  ASSUME NEW motion, NEW score, NEW c, NEW d, NEW flags, NEW tags, NEW facts
  PROVE  Fires(Rule(motion, score, <<c, d>>, flags, tags), facts)
           <=> EvalCondition(c, facts) /\ EvalCondition(d, facts)
<1>1. DOMAIN <<c, d>> = {1, 2} /\ <<c, d>>[1] = c /\ <<c, d>>[2] = d  OBVIOUS
<1> QED  BY <1>1, RuleFires

LEMMA MigrationFires ==
  ASSUME NEW w
  PROVE  /\ Fires(MigrationRules[1], Facts(w)) <=> PoweredOn(w)
         /\ Fires(MigrationRules[2], Facts(w)) <=> HasRecentBackup(w)
         /\ Fires(MigrationRules[3], Facts(w)) <=> LowChangeRate(w)
         /\ Fires(MigrationRules[4], Facts(w)) <=>
              Present(w.inventory.in_use_mib) /\ w.inventory.in_use_mib < Thresholds.small_workload_mib
         /\ Fires(MigrationRules[5], Facts(w)) <=> ~OsUnknown(w)
         /\ Fires(MigrationRules[6], Facts(w)) <=> ~SnapshotPresent(w)
         /\ Fires(MigrationRules[7], Facts(w)) <=> SnapshotPresent(w)
         /\ Fires(MigrationRules[8], Facts(w)) <=> w.backup = NoRow
<1> DEFINE facts == Facts(w)
           fires(k) == Fires(MigrationRules[k], facts)
<1>1. /\ fires(1) <=> EvalCondition(Is("powered_on"), facts)
      /\ fires(2) <=> EvalCondition(Is("has_recent_backup"), facts)
      /\ fires(3) <=> EvalCondition(Is("low_change_rate"), facts)
      /\ fires(4) <=> EvalCondition(Compare("in_use_mib", "lt", Thresholds.small_workload_mib), facts)
      /\ fires(5) <=> EvalCondition(IsNot("os_unknown"), facts)
      /\ fires(6) <=> EvalCondition(IsNot("snapshot_present"), facts)
      /\ fires(7) <=> EvalCondition(Is("snapshot_present"), facts)
      /\ fires(8) <=> EvalCondition(IsNot("backup_matched"), facts)
  BY OneConditionFires DEF MigrationRules, Migration
<1>2. /\ facts.powered_on = PoweredOn(w) /\ facts.has_recent_backup = HasRecentBackup(w)
      /\ facts.low_change_rate = LowChangeRate(w) /\ facts.in_use_mib = w.inventory.in_use_mib
      /\ facts.os_unknown = OsUnknown(w) /\ facts.snapshot_present = SnapshotPresent(w)
      /\ facts.backup_matched = (w.backup # NoRow)
  BY DEF Facts
<1>3. /\ PoweredOn(w) \in BOOLEAN /\ HasRecentBackup(w) \in BOOLEAN /\ LowChangeRate(w) \in BOOLEAN
      /\ OsUnknown(w) \in BOOLEAN /\ SnapshotPresent(w) \in BOOLEAN
  BY DEF PoweredOn, HasRecentBackup, LowChangeRate, OsUnknown, SnapshotPresent
<1> HIDE DEF facts, fires
<1>4. /\ fires(1) <=> facts.powered_on = TRUE
      /\ fires(2) <=> facts.has_recent_backup = TRUE
      /\ fires(3) <=> facts.low_change_rate = TRUE
      /\ fires(5) <=> facts.os_unknown = FALSE
      /\ fires(6) <=> facts.snapshot_present = FALSE
      /\ fires(7) <=> facts.snapshot_present = TRUE
      /\ fires(8) <=> facts.backup_matched = FALSE
  BY <1>1, IsHolds, IsNotHolds
<1>5. fires(4) <=> Present(facts.in_use_mib) /\ facts.in_use_mib < Thresholds.small_workload_mib
  BY <1>1, CompareHolds
<1>6. /\ fires(1) <=> PoweredOn(w)
      /\ fires(2) <=> HasRecentBackup(w)
      /\ fires(3) <=> LowChangeRate(w)
      /\ fires(5) <=> ~OsUnknown(w)
      /\ fires(6) <=> ~SnapshotPresent(w)
      /\ fires(7) <=> SnapshotPresent(w)
      /\ fires(8) <=> w.backup = NoRow
  BY <1>2, <1>3, <1>4
<1> QED  BY <1>2, <1>5, <1>6 DEF facts, fires

(* A workload that carries only what both engines read.                      *)
Plain(w) == w.samples = <<>> /\ ~StaleInventorySeen(w) /\ ~LongRpoReview(w)

LEMMA PlainFacts ==
  ASSUME NEW w, Plain(w)
  PROVE  /\ CpuP95(w) = Missing /\ MemoryP95(w) = Missing /\ SampleCount(w) = Missing
         /\ ~SampleQuality(w)
         /\ Facts(w).cpu_usage_pct = w.inventory.cpu_usage_pct
         /\ Facts(w).memory_usage_pct = w.inventory.memory_usage_pct
<1>1. DOMAIN w.samples = {}  BY DEF Plain
<1>2. \A field : Known(w, field) = {}  BY <1>1 DEF Known
<1>3. CpuP95(w) = Missing /\ MemoryP95(w) = Missing  BY <1>2 DEF CpuP95, MemoryP95, Largest
<1>4. SampleCount(w) = Missing  BY <1>2 DEF SampleCount
<1>5. ~SampleQuality(w)  BY <1>4 DEF SampleQuality, Missing
<1>6. /\ Facts(w).cpu_usage_pct = IF Present(w.inventory.cpu_usage_pct) THEN w.inventory.cpu_usage_pct ELSE Missing
      /\ Facts(w).memory_usage_pct
           = IF Present(w.inventory.memory_usage_pct) THEN w.inventory.memory_usage_pct ELSE Missing
  BY <1>3 DEF Facts
<1> QED  BY <1>3, <1>4, <1>5, <1>6 DEF Present

LEMMA ArchiveFires ==
  ASSUME NEW w, Plain(w)
  PROVE  /\ Fires(ArchiveRules[1], Facts(w)) <=> PoweredOff(w)
         /\ Fires(ArchiveRules[2], Facts(w)) <=> StaleBackup(w)
         /\ ~Fires(ArchiveRules[3], Facts(w))
         /\ Fires(ArchiveRules[4], Facts(w)) <=>
              Present(w.inventory.in_use_mib) /\ w.inventory.in_use_mib < Thresholds.small_workload_mib
         /\ Fires(ArchiveRules[5], Facts(w)) <=> w.backup = NoRow
         /\ Fires(ArchiveRules[6], Facts(w)) <=> OsUnknown(w)
         /\ Fires(ArchiveRules[7], Facts(w)) <=> PoweredOn(w)
<1> DEFINE facts == Facts(w)
           fires(k) == Fires(ArchiveRules[k], facts)
<1>1. /\ fires(1) <=> EvalCondition(Is("powered_off"), facts)
      /\ fires(2) <=> EvalCondition(Is("stale_backup"), facts)
      /\ fires(3) <=> EvalCondition(Is("stale_inventory_seen"), facts)
      /\ fires(4) <=> EvalCondition(Compare("in_use_mib", "lt", Thresholds.small_workload_mib), facts)
      /\ fires(5) <=> EvalCondition(IsNot("backup_matched"), facts)
      /\ fires(6) <=> EvalCondition(Is("os_unknown"), facts)
      /\ fires(7) <=> EvalCondition(Is("powered_on"), facts)
  BY OneConditionFires DEF ArchiveRules, Archive
<1>2. /\ facts.powered_off = PoweredOff(w) /\ facts.stale_backup = StaleBackup(w)
      /\ facts.stale_inventory_seen = StaleInventorySeen(w) /\ facts.in_use_mib = w.inventory.in_use_mib
      /\ facts.os_unknown = OsUnknown(w) /\ facts.powered_on = PoweredOn(w)
      /\ facts.backup_matched = (w.backup # NoRow)
  BY DEF Facts
<1>3. /\ PoweredOff(w) \in BOOLEAN /\ StaleBackup(w) \in BOOLEAN /\ OsUnknown(w) \in BOOLEAN
      /\ PoweredOn(w) \in BOOLEAN /\ StaleInventorySeen(w) \in BOOLEAN /\ ~StaleInventorySeen(w)
  BY DEF PoweredOff, StaleBackup, OsUnknown, PoweredOn, StaleInventorySeen, Plain
<1> HIDE DEF facts, fires
<1>4. /\ fires(1) <=> facts.powered_off = TRUE
      /\ fires(2) <=> facts.stale_backup = TRUE
      /\ fires(3) <=> facts.stale_inventory_seen = TRUE
      /\ fires(5) <=> facts.backup_matched = FALSE
      /\ fires(6) <=> facts.os_unknown = TRUE
      /\ fires(7) <=> facts.powered_on = TRUE
  BY <1>1, IsHolds, IsNotHolds
<1>5. fires(4) <=> Present(facts.in_use_mib) /\ facts.in_use_mib < Thresholds.small_workload_mib
  BY <1>1, CompareHolds
<1>6. /\ fires(1) <=> PoweredOff(w)
      /\ fires(2) <=> StaleBackup(w)
      /\ ~fires(3)
      /\ fires(5) <=> w.backup = NoRow
      /\ fires(6) <=> OsUnknown(w)
      /\ fires(7) <=> PoweredOn(w)
  BY <1>2, <1>3, <1>4
<1> QED  BY <1>2, <1>5, <1>6 DEF facts, fires

LEMMA RightsizingFires ==
  ASSUME NEW w, Plain(w), NEW f, f = DeriveFeatures(w)
  PROVE  /\ Fires(RightsizingRules[1], Facts(w)) <=> IdleCpu(w)
         /\ Fires(RightsizingRules[2], Facts(w)) <=> AllocatedCpu(w, f)
         /\ Fires(RightsizingRules[3], Facts(w)) <=> OversizedMemory(w)
         /\ Fires(RightsizingRules[4], Facts(w)) <=> AllocatedMemory(w, f)
         /\ Fires(RightsizingRules[5], Facts(w)) <=> LowChangeRate(w)
         /\ ~Fires(RightsizingRules[6], Facts(w)) /\ ~Fires(RightsizingRules[7], Facts(w))
<1> DEFINE facts == Facts(w)
           fires(k) == Fires(RightsizingRules[k], facts)
           cond(c) == EvalCondition(c, facts)
<1>1. /\ fires(1) <=> /\ cond(Compare("cpu_usage_pct", "lte", Thresholds.idle_cpu_pct))
                      /\ cond(Compare("cpu_count", "gte", 4))
      /\ fires(2) <=> /\ cond(Compare("cpu_usage_pct", "missing", 0))
                      /\ cond(Is("high_allocated_cpu"))
      /\ fires(3) <=> /\ cond(Compare("memory_usage_pct", "lte", Thresholds.low_memory_usage_pct))
                      /\ cond(Compare("memory_mib", "gte", 16384))
      /\ fires(4) <=> /\ cond(Compare("memory_usage_pct", "missing", 0))
                      /\ cond(Is("high_allocated_memory"))
      /\ fires(5) <=> cond(Is("low_change_rate"))
      /\ fires(6) <=> cond(Is("utilization_sample_quality"))
      /\ fires(7) <=> /\ cond(Compare("utilization_sample_count", "present", 0))
                      /\ cond(IsNot("utilization_sample_quality"))
  BY OneConditionFires, TwoConditionsFire DEF RightsizingRules, Rightsizing
<1>2. /\ facts.cpu_usage_pct = w.inventory.cpu_usage_pct /\ facts.memory_usage_pct = w.inventory.memory_usage_pct
  BY PlainFacts
<1>3. /\ facts.cpu_count = w.inventory.cpu_count /\ facts.memory_mib = w.inventory.memory_mib
      /\ facts.high_allocated_cpu = HighAllocatedCpu(w) /\ facts.high_allocated_memory = HighAllocatedMemory(w)
      /\ facts.low_change_rate = LowChangeRate(w) /\ facts.utilization_sample_quality = SampleQuality(w)
      /\ facts.utilization_sample_count = SampleCount(w)
  BY DEF Facts
<1>4. /\ HighAllocatedCpu(w) \in BOOLEAN /\ HighAllocatedMemory(w) \in BOOLEAN /\ LowChangeRate(w) \in BOOLEAN
      /\ SampleQuality(w) \in BOOLEAN
  BY DEF HighAllocatedCpu, HighAllocatedMemory, LowChangeRate, SampleQuality
<1>5. ~SampleQuality(w) /\ SampleCount(w) = Missing  BY PlainFacts
<1>6. /\ f.high_allocated_cpu = HighAllocatedCpu(w) /\ f.high_allocated_memory = HighAllocatedMemory(w)
  BY DEF DeriveFeatures, HighAllocatedCpu, HighAllocatedMemory
<1> HIDE DEF facts, fires, cond
<1>7. /\ cond(Is("high_allocated_cpu")) <=> facts.high_allocated_cpu = TRUE
      /\ cond(Is("high_allocated_memory")) <=> facts.high_allocated_memory = TRUE
      /\ cond(Is("low_change_rate")) <=> facts.low_change_rate = TRUE
      /\ cond(Is("utilization_sample_quality")) <=> facts.utilization_sample_quality = TRUE
  BY IsHolds DEF cond
<1>8. /\ cond(Compare("cpu_usage_pct", "lte", Thresholds.idle_cpu_pct))
           <=> Present(facts.cpu_usage_pct) /\ facts.cpu_usage_pct <= Thresholds.idle_cpu_pct
      /\ cond(Compare("memory_usage_pct", "lte", Thresholds.low_memory_usage_pct))
           <=> Present(facts.memory_usage_pct) /\ facts.memory_usage_pct <= Thresholds.low_memory_usage_pct
  BY CompareHolds DEF cond
<1>9. /\ cond(Compare("cpu_count", "gte", 4)) <=> Present(facts.cpu_count) /\ facts.cpu_count >= 4
      /\ cond(Compare("memory_mib", "gte", 16384)) <=> Present(facts.memory_mib) /\ facts.memory_mib >= 16384
  BY CompareHolds DEF cond
<1>10. /\ cond(Compare("cpu_usage_pct", "missing", 0)) <=> ~Present(facts.cpu_usage_pct)
       /\ cond(Compare("memory_usage_pct", "missing", 0)) <=> ~Present(facts.memory_usage_pct)
       /\ cond(Compare("utilization_sample_count", "present", 0)) <=> Present(facts.utilization_sample_count)
  BY CompareHolds DEF cond
<1>11. /\ w.inventory.cpu_count >= 4 => Present(w.inventory.cpu_count)
       /\ w.inventory.memory_mib >= 16384 => Present(w.inventory.memory_mib)
       /\ ~Present(Missing)
  BY DEF Present, Missing
<1>12. fires(1) <=> IdleCpu(w)  BY <1>1, <1>2, <1>3, <1>8, <1>9, <1>11 DEF IdleCpu
<1>13. fires(2) <=> AllocatedCpu(w, f)  BY <1>1, <1>2, <1>3, <1>4, <1>6, <1>7, <1>10 DEF AllocatedCpu
<1>14. fires(3) <=> OversizedMemory(w)  BY <1>1, <1>2, <1>3, <1>8, <1>9, <1>11 DEF OversizedMemory
<1>15. fires(4) <=> AllocatedMemory(w, f)  BY <1>1, <1>2, <1>3, <1>4, <1>6, <1>7, <1>10 DEF AllocatedMemory
<1>16. /\ fires(5) <=> LowChangeRate(w)
       /\ ~fires(6) /\ ~fires(7)
  BY <1>1, <1>3, <1>4, <1>5, <1>7, <1>10, <1>11
<1> QED  BY <1>12, <1>13, <1>14, <1>15, <1>16 DEF facts, fires

LEMMA DrTierFires ==
  ASSUME NEW w, Plain(w)
  PROVE  /\ Fires(DrTierRules[1], Facts(w)) <=> LowChangeRate(w)
         /\ Fires(DrTierRules[2], Facts(w)) <=> LargeBackupFootprint(w)
         /\ Fires(DrTierRules[3], Facts(w)) <=> BackupToUsedRatio(w) >= Thresholds.high_backup_to_used_ratio
         /\ Fires(DrTierRules[4], Facts(w)) <=> Of(w, "restore_point_count") >= Thresholds.many_restore_points
         /\ Fires(DrTierRules[5], Facts(w)) <=> HasRecentBackup(w)
         /\ ~Fires(DrTierRules[6], Facts(w))
         /\ Fires(DrTierRules[7], Facts(w)) <=> w.backup = NoRow
<1> DEFINE facts == Facts(w)
           fires(k) == Fires(DrTierRules[k], facts)
<1>1. /\ fires(1) <=> EvalCondition(Is("low_change_rate"), facts)
      /\ fires(2) <=> EvalCondition(Is("large_backup_footprint"), facts)
      /\ fires(3) <=> EvalCondition(Compare("backup_to_used_ratio", "gte", Thresholds.high_backup_to_used_ratio), facts)
      /\ fires(4) <=> EvalCondition(Compare("restore_point_count", "gte", Thresholds.many_restore_points), facts)
      /\ fires(5) <=> EvalCondition(Is("has_recent_backup"), facts)
      /\ fires(6) <=> EvalCondition(Is("long_rpo_review"), facts)
      /\ fires(7) <=> EvalCondition(IsNot("backup_matched"), facts)
  BY OneConditionFires DEF DrTierRules, DrTier
<1>2. /\ facts.low_change_rate = LowChangeRate(w) /\ facts.large_backup_footprint = LargeBackupFootprint(w)
      /\ facts.backup_to_used_ratio = BackupToUsedRatio(w)
      /\ facts.restore_point_count = Of(w, "restore_point_count")
      /\ facts.has_recent_backup = HasRecentBackup(w) /\ facts.long_rpo_review = LongRpoReview(w)
      /\ facts.backup_matched = (w.backup # NoRow)
  BY DEF Facts
<1>3. /\ LowChangeRate(w) \in BOOLEAN /\ LargeBackupFootprint(w) \in BOOLEAN /\ HasRecentBackup(w) \in BOOLEAN
      /\ LongRpoReview(w) \in BOOLEAN /\ ~LongRpoReview(w)
  BY DEF LowChangeRate, LargeBackupFootprint, HasRecentBackup, LongRpoReview, Plain
<1> HIDE DEF facts, fires
<1>4. /\ fires(1) <=> facts.low_change_rate = TRUE
      /\ fires(2) <=> facts.large_backup_footprint = TRUE
      /\ fires(5) <=> facts.has_recent_backup = TRUE
      /\ fires(6) <=> facts.long_rpo_review = TRUE
      /\ fires(7) <=> facts.backup_matched = FALSE
  BY <1>1, IsHolds, IsNotHolds
<1>5. /\ fires(3) <=> /\ Present(facts.backup_to_used_ratio)
                      /\ facts.backup_to_used_ratio >= Thresholds.high_backup_to_used_ratio
      /\ fires(4) <=> /\ Present(facts.restore_point_count)
                      /\ facts.restore_point_count >= Thresholds.many_restore_points
  BY <1>1, CompareHolds
<1>6. \A v : \A t \in Nat : v >= t => Present(v)  BY DEF Present, Missing
<1>7. Thresholds.high_backup_to_used_ratio \in Nat /\ Thresholds.many_restore_points \in Nat
  BY ThresholdsAssumption
<1>8. /\ fires(3) <=> BackupToUsedRatio(w) >= Thresholds.high_backup_to_used_ratio
      /\ fires(4) <=> Of(w, "restore_point_count") >= Thresholds.many_restore_points
  BY <1>2, <1>5, <1>6, <1>7
<1>9. /\ fires(1) <=> LowChangeRate(w)
      /\ fires(2) <=> LargeBackupFootprint(w)
      /\ fires(5) <=> HasRecentBackup(w)
      /\ ~fires(6)
      /\ fires(7) <=> w.backup = NoRow
  BY <1>2, <1>3, <1>4
<1> QED  BY <1>8, <1>9 DEF facts, fires

-----------------------------------------------------------------------------
(* Both engines add the same points.                                         *)
LEMMA PointsAreASequence ==
  ASSUME NEW n \in Nat, NEW p \in [1..n -> Int]
  PROVE  p \in Seq(Int) /\ Len(p) = n
OBVIOUS

LEMMA SumOfSeven ==
  ASSUME NEW p \in [1..7 -> Int]
  PROVE  SumOf(p) = p[1] + p[2] + p[3] + p[4] + p[5] + p[6] + p[7]
<1>1. p \in Seq(Int) /\ Len(p) = 7
  <2>1. 7 \in Nat  OBVIOUS
  <2> QED  BY <2>1, PointsAreASequence
<1>2. PICK sum \in [0..7 -> Int] :
        /\ SumOf(p) = sum[7] /\ sum[0] = 0
        /\ \A k \in 1..7 : sum[k] = sum[k - 1] + p[k]
  BY <1>1, SumUnfolds
<1>3. /\ sum[1] = sum[0] + p[1] /\ sum[2] = sum[1] + p[2] /\ sum[3] = sum[2] + p[3] /\ sum[4] = sum[3] + p[4]
      /\ sum[5] = sum[4] + p[5] /\ sum[6] = sum[5] + p[6] /\ sum[7] = sum[6] + p[7]
  BY <1>2
<1>4. \A k \in 1..7 : p[k] \in Int  OBVIOUS
<1>5. \A k \in 0..7 : sum[k] \in Int  OBVIOUS
<1> QED  BY <1>2, <1>3, <1>4, <1>5

LEMMA SumOfEight ==
  ASSUME NEW p \in [1..8 -> Int]
  PROVE  SumOf(p) = p[1] + p[2] + p[3] + p[4] + p[5] + p[6] + p[7] + p[8]
<1>1. p \in Seq(Int) /\ Len(p) = 8
  <2>1. 8 \in Nat  OBVIOUS
  <2> QED  BY <2>1, PointsAreASequence
<1>2. PICK sum \in [0..8 -> Int] :
        /\ SumOf(p) = sum[8] /\ sum[0] = 0
        /\ \A k \in 1..8 : sum[k] = sum[k - 1] + p[k]
  BY <1>1, SumUnfolds
<1>3. /\ sum[1] = sum[0] + p[1] /\ sum[2] = sum[1] + p[2] /\ sum[3] = sum[2] + p[3] /\ sum[4] = sum[3] + p[4]
      /\ sum[5] = sum[4] + p[5] /\ sum[6] = sum[5] + p[6] /\ sum[7] = sum[6] + p[7] /\ sum[8] = sum[7] + p[8]
  BY <1>2
<1>4. \A k \in 1..8 : p[k] \in Int  OBVIOUS
<1>5. \A k \in 0..8 : sum[k] \in Int  OBVIOUS
<1> QED  BY <1>2, <1>3, <1>4, <1>5

(* The points of the rules that fire.                                        *)
LEMMA ScoreOfSeven ==
  ASSUME NEW motion, NEW rules, NEW facts, DOMAIN rules = 1..7, \A k \in 1..7 : rules[k].score \in Int
  PROVE  LET p(k) == Points(Fires(rules[k], facts), rules[k].score)
         IN  Assess(motion, rules, facts).score = Clamp(p(1) + p(2) + p(3) + p(4) + p(5) + p(6) + p(7))
<1> DEFINE fired == {k \in DOMAIN rules : Fires(rules[k], facts)}
           points == [k \in DOMAIN rules |-> IF k \in fired THEN rules[k].score ELSE 0]
           p(k) == Points(Fires(rules[k], facts), rules[k].score)
<1>1. Assess(motion, rules, facts).score = Clamp(SumOf(points))  BY DEF Assess
<1>2. \A k \in 1..7 : points[k] = p(k)  BY DEF Points
<1>3. points \in [1..7 -> Int]  OBVIOUS
<1> HIDE DEF points, p
<1>4. SumOf(points) = points[1] + points[2] + points[3] + points[4] + points[5] + points[6] + points[7]
  BY <1>3, SumOfSeven
<1>5. SumOf(points) = p(1) + p(2) + p(3) + p(4) + p(5) + p(6) + p(7)  BY <1>2, <1>4
<1> QED  BY <1>1, <1>5 DEF p

LEMMA ScoreOfEight ==
  ASSUME NEW motion, NEW rules, NEW facts, DOMAIN rules = 1..8, \A k \in 1..8 : rules[k].score \in Int
  PROVE  LET p(k) == Points(Fires(rules[k], facts), rules[k].score)
         IN  Assess(motion, rules, facts).score = Clamp(p(1) + p(2) + p(3) + p(4) + p(5) + p(6) + p(7) + p(8))
<1> DEFINE fired == {k \in DOMAIN rules : Fires(rules[k], facts)}
           points == [k \in DOMAIN rules |-> IF k \in fired THEN rules[k].score ELSE 0]
           p(k) == Points(Fires(rules[k], facts), rules[k].score)
<1>1. Assess(motion, rules, facts).score = Clamp(SumOf(points))  BY DEF Assess
<1>2. \A k \in 1..8 : points[k] = p(k)  BY DEF Points
<1>3. points \in [1..8 -> Int]  OBVIOUS
<1> HIDE DEF points, p
<1>4. SumOf(points) = points[1] + points[2] + points[3] + points[4] + points[5] + points[6] + points[7] + points[8]
  BY <1>3, SumOfEight
<1>5. SumOf(points) = p(1) + p(2) + p(3) + p(4) + p(5) + p(6) + p(7) + p(8)  BY <1>2, <1>4
<1> QED  BY <1>1, <1>5 DEF p

LEMMA AllocationIs ==
  ASSUME NEW motion, NEW rules, NEW facts
  PROVE  /\ Assess(motion, rules, facts).allocation_only \in BOOLEAN
         /\ Assess(motion, rules, facts).allocation_only <=>
              /\ \E k \in DOMAIN rules : Fires(rules[k], facts) /\ "allocation_signal" \in rules[k].tags
              /\ \A k \in DOMAIN rules : Fires(rules[k], facts) => "utilization_signal" \notin rules[k].tags
BY DEF Assess

LEMMA FlagIsOfARule ==
  ASSUME NEW motion, NEW rules, NEW facts, NEW flag \in Assess(motion, rules, facts).blocking_flags
  PROVE  \E k \in DOMAIN rules : Fires(rules[k], facts) /\ flag \in rules[k].flags
BY DEF Assess

(* Both engines read the same features out of a workload.                    *)
LEMMA FeaturesAgree ==
  ASSUME NEW w, NEW f, f = DeriveFeatures(w)
  PROVE  /\ f.backup_to_used_ratio = BackupToUsedRatio(w)
         /\ f.change_rate_pct = ChangeRatePct(w)
         /\ f.has_recent_backup = HasRecentBackup(w) /\ f.stale_backup = StaleBackup(w)
         /\ f.powered_on = PoweredOn(w) /\ f.powered_off = PoweredOff(w)
         /\ f.large_backup_footprint = LargeBackupFootprint(w)
         /\ f.low_change_rate = LowChangeRate(w) /\ f.snapshot_present = SnapshotPresent(w)
         /\ IsUnknownOs(w.inventory.os) <=> OsUnknown(w)
<1> DEFINE used == w.inventory.in_use_mib
           change == Of(w, "avg_daily_change_mib")
           rate == IF used <= 0 \/ ~Present(change) \/ change <= 0 THEN Missing
                   ELSE (100 * change + used - 1) \div used
<1>1. /\ f.backup_to_used_ratio = IF used <= 0 \/ ~Present(Of(w, "backup_total_mib")) THEN Missing
                                  ELSE Of(w, "backup_total_mib") \div used
      /\ f.change_rate_pct = rate
      /\ f.low_change_rate = (Present(rate) /\ rate <= Thresholds.low_change_rate_pct)
      /\ f.has_recent_backup = (/\ Present(Of(w, "restore_point_age"))
                                /\ Of(w, "restore_point_age") <= Thresholds.recent_backup_days)
      /\ f.stale_backup = (/\ Present(Of(w, "restore_point_age"))
                           /\ Of(w, "restore_point_age") > Thresholds.stale_backup_days)
      /\ f.powered_on = (w.inventory.power_state = "on") /\ f.powered_off = (w.inventory.power_state = "off")
      /\ f.large_backup_footprint = (Of(w, "backup_total_mib") >= Thresholds.large_backup_mib)
      /\ f.snapshot_present = (w.inventory.snapshot_total_mib > 0)
  BY DEF DeriveFeatures
<1>2. ~Present(change) => change <= 0  BY DEF Present, Missing
<1>3. rate = ChangeRatePct(w)  BY <1>2 DEF ChangeRatePct
<1> HIDE DEF rate
<1>4. f.low_change_rate = LowChangeRate(w)  BY <1>1, <1>3 DEF LowChangeRate
<1>5. IsUnknownOs(w.inventory.os) <=> OsUnknown(w)  BY DEF IsUnknownOs, OsUnknown
<1> QED  BY <1>1, <1>3, <1>4, <1>5 DEF BackupToUsedRatio, HasRecentBackup, StaleBackup, PoweredOn, PoweredOff,
                                      LargeBackupFootprint, SnapshotPresent

(* Every motion has the same score and says the same of what it rests on.    *)
LEMMA MigrationAgrees ==
  ASSUME NEW w, NEW f, f = DeriveFeatures(w)
  PROVE  LET now == Assess("MIGRATION_REVIEW", MigrationRules, Facts(w))
         IN  now.score = Clamp(MigrationReview(w, f)) /\ now.allocation_only = FALSE
<1> DEFINE facts == Facts(w)
           now == Assess("MIGRATION_REVIEW", MigrationRules, facts)
           fires(k) == Fires(MigrationRules[k], facts)
           q(k) == Points(fires(k), MigrationRules[k].score)
<1>1. /\ DOMAIN MigrationRules = 1..8
      /\ MigrationRules[1].score = 20 /\ MigrationRules[2].score = 20 /\ MigrationRules[3].score = 20
      /\ MigrationRules[4].score = 15 /\ MigrationRules[5].score = 10 /\ MigrationRules[6].score = 10
      /\ MigrationRules[7].score = -25 /\ MigrationRules[8].score = -20
      /\ \A k \in 1..8 : MigrationRules[k].score \in Int /\ MigrationRules[k].tags = {}
  BY DEF MigrationRules, Migration, Rule
<1> HIDE DEF facts
<1>2. now.score = Clamp(q(1) + q(2) + q(3) + q(4) + q(5) + q(6) + q(7) + q(8))
  <2>1. \A k \in 1..8 : MigrationRules[k].score \in Int  BY <1>1
  <2> QED  BY <1>1, <2>1, ScoreOfEight
<1> HIDE DEF fires, now
<1>5. /\ fires(1) <=> f.powered_on
      /\ fires(2) <=> f.has_recent_backup
      /\ fires(3) <=> f.low_change_rate
      /\ fires(4) <=> SmallStorage(w)
      /\ fires(5) <=> ~IsUnknownOs(w.inventory.os)
      /\ fires(6) <=> ~f.snapshot_present
      /\ fires(7) <=> f.snapshot_present
      /\ fires(8) <=> w.backup = NoRow
  BY MigrationFires, FeaturesAgree DEF fires, facts, SmallStorage
<1>6. /\ q(1) = Points(f.powered_on, 20)
      /\ q(2) = Points(f.has_recent_backup, 20)
      /\ q(3) = Points(f.low_change_rate, 20)
      /\ q(4) = Points(SmallStorage(w), 15)
      /\ q(5) = Points(~IsUnknownOs(w.inventory.os), 10)
      /\ q(6) = Points(~f.snapshot_present, 10)
      /\ q(7) = Points(f.snapshot_present, -25)
      /\ q(8) = Points(w.backup = NoRow, -20)
  BY <1>1, <1>5 DEF Points
<1>7. \A k \in 1..8 : q(k) \in Int  BY <1>1 DEF Points
<1> HIDE DEF q
<1>8. MigrationReview(w, f) = q(1) + q(2) + q(3) + q(4) + q(5) + q(6) + q(7) + q(8)
  <2>1. q(6) + q(7) = IF f.snapshot_present THEN -25 ELSE 10  BY <1>6 DEF Points
  <2>2. MigrationReview(w, f) = q(1) + q(2) + q(3) + q(4) + q(5) + (q(6) + q(7)) + q(8)
    BY <1>6, <2>1 DEF MigrationReview
  <2> QED  BY <1>7, <2>2
<1>9. now.allocation_only = FALSE
  <2>1. ~\E k \in DOMAIN MigrationRules : "allocation_signal" \in MigrationRules[k].tags  BY <1>1
  <2> QED  BY <2>1, AllocationIs DEF now
<1> QED  BY <1>2, <1>8, <1>9 DEF now, facts

LEMMA ArchiveAgrees ==
  ASSUME NEW w, Plain(w), NEW f, f = DeriveFeatures(w)
  PROVE  LET now == Assess("ARCHIVE_REVIEW", ArchiveRules, Facts(w))
         IN  now.score = Clamp(ArchiveReview(w, f)) /\ now.allocation_only = FALSE
<1> DEFINE facts == Facts(w)
           now == Assess("ARCHIVE_REVIEW", ArchiveRules, facts)
           fires(k) == Fires(ArchiveRules[k], facts)
           q(k) == Points(fires(k), ArchiveRules[k].score)
<1>1. /\ DOMAIN ArchiveRules = 1..7
      /\ ArchiveRules[1].score = 35 /\ ArchiveRules[2].score = 20 /\ ArchiveRules[3].score = 15
      /\ ArchiveRules[4].score = 15 /\ ArchiveRules[5].score = 15 /\ ArchiveRules[6].score = 10
      /\ ArchiveRules[7].score = -25
      /\ \A k \in 1..7 : ArchiveRules[k].score \in Int /\ ArchiveRules[k].tags = {}
  BY DEF ArchiveRules, Archive, Rule
<1> HIDE DEF facts
<1>2. now.score = Clamp(q(1) + q(2) + q(3) + q(4) + q(5) + q(6) + q(7))
  <2>1. \A k \in 1..7 : ArchiveRules[k].score \in Int  BY <1>1
  <2> QED  BY <1>1, <2>1, ScoreOfSeven
<1> HIDE DEF fires, now
<1>5. /\ fires(1) <=> f.powered_off
      /\ fires(2) <=> f.stale_backup
      /\ ~fires(3)
      /\ fires(4) <=> SmallStorage(w)
      /\ fires(5) <=> w.backup = NoRow
      /\ fires(6) <=> IsUnknownOs(w.inventory.os)
      /\ fires(7) <=> f.powered_on
  BY ArchiveFires, FeaturesAgree DEF fires, facts, SmallStorage
<1>6. /\ q(1) = Points(f.powered_off, 35)
      /\ q(2) = Points(f.stale_backup, 20)
      /\ q(3) = 0
      /\ q(4) = Points(SmallStorage(w), 15)
      /\ q(5) = Points(w.backup = NoRow, 15)
      /\ q(6) = Points(IsUnknownOs(w.inventory.os), 10)
      /\ q(7) = Points(f.powered_on, -25)
  BY <1>1, <1>5 DEF Points
<1>7. \A k \in 1..7 : q(k) \in Int  BY <1>1 DEF Points
<1> HIDE DEF q
<1>8. ArchiveReview(w, f) = q(1) + q(2) + q(3) + q(4) + q(5) + q(6) + q(7)
  BY <1>6, <1>7 DEF ArchiveReview
<1>9. now.allocation_only = FALSE
  <2>1. ~\E k \in DOMAIN ArchiveRules : "allocation_signal" \in ArchiveRules[k].tags  BY <1>1
  <2> QED  BY <2>1, AllocationIs DEF now
<1> QED  BY <1>2, <1>8, <1>9 DEF now, facts

LEMMA RightsizingAgrees ==
  ASSUME NEW w, Plain(w), NEW f, f = DeriveFeatures(w)
  PROVE  LET now == Assess("RIGHTSIZING_REVIEW", RightsizingRules, Facts(w))
         IN  now.score = Clamp(RightsizingReview(w, f)) /\ now.allocation_only = AllocationOnlyReview(w, f)
<1> DEFINE facts == Facts(w)
           now == Assess("RIGHTSIZING_REVIEW", RightsizingRules, facts)
           fires(k) == Fires(RightsizingRules[k], facts)
           q(k) == Points(fires(k), RightsizingRules[k].score)
<1>1. /\ DOMAIN RightsizingRules = 1..7
      /\ RightsizingRules[1].score = 30 /\ RightsizingRules[2].score = 20 /\ RightsizingRules[3].score = 30
      /\ RightsizingRules[4].score = 20 /\ RightsizingRules[5].score = 10 /\ RightsizingRules[6].score = 5
      /\ RightsizingRules[7].score = -10
      /\ \A k \in 1..7 : RightsizingRules[k].score \in Int
  BY DEF RightsizingRules, Rightsizing, Rule
<1> HIDE DEF facts
<1>2. now.score = Clamp(q(1) + q(2) + q(3) + q(4) + q(5) + q(6) + q(7))
  <2>1. \A k \in 1..7 : RightsizingRules[k].score \in Int  BY <1>1
  <2> QED  BY <1>1, <2>1, ScoreOfSeven
<1>3. \A k \in 1..7 : /\ "allocation_signal" \in RightsizingRules[k].tags <=> k \in {2, 4}
                      /\ "utilization_signal" \in RightsizingRules[k].tags <=> k \in {1, 3, 6}
  BY DEF RightsizingRules, Rightsizing, Rule
<1>4. /\ now.allocation_only \in BOOLEAN
      /\ now.allocation_only <=> /\ \E k \in 1..7 : fires(k) /\ "allocation_signal" \in RightsizingRules[k].tags
                                 /\ \A k \in 1..7 : fires(k) => "utilization_signal" \notin RightsizingRules[k].tags
  BY <1>1, AllocationIs
<1> HIDE DEF fires, now
<1>5. /\ fires(1) <=> IdleCpu(w)
      /\ fires(2) <=> AllocatedCpu(w, f)
      /\ fires(3) <=> OversizedMemory(w)
      /\ fires(4) <=> AllocatedMemory(w, f)
      /\ fires(5) <=> f.low_change_rate
      /\ ~fires(6)
      /\ ~fires(7)
  BY RightsizingFires, FeaturesAgree DEF fires, facts, SmallStorage
<1>6. /\ q(1) = Points(IdleCpu(w), 30)
      /\ q(2) = Points(AllocatedCpu(w, f), 20)
      /\ q(3) = Points(OversizedMemory(w), 30)
      /\ q(4) = Points(AllocatedMemory(w, f), 20)
      /\ q(5) = Points(f.low_change_rate, 10)
      /\ q(6) = 0
      /\ q(7) = 0
  BY <1>1, <1>5 DEF Points
<1>7. \A k \in 1..7 : q(k) \in Int  BY <1>1 DEF Points
<1> HIDE DEF q
<1>8. RightsizingReview(w, f) = q(1) + q(2) + q(3) + q(4) + q(5) + q(6) + q(7)
  BY <1>6, <1>7 DEF RightsizingReview
<1>9. now.allocation_only <=> (fires(2) \/ fires(4)) /\ ~fires(1) /\ ~fires(3) /\ ~fires(6)
  <2>1. /\ (\E k \in 1..7 : fires(k) /\ k \in {2, 4}) <=> (fires(2) \/ fires(4))
        /\ (\A k \in 1..7 : fires(k) => k \notin {1, 3, 6}) <=> (~fires(1) /\ ~fires(3) /\ ~fires(6))
    OBVIOUS
  <2> QED  BY <2>1, <1>3, <1>4
<1>10. now.allocation_only <=> AllocationOnlyReview(w, f)  BY <1>5, <1>9 DEF AllocationOnlyReview
<1>11. AllocationOnlyReview(w, f) \in BOOLEAN  BY DEF AllocationOnlyReview
<1> QED  BY <1>2, <1>4, <1>8, <1>10, <1>11 DEF now, facts

LEMMA DrTierAgrees ==
  ASSUME NEW w, Plain(w), NEW f, f = DeriveFeatures(w)
  PROVE  LET now == Assess("DR_TIER_REVIEW", DrTierRules, Facts(w))
         IN  now.score = Clamp(DrTierReview(w, f)) /\ now.allocation_only = FALSE
<1> DEFINE facts == Facts(w)
           now == Assess("DR_TIER_REVIEW", DrTierRules, facts)
           fires(k) == Fires(DrTierRules[k], facts)
           q(k) == Points(fires(k), DrTierRules[k].score)
<1>1. /\ DOMAIN DrTierRules = 1..7
      /\ DrTierRules[1].score = 30 /\ DrTierRules[2].score = 25 /\ DrTierRules[3].score = 15
      /\ DrTierRules[4].score = 10 /\ DrTierRules[5].score = 10 /\ DrTierRules[6].score = 10
      /\ DrTierRules[7].score = -25
      /\ \A k \in 1..7 : DrTierRules[k].score \in Int /\ DrTierRules[k].tags = {}
  BY DEF DrTierRules, DrTier, Rule
<1> HIDE DEF facts
<1>2. now.score = Clamp(q(1) + q(2) + q(3) + q(4) + q(5) + q(6) + q(7))
  <2>1. \A k \in 1..7 : DrTierRules[k].score \in Int  BY <1>1
  <2> QED  BY <1>1, <2>1, ScoreOfSeven
<1> HIDE DEF fires, now
<1>5. /\ fires(1) <=> f.low_change_rate
      /\ fires(2) <=> f.large_backup_footprint
      /\ fires(3) <=> f.backup_to_used_ratio >= Thresholds.high_backup_to_used_ratio
      /\ fires(4) <=> Of(w, "restore_point_count") >= Thresholds.many_restore_points
      /\ fires(5) <=> f.has_recent_backup
      /\ ~fires(6)
      /\ fires(7) <=> w.backup = NoRow
  BY DrTierFires, FeaturesAgree DEF fires, facts, SmallStorage
<1>6. /\ q(1) = Points(f.low_change_rate, 30)
      /\ q(2) = Points(f.large_backup_footprint, 25)
      /\ q(3) = Points(f.backup_to_used_ratio >= Thresholds.high_backup_to_used_ratio, 15)
      /\ q(4) = Points(Of(w, "restore_point_count") >= Thresholds.many_restore_points, 10)
      /\ q(5) = Points(f.has_recent_backup, 10)
      /\ q(6) = 0
      /\ q(7) = Points(w.backup = NoRow, -25)
  BY <1>1, <1>5 DEF Points
<1>7. \A k \in 1..7 : q(k) \in Int  BY <1>1 DEF Points
<1> HIDE DEF q
<1>8. DrTierReview(w, f) = q(1) + q(2) + q(3) + q(4) + q(5) + q(6) + q(7)
  BY <1>6, <1>7 DEF DrTierReview
<1>9. now.allocation_only = FALSE
  <2>1. ~\E k \in DOMAIN DrTierRules : "allocation_signal" \in DrTierRules[k].tags  BY <1>1
  <2> QED  BY <2>1, AllocationIs DEF now
<1> QED  BY <1>2, <1>8, <1>9 DEF now, facts

(* The kernel scores the four motions as the rules do, and raises no flag of  *)
(* its own but for a missing backup row and for a snapshot.                  *)
LEMMA MotionAgrees ==
  ASSUME NEW w, Plain(w), NEW f, f = DeriveFeatures(w), NEW k \in 1..4
  PROVE  LET before == ScoreAllMotions(w, f)[k]
             now == EvaluatePolicy(w)[k]
         IN  /\ before.motion = MotionOrder[k] /\ now.motion = MotionOrder[k]
             /\ before.score = now.score /\ before.allocation_only = now.allocation_only
             /\ now.allocation_only \in BOOLEAN
             /\ now.allocation_only => now.motion = "RIGHTSIZING_REVIEW"
             /\ \A flag \in now.blocking_flags :
                  \/ flag = "NO_BACKUP_MATCH" /\ w.backup = NoRow
                  \/ flag = "SNAPSHOT_PRESENT" /\ SnapshotPresent(w)
<1> DEFINE facts == Facts(w)
           migration == Assess("MIGRATION_REVIEW", MigrationRules, facts)
           archive == Assess("ARCHIVE_REVIEW", ArchiveRules, facts)
           rightsizing == Assess("RIGHTSIZING_REVIEW", RightsizingRules, facts)
           drTier == Assess("DR_TIER_REVIEW", DrTierRules, facts)
           Fair(flag) == \/ flag = "NO_BACKUP_MATCH" /\ w.backup = NoRow
                         \/ flag = "SNAPSHOT_PRESENT" /\ SnapshotPresent(w)
<1>1. EvaluatePolicy(w) = <<migration, archive, rightsizing, drTier>>  BY DEF EvaluatePolicy
<1>2. /\ migration.score = Clamp(MigrationReview(w, f)) /\ migration.allocation_only = FALSE
      /\ archive.score = Clamp(ArchiveReview(w, f)) /\ archive.allocation_only = FALSE
      /\ rightsizing.score = Clamp(RightsizingReview(w, f))
      /\ rightsizing.allocation_only = AllocationOnlyReview(w, f)
      /\ drTier.score = Clamp(DrTierReview(w, f)) /\ drTier.allocation_only = FALSE
  BY MigrationAgrees, ArchiveAgrees, RightsizingAgrees, DrTierAgrees
<1>3. /\ migration.motion = "MIGRATION_REVIEW" /\ archive.motion = "ARCHIVE_REVIEW"
      /\ rightsizing.motion = "RIGHTSIZING_REVIEW" /\ drTier.motion = "DR_TIER_REVIEW"
  BY DEF Assess
<1>4. AllocationOnlyReview(w, f) \in BOOLEAN  BY DEF AllocationOnlyReview
<1>5. \A flag \in migration.blocking_flags : Fair(flag)
  <2> TAKE flag \in migration.blocking_flags
  <2>1. PICK r \in DOMAIN MigrationRules : Fires(MigrationRules[r], facts) /\ flag \in MigrationRules[r].flags
    BY FlagIsOfARule
  <2>2. \/ r = 7 /\ flag = "SNAPSHOT_PRESENT"
        \/ r = 8 /\ flag = "NO_BACKUP_MATCH"
    <3>1. \A m \in 1..6 : MigrationRules[m].flags = {}  BY DEF MigrationRules, Migration, Rule
    <3>2. MigrationRules[7].flags = {"SNAPSHOT_PRESENT"} /\ MigrationRules[8].flags = {"NO_BACKUP_MATCH"}
      BY DEF MigrationRules, Migration, Rule
    <3>3. r \in 1..8  BY DEF MigrationRules
    <3> QED  BY <2>1, <3>1, <3>2, <3>3
  <2> QED  BY <2>1, <2>2, MigrationFires
<1>6. \A flag \in archive.blocking_flags : Fair(flag)
  <2> TAKE flag \in archive.blocking_flags
  <2>1. PICK r \in DOMAIN ArchiveRules : Fires(ArchiveRules[r], facts) /\ flag \in ArchiveRules[r].flags
    BY FlagIsOfARule
  <2>2. r = 5 /\ flag = "NO_BACKUP_MATCH"  BY <2>1 DEF ArchiveRules, Archive, Rule
  <2> QED  BY <2>1, <2>2, ArchiveFires
<1>7. \A flag \in rightsizing.blocking_flags : Fair(flag)
  <2> SUFFICES ASSUME NEW flag \in rightsizing.blocking_flags PROVE FALSE  OBVIOUS
  <2>1. PICK r \in DOMAIN RightsizingRules : Fires(RightsizingRules[r], facts) /\ flag \in RightsizingRules[r].flags
    BY FlagIsOfARule
  <2>2. r = 7  BY <2>1 DEF RightsizingRules, Rightsizing, Rule
  <2> QED  BY <2>1, <2>2, RightsizingFires
<1>8. \A flag \in drTier.blocking_flags : Fair(flag)
  <2> TAKE flag \in drTier.blocking_flags
  <2>1. PICK r \in DOMAIN DrTierRules : Fires(DrTierRules[r], facts) /\ flag \in DrTierRules[r].flags
    BY FlagIsOfARule
  <2>2. r = 7 /\ flag = "NO_BACKUP_MATCH"  BY <2>1 DEF DrTierRules, DrTier, Rule
  <2> QED  BY <2>1, <2>2, DrTierFires
<1> HIDE DEF migration, archive, rightsizing, drTier, facts, Fair
<1>9. k = 1 \/ k = 2 \/ k = 3 \/ k = 4  OBVIOUS
<1>10. \A flag \in EvaluatePolicy(w)[k].blocking_flags : Fair(flag)  BY <1>1, <1>5, <1>6, <1>7, <1>8, <1>9
<1>11. ScoreAllMotions(w, f)[k].motion = MotionOrder[k] /\ EvaluatePolicy(w)[k].motion = MotionOrder[k]
  BY <1>1, <1>3, <1>9 DEF ScoreAllMotions, MotionOrder
<1>12. /\ ScoreAllMotions(w, f)[k].score = EvaluatePolicy(w)[k].score
       /\ ScoreAllMotions(w, f)[k].allocation_only = EvaluatePolicy(w)[k].allocation_only
  <2>1. /\ ScoreAllMotions(w, f)[1].score = migration.score
        /\ ScoreAllMotions(w, f)[2].score = archive.score
        /\ ScoreAllMotions(w, f)[3].score = rightsizing.score
        /\ ScoreAllMotions(w, f)[4].score = drTier.score
    BY <1>2 DEF ScoreAllMotions
  <2>2. /\ ScoreAllMotions(w, f)[1].allocation_only = migration.allocation_only
        /\ ScoreAllMotions(w, f)[2].allocation_only = archive.allocation_only
        /\ ScoreAllMotions(w, f)[3].allocation_only = rightsizing.allocation_only
        /\ ScoreAllMotions(w, f)[4].allocation_only = drTier.allocation_only
    BY <1>2 DEF ScoreAllMotions
  <2>3. /\ EvaluatePolicy(w)[1] = migration /\ EvaluatePolicy(w)[2] = archive
        /\ EvaluatePolicy(w)[3] = rightsizing /\ EvaluatePolicy(w)[4] = drTier
    BY <1>1
  <2> QED  BY <1>9, <2>1, <2>2, <2>3
<1>13. /\ EvaluatePolicy(w)[k].allocation_only \in BOOLEAN
       /\ EvaluatePolicy(w)[k].allocation_only => EvaluatePolicy(w)[k].motion = "RIGHTSIZING_REVIEW"
  <2>1. /\ EvaluatePolicy(w)[1] = migration /\ EvaluatePolicy(w)[2] = archive
        /\ EvaluatePolicy(w)[3] = rightsizing /\ EvaluatePolicy(w)[4] = drTier
    BY <1>1
  <2>2. migration.allocation_only \in BOOLEAN /\ ~migration.allocation_only  BY <1>2
  <2>3. archive.allocation_only \in BOOLEAN /\ ~archive.allocation_only  BY <1>2
  <2>4. drTier.allocation_only \in BOOLEAN /\ ~drTier.allocation_only  BY <1>2
  <2>5. rightsizing.allocation_only \in BOOLEAN  BY <1>2, <1>4
  <2> QED  BY <1>3, <1>9, <2>1, <2>2, <2>3, <2>4, <2>5
<1> QED  BY <1>10, <1>11, <1>12, <1>13 DEF Fair

LEMMA SameWinner ==
  ASSUME NEW a, NEW b, DOMAIN a = 1..4, DOMAIN b = 1..4,
         \A k \in 1..4 : a[k].score \in 0..100 /\ b[k].score = a[k].score
  PROVE  \E k \in 1..4 : ChooseWinner(a) = a[k] /\ ChooseWinner(b) = b[k]
<1>1. PICK k \in 1..4 : /\ ChooseWinner(a) = a[k]
                        /\ \A m \in 1..4 : \/ a[k].score > a[m].score
                                           \/ a[k].score = a[m].score /\ k <= m
  BY OneWins
<1>2. PICK l \in 1..4 : /\ ChooseWinner(b) = b[l]
                        /\ \A m \in 1..4 : \/ b[l].score > b[m].score
                                           \/ b[l].score = b[m].score /\ l <= m
  <2>1. \A m \in 1..4 : b[m].score \in 0..100  OBVIOUS
  <2> QED  BY <2>1, OneWins
<1>3. /\ a[k].score > a[l].score \/ (a[k].score = a[l].score /\ k <= l)
      /\ a[l].score > a[k].score \/ (a[l].score = a[k].score /\ l <= k)
  BY <1>1, <1>2
<1>4. a[k].score \in 0..100 /\ a[l].score \in 0..100  OBVIOUS
<1>5. \A x, y \in 0..100 : /\ x > y \/ (x = y /\ k <= l)
                           /\ y > x \/ (y = x /\ l <= k)
                           => k = l
  OBVIOUS
<1> QED  BY <1>1, <1>2, <1>3, <1>4, <1>5

(* The winners stand for the same motion and are as well supported.          *)
LEMMA ScoredAlike ==
  ASSUME NEW w, Plain(w), NEW f, f = DeriveFeatures(w), NEW k \in 1..4,
         NEW before, before = ScoreAllMotions(w, f)[k], NEW now, now = EvaluatePolicy(w)[k]
  PROVE  /\ ScoredFlags(w, f, before) \ {"POWERED_OFF_NOT_MIGRATION_CANDIDATE"}
              = BlockingFlags(w, now) \ (Doubts \cup {"POWERED_OFF_NOT_MIGRATION_CANDIDATE"})
         /\ w.status \notin Doubts => ScoredConfidence(w, f, before) = Confidence(w, now)
<1>1. /\ before.motion = now.motion /\ before.score = now.score
      /\ before.allocation_only = now.allocation_only
      /\ now.allocation_only => now.motion = "RIGHTSIZING_REVIEW"
      /\ \A flag \in now.blocking_flags :
           \/ flag = "NO_BACKUP_MATCH" /\ w.backup = NoRow
           \/ flag = "SNAPSHOT_PRESENT" /\ SnapshotPresent(w)
  BY MotionAgrees
<1>2. /\ f.change_rate_pct = ChangeRatePct(w) /\ f.has_recent_backup = HasRecentBackup(w)
      /\ f.stale_backup = StaleBackup(w) /\ f.snapshot_present = SnapshotPresent(w)
  BY FeaturesAgree
<1>3. ~Present(CpuP95(w)) /\ ~Present(MemoryP95(w))  BY PlainFacts DEF Present
<1>4. AllocationOnly(now) <=> before.allocation_only  BY <1>1 DEF AllocationOnly
<1>5. ScoredEnough(w, f, before) <=> HasEnoughMetrics(w, now)
  BY <1>1, <1>2, <1>3 DEF ScoredEnough, HasEnoughMetrics
<1>6. w.status \notin Doubts => ScoredConfidence(w, f, before) = Confidence(w, now)
  BY <1>4, <1>5 DEF ScoredConfidence, Confidence, Doubts
<1> DEFINE off == {"POWERED_OFF_NOT_MIGRATION_CANDIDATE"}
<1>7. ASSUME NEW flag \in ScoredFlags(w, f, before) \ off PROVE flag \in BlockingFlags(w, now) \ (Doubts \cup off)
  BY <1>2, <1>4 DEF ScoredFlags, BlockingFlags, Doubts
<1>8. ASSUME NEW flag \in BlockingFlags(w, now) \ (Doubts \cup off) PROVE flag \in ScoredFlags(w, f, before) \ off
  BY <1>1, <1>2, <1>4 DEF ScoredFlags, BlockingFlags, Doubts
<1> QED  BY <1>6, <1>7, <1>8

(* Without overrides and loose names, the older join finds the same row.     *)
LEMMA JoinIsMatch ==
  ASSUME NEW backups, NEW row, Match(backups, <<>>, row).strategy # "controlled_relaxed_name"
  PROVE  /\ Join(backups, row).backup = Match(backups, <<>>, row).backup
         /\ Join(backups, row).matched_by = Match(backups, <<>>, row).matched_by
<1>1. OverridesFor(<<>>, row) = {}  BY DEF OverridesFor, Having
<1> DEFINE m == Match(backups, <<>>, row)
           uuids == Having(backups, "uuid", row.uuid)
           names == Having(backups, "name", row.name)
<1>2. \/ uuids # {} /\ m = ByUuid(uuids, names)
      \/ uuids = {} /\ names # {} /\ m = ByName(names)
      \/ uuids = {} /\ names = {} /\ m = NoMatch
  <2>1. \A relaxed : ByRelaxedName(relaxed).strategy = "controlled_relaxed_name"  BY DEF ByRelaxedName
  <2> QED  BY <1>1, <2>1, MatchIsOneOf
<1>3. Join(backups, row)
        = IF uuids # {} THEN [backup |-> FirstByRow(uuids), matched_by |-> "UUID"]
          ELSE IF names # {} THEN [backup |-> FirstByRow(names), matched_by |-> "NAME"]
          ELSE [backup |-> NoBackup, matched_by |-> "NONE"]
  BY DEF Join
<1> HIDE DEF m, uuids, names
<1>4. Join(backups, row).backup = m.backup /\ Join(backups, row).matched_by = m.matched_by
  BY <1>2, <1>3 DEF ByUuid, ByName, NoMatch
<1> QED  BY <1>4 DEF m

Joined(i) == Join(estate.backups, estate.inventory[i])

Read(i) == Workload(i, workloads[i])

Older(i) == [Read(i) EXCEPT !.backup = BackupRow(Joined(i).backup), !.matched_by = Joined(i).matched_by]

OffFlag == {"POWERED_OFF_NOT_MIGRATION_CANDIDATE"}

(* What both engines say of row i.                                           *)
AgreeOn(i) ==
  /\ Joined(i).backup = workloads[i].backup /\ Joined(i).matched_by = workloads[i].matched_by
  /\ \A k \in DOMAIN MotionOrder :
       /\ ScoreAllMotions(Older(i), DeriveFeatures(Older(i)))[k].score = EvaluatePolicy(Read(i))[k].score
       /\ ScoreAllMotions(Older(i), DeriveFeatures(Older(i)))[k].allocation_only
            = EvaluatePolicy(Read(i))[k].allocation_only
  /\ ScoreJoinedWorkload(Older(i)).blocking_flags \ OffFlag = assessed[i].blocking_flags \ (Doubts \cup OffFlag)
  /\ workloads[i].status \notin Doubts => ScoreJoinedWorkload(Older(i)).confidence = assessed[i].confidence

LEMMA SameWorkload ==
  ASSUME Traced, NEW i \in DOMAIN assessed, ReadByBoth(i)
  PROVE  /\ Joined(i).backup = workloads[i].backup /\ Joined(i).matched_by = workloads[i].matched_by
         /\ Older(i) = Read(i) /\ Plain(Read(i)) /\ Read(i).status = workloads[i].status
         /\ assessed[i] = Assessment(Read(i))
<1>1. i \in DOMAIN workloads /\ workloads[i] = Found(i) /\ assessed[i] = Assessed(i)
  <2>1. Len(workloads) \in Nat /\ DOMAIN workloads = 1..Len(workloads)  BY AllFound DEF Traced
  <2>2. Len(assessed) \in Nat /\ DOMAIN assessed = 1..Len(assessed)  BY TracedJudged DEF RowsJudged
  <2>3. Len(assessed) <= Len(workloads) /\ assessed[i] = Assessed(i)  BY DEF Traced, RowsAssessed
  <2>4. i \in DOMAIN workloads  BY <2>1, <2>2, <2>3
  <2> QED  BY <2>3, <2>4 DEF Traced, RowsResolved
<1> DEFINE m == Match(estate.backups, <<>>, estate.inventory[i])
<1>2. /\ workloads[i].backup = m.backup /\ workloads[i].matched_by = m.matched_by
      /\ m.strategy # "controlled_relaxed_name"
  BY <1>1, ResolveIs DEF Found, ReadByBoth
<1>3. Joined(i).backup = workloads[i].backup /\ Joined(i).matched_by = workloads[i].matched_by
  BY <1>2, JoinIsMatch DEF Joined
<1>4. Read(i) = [inventory |-> estate.inventory[i], backup |-> BackupRow(Joined(i).backup),
                 samples |-> SamplesOf(estate.inventory[i]), matched_by |-> Joined(i).matched_by,
                 status |-> workloads[i].status]
  BY <1>3 DEF Read, Workload
<1>5. Older(i) = Read(i)
  <2> DEFINE r == Read(i)
             Fields == {"inventory", "backup", "samples", "matched_by", "status"}
  <2>1. /\ r = [field \in Fields |-> r[field]]
        /\ r.backup = BackupRow(Joined(i).backup) /\ r.matched_by = Joined(i).matched_by
    BY <1>4
  <2> HIDE DEF r
  <2>2. [r EXCEPT !.backup = r.backup, !.matched_by = r.matched_by] = r  BY <2>1
  <2> QED  BY <2>1, <2>2 DEF Older, r
<1>6. Plain(Read(i)) /\ Read(i).status = workloads[i].status
  BY <1>4 DEF ReadByBoth, Plain, Read
<1> QED  BY <1>1, <1>3, <1>5, <1>6 DEF Assessed, Read

LEMMA RowAgrees ==
  ASSUME Traced, NEW i \in DOMAIN assessed, ReadByBoth(i)
  PROVE  AgreeOn(i)
<1> DEFINE w == Read(i)
           f == DeriveFeatures(w)
           before == ScoreAllMotions(w, f)
           now == EvaluatePolicy(w)
<1>1. /\ Joined(i).backup = workloads[i].backup /\ Joined(i).matched_by = workloads[i].matched_by
      /\ Older(i) = w /\ Plain(w) /\ w.status = workloads[i].status /\ assessed[i] = Assessment(w)
  BY SameWorkload
<1> HIDE DEF w, f
<1>2. \A k \in 1..4 : before[k].score = now[k].score /\ before[k].allocation_only = now[k].allocation_only
  BY <1>1, MotionAgrees DEF f
<1>3. PICK k \in 1..4 : ChooseWinner(now) = now[k] /\ ChooseWinner(before) = before[k]
  <2>1. DOMAIN before = 1..4  BY DEF ScoreAllMotions
  <2>2. \A k \in 1..4 : DOMAIN now = 1..4 /\ now[k].score \in 0..100  BY PolicyAssesses DEF IsAssessment
  <2>3. 1 \in 1..4  OBVIOUS
  <2> HIDE DEF before, now
  <2> QED  BY <1>2, <2>1, <2>2, <2>3, SameWinner
<1>4. /\ ScoredFlags(w, f, before[k]) \ OffFlag = BlockingFlags(w, now[k]) \ (Doubts \cup OffFlag)
      /\ w.status \notin Doubts => ScoredConfidence(w, f, before[k]) = Confidence(w, now[k])
  BY <1>1, ScoredAlike DEF f, OffFlag
<1>5. assessed[i].blocking_flags = BlockingFlags(w, now[k]) /\ assessed[i].confidence = Confidence(w, now[k])
  BY <1>1, <1>3 DEF Assessment
<1>6. /\ ScoreJoinedWorkload(w).blocking_flags = ScoredFlags(w, f, before[k])
      /\ ScoreJoinedWorkload(w).confidence = ScoredConfidence(w, f, before[k])
  BY <1>3 DEF ScoreJoinedWorkload, f
<1>7. DOMAIN MotionOrder = 1..4  BY DEF MotionOrder
<1>8. \A l \in DOMAIN MotionOrder :
        /\ ScoreAllMotions(Older(i), DeriveFeatures(Older(i)))[l].score = EvaluatePolicy(w)[l].score
        /\ ScoreAllMotions(Older(i), DeriveFeatures(Older(i)))[l].allocation_only = EvaluatePolicy(w)[l].allocation_only
  BY <1>1, <1>2, <1>7 DEF f
<1> HIDE DEF before, now
<1>9. /\ ScoreJoinedWorkload(Older(i)).blocking_flags \ OffFlag
           = assessed[i].blocking_flags \ (Doubts \cup OffFlag)
      /\ workloads[i].status \notin Doubts
           => ScoreJoinedWorkload(Older(i)).confidence = assessed[i].confidence
  BY <1>1, <1>4, <1>5, <1>6
<1> QED  BY <1>1, <1>8, <1>9 DEF AgreeOn, w

LEMMA EnginesAgree == Traced => TestedEngineAgrees
<1> SUFFICES ASSUME Traced PROVE TestedEngineAgrees  OBVIOUS
<1>1. \A i \in DOMAIN assessed : phase = "assess" /\ ReadByBoth(i) => AgreeOn(i)  BY RowAgrees
<1> QED  BY <1>1, Zenon DEF TestedEngineAgrees, AgreeOn, Older, Read, Joined, OffFlag, Doubts

(* TestedEngineAgrees of the specification: for all exports, overrides,      *)
(* utilizations and thresholds, the rules that the repository's tests run    *)
(* say what the kernel says wherever both read the same.                     *)
THEOREM EnginesHold == Spec => []TestedEngineAgrees
BY AlwaysTraced, EnginesAgree, PTL

=============================================================================
