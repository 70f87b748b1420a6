--------------------------- MODULE GpuRack_proof ---------------------------
(* What holds of a rack's labels and of a run's files for all nodes, all     *)
(* evidence, policies and inventories, and however the evidence changes.     *)
EXTENDS GpuRack, FiniteSetTheorems, FunctionTheorems, SequenceTheorems, NaturalsInduction, WellFoundedInduction, TLAPS

-----------------------------------------------------------------------------
(* Least and greatest elements, and finite sets of positions.                *)
LEMMA NatMin ==
  ASSUME NEW T \in SUBSET Nat, T # {}
  PROVE  \E n \in T : \A m \in T : n <= m
<1> DEFINE R == {ss \in Nat \X Nat : ss[1] < ss[2]}
<1>1. R = OpToRel(<, Nat)  BY Zenon DEF OpToRel
<1>2. IsWellFoundedOn(R, Nat)  BY <1>1, NatLessThanWellFounded
<1> HIDE DEF R
<1>3. PICK n \in T : \A m \in T : <<m, n>> \notin R  BY <1>2, WFMin
<1>4. \A m \in T : ~(m < n)  BY <1>3 DEF R
<1> QED  BY <1>4

LEMMA MinOfNats ==
  ASSUME NEW T \in SUBSET Nat, T # {}
  PROVE  Min(T) \in T /\ \A m \in T : Min(T) <= m
<1>1. \E n \in T : \A m \in T : n <= m  BY NatMin
<1> QED  BY <1>1 DEF Min

(* The greatest element of a finite set has the most elements below it.      *)
LEMMA MaxOfFinite ==
  ASSUME NEW T \in SUBSET Int, IsFiniteSet(T), T # {}
  PROVE  Max(T) \in T /\ \A m \in T : m <= Max(T)
<1> DEFINE UpTo(t) == {u \in T : u <= t}
           below(t) == Cardinality(UpTo(t))
           all == Cardinality(T)
           Others == {k \in Nat : \E t \in T : k = all - below(t)}
<1>1. ASSUME NEW t \in T
      PROVE  IsFiniteSet(UpTo(t)) /\ below(t) \in Nat /\ below(t) <= all
  <2>1. UpTo(t) \in SUBSET T  OBVIOUS
  <2> HIDE DEF UpTo
  <2> QED  BY <2>1, FS_Subset, FS_CardinalityType
<1>2. all \in Nat  BY FS_CardinalityType
<1>a. ASSUME NEW t \in T, NEW m \in T, t < m
      PROVE  UpTo(t) \in SUBSET UpTo(m) /\ m \in UpTo(m) /\ m \notin UpTo(t)
  <2>1. t \in Int /\ m \in Int /\ \A u \in T : u \in Int  OBVIOUS
  <2>2. \A u \in UpTo(t) : u \in UpTo(m)  BY <2>1, <1>a
  <2>3. m \in UpTo(m) /\ ~(m <= t)  BY <2>1, <1>a
  <2> QED  BY <2>2, <2>3
<1> HIDE DEF UpTo, all
<1>b. ASSUME NEW t \in T, NEW m \in T, t < m PROVE below(t) < below(m)
  <2>1. UpTo(t) \in SUBSET UpTo(m) /\ UpTo(t) # UpTo(m)  BY <1>a, <1>b
  <2> QED  BY <1>1, <2>1, FS_Subset
<1> HIDE DEF below
<1>3. Others \in SUBSET Nat /\ Others # {}
  <2>1. PICK t \in T : TRUE  OBVIOUS
  <2>2. all - below(t) \in Nat  BY <1>1, <1>2
  <2> QED  BY <2>2
<1>4. PICK least \in Others : \A other \in Others : least <= other  BY <1>3, NatMin
<1>5. PICK top \in T : least = all - below(top)  OBVIOUS
<1>6. ASSUME NEW m \in T PROVE m <= top
  <2> SUFFICES ASSUME top < m PROVE FALSE  OBVIOUS
  <2>1. below(top) < below(m)  BY <1>b
  <2>2. all - below(m) \in Others  BY <1>1, <1>2
  <2>3. all - below(top) <= all - below(m)  BY <1>4, <1>5, <2>2
  <2> QED  BY <1>1, <1>2, <2>1, <2>3
<1>7. \E x \in T : \A m \in T : m <= x  BY <1>6
<1>8. \E x \in T : \A m \in T : x >= m  BY <1>7
<1> QED  BY <1>8 DEF Max

LEMMA PositionsAreFinite ==
  ASSUME NEW n \in Nat, NEW T \in SUBSET (1..n)
  PROVE  IsFiniteSet(T) /\ Cardinality(T) \in Nat /\ Cardinality(T) <= n /\ (Cardinality(T) = 0 <=> T = {})
<1>1. IsFiniteSet(1..n) /\ Cardinality(1..n) = n  BY FS_Interval
<1>2. IsFiniteSet(T) /\ Cardinality(T) <= n  BY <1>1, FS_Subset
<1> QED  BY <1>2, FS_CardinalityType, FS_EmptySet

LEMMA FirstIsFirst ==
  ASSUME NEW n \in Nat, NEW T \in SUBSET (1..n), T # {}
  PROVE  Min(T) \in T /\ \A m \in T : Min(T) <= m
<1> QED  BY MinOfNats, T \in SUBSET Nat

LEMMA ImageIsFinite ==
  ASSUME NEW S, IsFiniteSet(S), NEW f
  PROVE  IsFiniteSet({f[x] : x \in S})
<1> DEFINE T == {f[x] : x \in S}
           g == [x \in S |-> f[x]]
<1>1. g \in Surjection(S, T)  BY DEF Surjection
<1> HIDE DEF g, T
<1> QED  BY <1>1, FS_Surjection DEF T

-----------------------------------------------------------------------------
(* What the parsers' verdicts tell of the files.                             *)
LEMMA SinglePasses ==
  ASSUME NEW file \in FilesOf.single, Single(file).status = "PASS"
  PROVE  ShownAlone(file)
<1>1. file # Absent /\ file # Unreadable
  BY DEF Single, SingleStatus, NoRun, Some
<1>2. file \in [timeout : BOOLEAN, failed : BOOLEAN, samples : Seq([large : BOOLEAN, bw : Maybe(Int), wrong : BOOLEAN])]
  BY <1>1 DEF FilesOf, FileOf
<1>3. SingleStatus(file) = "PASS"  BY <1>1 DEF Single
<1> QED  BY <1>1, <1>2, <1>3 DEF SingleStatus, Some, Eligible, ShownAlone

PairwiseRecord == [nodes : NodeSets, bw : Maybe(Int), timeout : BOOLEAN]

PairwiseFiles == Seq(PairwiseRecord)

(* The records in which the runs with other nodes are read.                  *)
LEMMA PairwiseIsRead ==
  ASSUME NEW file \in FilesOf.pairwise
  PROVE  (IF file \in {Absent, Unreadable} THEN <<>> ELSE file) \in PairwiseFiles
<1>1. file \in {Absent, Unreadable} \/ file \in PairwiseFiles  BY DEF FilesOf, FileOf, PairwiseFiles, PairwiseRecord
<1>2. <<>> \in PairwiseFiles  BY DEF PairwiseFiles
<1> QED  BY <1>1, <1>2

(* The records of a kind are finitely many, and so are the nodes in them.    *)
Peers(read, T, n) == (UNION {read[k].nodes : k \in T}) \ {n}

LEMMA RecordsAreFinite ==
  ASSUME NEW read \in PairwiseFiles, NEW T \in SUBSET DOMAIN read, NEW n
  PROVE  /\ Cardinality(T) \in Nat /\ (Cardinality(T) = 0 <=> T = {})
         /\ Cardinality(Peers(read, T, n)) \in Nat /\ (Cardinality(Peers(read, T, n)) = 0 <=> Peers(read, T, n) = {})
<1> DEFINE nodes == [k \in DOMAIN read |-> read[k].nodes]
           sets == {nodes[k] : k \in T}
           peers == (UNION sets) \ {n}
<1>1. DOMAIN read = 1..Len(read) /\ Len(read) \in Nat  BY DEF PairwiseFiles
<1>2. ASSUME NEW k \in DOMAIN read PROVE IsFiniteSet(read[k].nodes)
  <2>1. read[k] \in PairwiseRecord  BY DEF PairwiseFiles
  <2> QED  BY <2>1 DEF PairwiseRecord, NodeSets
<1>3. IsFiniteSet(T) /\ Cardinality(T) \in Nat /\ (Cardinality(T) = 0 <=> T = {})  BY <1>1, PositionsAreFinite
<1>4. \A U \in sets : IsFiniteSet(U)  BY <1>2
<1>5. sets = {read[k].nodes : k \in T}  OBVIOUS
<1> HIDE DEF nodes
<1>6. IsFiniteSet(sets)  BY <1>3, ImageIsFinite
<1> HIDE DEF sets
<1>7. IsFiniteSet(UNION sets)  BY <1>4, <1>6, FS_UNION
<1>8. IsFiniteSet(peers)  BY <1>7, FS_Subset
<1>9. Cardinality(peers) \in Nat /\ (Cardinality(peers) = 0 <=> peers = {})  BY <1>8, FS_CardinalityType, FS_EmptySet
<1> QED  BY <1>3, <1>5, <1>8, <1>9 DEF Peers

Read(file) == IF file \in {Absent, Unreadable} THEN <<>> ELSE file

Late(file) == {k \in DOMAIN Read(file) : TimedOut(Read(file)[k])}

Weak(file, minimum) == {k \in DOMAIN Read(file) : IsWeak(Read(file)[k], minimum)}

LEMMA PairwiseCounts ==
  ASSUME NEW file \in FilesOf.pairwise, NEW n, NEW minimum \in Maybe(Int)
  PROVE  LET found == Pairwise(file, n, minimum)
         IN  /\ found.present = (file # Absent)
             /\ found.timeouts \in Nat /\ (found.timeouts = 0 <=> Late(file) = {})
             /\ found.weakPeers \in Nat /\ (found.weakPeers = 0 <=> Peers(Read(file), Weak(file, minimum), n) = {})
<1> DEFINE found == Pairwise(file, n, minimum)
<1>1. Read(file) \in PairwiseFiles  BY PairwiseIsRead DEF Read
<1>2. Late(file) \in SUBSET DOMAIN Read(file) /\ Weak(file, minimum) \in SUBSET DOMAIN Read(file)  BY DEF Late, Weak
<1>3. found.timeouts = Cardinality(Late(file))  BY DEF Pairwise, Read, Late
<1>4. found.weakPeers = Cardinality(Peers(Read(file), Weak(file, minimum), n))  BY DEF Pairwise, Read, Weak, Peers
<1>5. found.present = (file # Absent)  BY DEF Pairwise
<1> HIDE DEF found
<1>6. found.timeouts \in Nat /\ (found.timeouts = 0 <=> Late(file) = {})  BY <1>1, <1>2, <1>3, RecordsAreFinite
<1>7. found.weakPeers \in Nat /\ (found.weakPeers = 0 <=> Peers(Read(file), Weak(file, minimum), n) = {})
  <2> DEFINE read == Read(file)
             weak == Weak(file, minimum)
  <2>1. read \in PairwiseFiles /\ weak \in SUBSET DOMAIN read  BY <1>1, <1>2
  <2>2. found.weakPeers = Cardinality(Peers(read, weak, n))  BY <1>4
  <2> HIDE DEF read, weak
  <2>3. Cardinality(Peers(read, weak, n)) \in Nat /\ (Cardinality(Peers(read, weak, n)) = 0 <=> Peers(read, weak, n) = {})
    BY ONLY <2>1, RecordsAreFinite
  <2>4. found.weakPeers \in Nat /\ (found.weakPeers = 0 <=> Peers(read, weak, n) = {})  BY <2>2, <2>3
  <2> QED  BY <2>4 DEF read, weak
<1> QED  BY <1>5, <1>6, <1>7 DEF found

LEMMA PairwisePasses ==
  ASSUME NEW file \in FilesOf.pairwise, NEW n, NEW minimum \in Maybe(Int), Pairwise(file, n, minimum).status = "PASS"
  PROVE  file \notin {Absent, Unreadable, <<>>}
<1> QED  BY DEF Pairwise

LEMMA PairwiseHeld ==
  ASSUME NEW file \in FilesOf.pairwise, NEW n, NEW minimum \in Maybe(Int),
         Pairwise(file, n, minimum).timeouts = 0, Pairwise(file, n, minimum).weakPeers = 0
  PROVE  file \notin {Absent, Unreadable} =>
           \A k \in DOMAIN file :
             /\ ~file[k].timeout
             /\ file[k].bw # None /\ minimum # None /\ file[k].nodes \ {n} # {} => file[k].bw >= minimum
<1> SUFFICES ASSUME file \notin {Absent, Unreadable}, NEW k \in DOMAIN file
             PROVE  /\ ~file[k].timeout
                    /\ file[k].bw # None /\ minimum # None /\ file[k].nodes \ {n} # {} => file[k].bw >= minimum
  OBVIOUS
<1>0. Read(file) = file  BY DEF Read
<1>1. file \in PairwiseFiles  BY PairwiseIsRead
<1>2. DOMAIN file = 1..Len(file) /\ Len(file) \in Nat  BY <1>1 DEF PairwiseFiles
<1>3. file[k] \in PairwiseRecord  BY <1>1 DEF PairwiseFiles
<1>5. Late(file) = {} /\ Peers(Read(file), Weak(file, minimum), n) = {}  BY PairwiseCounts
<1>6. ~file[k].timeout  BY <1>0, <1>5 DEF Late, TimedOut
<1>7. ASSUME file[k].bw # None, minimum # None, file[k].nodes \ {n} # {} PROVE file[k].bw >= minimum
  <2>1. k \notin Weak(file, minimum)
    <3> SUFFICES ASSUME k \in Weak(file, minimum) PROVE FALSE  OBVIOUS
    <3>1. PICK peer \in file[k].nodes \ {n} : TRUE  BY <1>7
    <3>a. file[k].nodes \in {file[j].nodes : j \in Weak(file, minimum)}  OBVIOUS
    <3>b. peer \in file[k].nodes /\ peer \notin {n}  BY <3>1
    <3>c. peer \in UNION {file[j].nodes : j \in Weak(file, minimum)}  BY <3>a, <3>b
    <3>2. peer \in Peers(file, Weak(file, minimum), n)  BY <3>b, <3>c DEF Peers
    <3> QED  BY <1>0, <1>5, <3>2
  <2>2. file[k].bw \in Int /\ minimum \in Int  BY <1>3, <1>7 DEF Maybe, PairwiseRecord
  <2> QED  BY <1>0, <1>7, <2>1, <2>2 DEF Weak, IsWeak
<1> QED  BY <1>6, <1>7

(* Topology, hardware and sensors.                                           *)
LEMMA TopologyCounts ==
  ASSUME NEW file \in FilesOf.topology, NEW weakPaths, NEW reviewPaths
  PROVE  LET found == Topology(file, weakPaths, reviewPaths)
         IN  /\ found.present = (file # Absent) /\ found.weak \in Nat /\ found.review \in Nat
             /\ found.weak = 0 /\ file \notin {Absent, Unreadable} =>
                  \A p \in DOMAIN file.paths : file.paths[p] \notin weakPaths \cap GpuLabels
<1> DEFINE paths == IF file \in {Absent, Unreadable} THEN <<>> ELSE file.paths
           Those(labels) == {k \in DOMAIN paths : paths[k] \in labels \cap GpuLabels}
           found == Topology(file, weakPaths, reviewPaths)
<1>1. paths \in Seq(STRING)
  <2>1. file \in {Absent, Unreadable} \/ file \in [matrix : BOOLEAN, paths : Seq(STRING), p2pMissing : BOOLEAN]  BY DEF FilesOf, FileOf
  <2>2. file \notin {Absent, Unreadable} => file.paths \in Seq(STRING)  BY <2>1
  <2>3. <<>> \in Seq(STRING)  OBVIOUS
  <2> QED  BY <2>2, <2>3
<1>2. DOMAIN paths = 1..Len(paths) /\ Len(paths) \in Nat  BY <1>1
<1>3. found.weak = Cardinality(Those(weakPaths)) /\ found.review = Cardinality(Those(reviewPaths))
      /\ found.present = (file # Absent)
  BY DEF Topology
<1>4. file \notin {Absent, Unreadable} => paths = file.paths  OBVIOUS
<1> HIDE DEF found, paths
<1>5. \A labels : Those(labels) \in SUBSET (1..Len(paths))  BY <1>2
<1>6. \A labels : (\A p \in DOMAIN paths : p \notin Those(labels)) => \A p \in DOMAIN paths : paths[p] \notin labels \cap GpuLabels
  OBVIOUS
<1> HIDE DEF Those
<1>7. \A labels : Cardinality(Those(labels)) \in Nat /\ (Cardinality(Those(labels)) = 0 <=> Those(labels) = {})
  BY <1>2, <1>5, PositionsAreFinite
<1>8. found.weak \in Nat /\ found.review \in Nat  BY <1>3, <1>7
<1>9. found.weak = 0 => \A p \in DOMAIN paths : paths[p] \notin weakPaths \cap GpuLabels
  BY <1>3, <1>6, <1>7
<1> QED  BY <1>3, <1>4, <1>8, <1>9 DEF found

LEMMA SmiCounts ==
  ASSUME NEW file \in FilesOf.smi
  PROVE  /\ Smi(file).present = (file # Absent)
         /\ Smi(file).count # None => file \notin {Absent, Unreadable} /\ Smi(file).count = Len(file.gpus)
         /\ file \notin {Absent, Unreadable} => Len(file.gpus) \in Nat
         /\ Smi(file).codes \subseteq {"NVIDIA_SMI_QUERY_PARSE_FAILED"}
<1>1. file \notin {Absent, Unreadable} =>
        file.gpus \in Seq([vbios : Maybe(STRING), mode : Maybe(STRING), retired : BOOLEAN, active : BOOLEAN])
  BY DEF FilesOf, FileOf
<1>2. file \notin {Absent, Unreadable} => Len(file.gpus) \in Nat  BY <1>1
<1>3. file \in {Absent, Unreadable} \/ Smi(file).count = Len(file.gpus)  BY DEF Smi
<1>4. file \in {Absent, Unreadable} => Smi(file).count = None  BY DEF Smi
<1>5. Smi(file).present = (file # Absent) /\ Smi(file).codes \subseteq {"NVIDIA_SMI_QUERY_PARSE_FAILED"}  BY DEF Smi, Codes
<1> QED  BY <1>2, <1>3, <1>4, <1>5

SensorRecord == [type : STRING, health : Maybe(STRING), reading : Maybe(Int), kept : BOOLEAN, redundancy : BOOLEAN]

LEMMA SensorsTell ==
  ASSUME NEW file \in FilesOf.bmc, NEW limit \in Int, file \notin {Absent, Unreadable}, NEW k \in DOMAIN file
  PROVE  /\ ~Bmc(file).critical => file[k].health # "critical"
         /\ ~(Bmc(file).hottest # None /\ Bmc(file).hottest >= limit) =>
              (file[k].type = "temperature" /\ Reading(file[k]) # None => file[k].reading < limit)
<1> DEFINE hot == {j \in DOMAIN file : file[j].type = "temperature"}
           read == [j \in DOMAIN file |-> Reading(file[j])]
           some == {read[j] : j \in hot}
           temperatures == some \ {None}
<1>1. file \in Seq(SensorRecord)  BY DEF FilesOf, FileOf, SensorRecord
<1>2. DOMAIN file = 1..Len(file) /\ Len(file) \in Nat  BY <1>1
<1>a. ASSUME NEW j \in DOMAIN file PROVE file[j].reading \in Maybe(Int)
  <2>1. file[j] \in SensorRecord  BY <1>1
  <2> QED  BY <2>1 DEF SensorRecord
<1>3. ~Bmc(file).critical => file[k].health # "critical"  BY DEF Bmc, Some
<1>4. some = {Reading(file[j]) : j \in hot}  OBVIOUS
<1>5. Bmc(file).hottest = IF temperatures = {} THEN None ELSE Max(temperatures)
  BY <1>4 DEF Bmc
<1>6. temperatures \in SUBSET Int  BY <1>a DEF Reading, Maybe
<1>7. IsFiniteSet(temperatures)
  <2>1. hot \in SUBSET (1..Len(file))  BY <1>2
  <2> HIDE DEF hot, read
  <2>2. IsFiniteSet(hot)  BY <1>2, <2>1, PositionsAreFinite
  <2>3. IsFiniteSet(some)  BY <2>2, ImageIsFinite
  <2> HIDE DEF some
  <2> QED  BY <2>3, FS_Subset
<1>8. ASSUME ~(Bmc(file).hottest # None /\ Bmc(file).hottest >= limit), file[k].type = "temperature", Reading(file[k]) # None
      PROVE  file[k].reading < limit
  <2>1. file[k].reading \in temperatures  BY <1>8 DEF Reading
  <2> HIDE DEF temperatures
  <2>2. Max(temperatures) \in temperatures /\ file[k].reading <= Max(temperatures)  BY <1>6, <1>7, <2>1, MaxOfFinite
  <2>3. Max(temperatures) \in Int /\ file[k].reading \in Int  BY <1>6, <2>1, <2>2
  <2>4. Max(temperatures) # None  BY <2>2 DEF temperatures
  <2>5. Bmc(file).hottest = Max(temperatures)  BY <1>5, <2>1
  <2>6. Max(temperatures) < limit  BY <1>8, <2>3, <2>4, <2>5
  <2> QED  BY <2>2, <2>3, <2>6
<1> QED  BY <1>3, <1>8
-----------------------------------------------------------------------------
(* What a status and a label take.                                           *)
Statuses == {"PASS", "REVIEW", "QUARANTINE", "INFERENCE_ONLY", "AVOID_MULTINODE"}

LEMMA StatusIsOne ==
  ASSUME NEW e, NEW blockers, NEW warnings, NEW policy
  PROVE  Status(e, blockers, warnings, policy) \in Statuses
BY DEF Status, Statuses

LEMMA MultinodeRole ==
  ASSUME NEW e, NEW status \in Statuses, NEW blockers, NEW reasons, NEW policy
  PROVE  /\ Roles(e, status, blockers, reasons, policy) \subseteq AllRoles
         /\ "multinode" \in Roles(e, status, blockers, reasons, policy)
              <=> status = "PASS" \/ (status = "REVIEW" /\ MultinodeSupported(e, blockers, policy))
<1>1. CASE status = "PASS"  BY <1>1 DEF Roles, Codes, AllRoles
<1>2. CASE status = "QUARANTINE"  BY <1>2 DEF Roles, Codes, AllRoles
<1>3. CASE status = "INFERENCE_ONLY"  BY <1>3 DEF Roles, Codes, AllRoles
<1>4. CASE status = "AVOID_MULTINODE"  BY <1>4 DEF Roles, Codes, AllRoles
<1>5. CASE status = "REVIEW"  BY <1>5 DEF Roles, ReviewRoles, Codes, AllRoles
<1> QED  BY <1>1, <1>2, <1>3, <1>4, <1>5 DEF Statuses

(* The evidence of a node as it is loaded, with counts that are numbers.     *)
Counted(e) == e.pairwise.timeouts \in Nat /\ e.pairwise.weakPeers \in Nat /\ e.topology.weak \in Nat

LEMMA LoadedIsCounted ==
  ASSUME NEW dir \in NodeFiles, NEW n, NEW policy, policy.minPairwise \in Maybe(Int)
  PROVE  Counted(Load(dir, n, policy)) /\ Load(dir, n, policy).node = n
<1>1. dir.pairwise \in FilesOf.pairwise /\ dir.topology \in FilesOf.topology  BY DEF NodeFiles
<1>2. Load(dir, n, policy).pairwise = Pairwise(dir.pairwise, n, policy.minPairwise)
      /\ Load(dir, n, policy).topology = Topology(dir.topology, policy.weakPaths, policy.reviewPaths)
      /\ Load(dir, n, policy).node = n
  BY DEF Load
<1>3. Pairwise(dir.pairwise, n, policy.minPairwise).timeouts \in Nat
      /\ Pairwise(dir.pairwise, n, policy.minPairwise).weakPeers \in Nat
  BY <1>1, PairwiseCounts
<1>4. Topology(dir.topology, policy.weakPaths, policy.reviewPaths).weak \in Nat  BY <1>1, TopologyCounts
<1> QED  BY <1>2, <1>3, <1>4 DEF Counted

(* Without a pass, the label comes of a review only, and both chains ask for *)
(* the same of the evidence.                                                 *)
LEMMA LabelTakes ==
  ASSUME NEW e, Counted(e), NEW stats, NEW policy, NEW inventory,
         "multinode" \in LET blockers == Blockers(e, policy, inventory)
                             warnings == Warnings(e, stats, policy, inventory)
                         IN  Roles(e, Status(e, blockers, warnings, policy), blockers,
                                   Reasons(e, stats, policy, inventory), policy)
  PROVE  /\ Blockers(e, policy, inventory) \cap QuarantineBlockers = {}
         /\ e.single.status = "PASS"
         /\ e.pairwise.timeouts = 0 /\ e.pairwise.weakPeers = 0 /\ e.topology.weak = 0
         /\ "pairwise" \in policy.required => e.pairwise.status = "PASS"
         /\ e.smi.count # None
<1> DEFINE blockers == Blockers(e, policy, inventory)
           warnings == Warnings(e, stats, policy, inventory)
           status == Status(e, blockers, warnings, policy)
<1>1. status \in Statuses  BY StatusIsOne
<1>2. "GPU_COUNT_MISSING" \notin warnings => e.smi.count # None  BY DEF Warnings, HardwareWarnings, Codes
<1> HIDE DEF blockers, warnings
<1>3. status = "PASS" \/ (status = "REVIEW" /\ MultinodeSupported(e, blockers, policy))
  BY <1>1, MultinodeRole DEF blockers, warnings
<1>4. blockers \cap QuarantineBlockers = {}  BY <1>3 DEF Status
<1>5. CASE status = "PASS"
  <2>1. e.single.status = "PASS" /\ ~MultinodeRisk(e, warnings, policy)
        /\ (e.pairwise.status = "PASS" \/ "pairwise" \notin policy.required) /\ warnings = {}
    BY <1>5 DEF Status
  <2>2. e.pairwise.timeouts = 0 /\ e.pairwise.weakPeers = 0 /\ e.topology.weak = 0
    BY <2>1 DEF MultinodeRisk, Counted
  <2> QED  BY <1>2, <1>4, <2>1, <2>2 DEF blockers
<1>6. CASE MultinodeSupported(e, blockers, policy)
  BY <1>4, <1>6 DEF MultinodeSupported, SingleNodeSupported, InferenceSupported, blockers
<1> QED  BY <1>3, <1>5, <1>6

(* A text that is the label's own is on a node for that role only.           *)
LEMMA LabelIsOfTheRole ==
  ASSUME rack \in Racks, TextIsItsOwn, NEW e, NEW stats
  PROVE  LET blockers == Blockers(e, rack.policy, rack.inventory)
             warnings == Warnings(e, stats, rack.policy, rack.inventory)
             roles == Roles(e, Status(e, blockers, warnings, rack.policy), blockers,
                            Reasons(e, stats, rack.policy, rack.inventory), rack.policy)
         IN  rack.policy.names["multinode"] \in Result(e, stats, rack.policy, rack.inventory).labels
               <=> "multinode" \in roles
<1> DEFINE blockers == Blockers(e, rack.policy, rack.inventory)
           warnings == Warnings(e, stats, rack.policy, rack.inventory)
           status == Status(e, blockers, warnings, rack.policy)
           roles == Roles(e, status, blockers, Reasons(e, stats, rack.policy, rack.inventory), rack.policy)
<1>1. roles \subseteq AllRoles  BY StatusIsOne, MultinodeRole
<1>2. Result(e, stats, rack.policy, rack.inventory).labels = {rack.policy.names[role] : role \in roles}  BY DEF Result
<1> HIDE DEF roles
<1> QED  BY <1>1, <1>2 DEF TextIsItsOwn, roles

LEMMA LabelIsEarned ==
  ASSUME rack \in Racks, TextIsItsOwn, NEW shown \in NodeFiles, NEW n \in Names, NEW stats,
         rack.policy.names["multinode"] \in Result(Load(shown, n, rack.policy), stats, rack.policy, rack.inventory).labels
  PROVE  /\ ShownAlone(shown.single) /\ ShownTogether(shown.pairwise, n)
         /\ ShownGpus(shown.smi, n) /\ ShownCool(shown.bmc)
         /\ shown.topology \notin {Absent, Unreadable} =>
              \A p \in DOMAIN shown.topology.paths : shown.topology.paths[p] \notin rack.policy.weakPaths \cap GpuLabels
<1> DEFINE policy == rack.policy
           inventory == rack.inventory
           e == Load(shown, n, policy)
           found == Pairwise(shown.pairwise, n, policy.minPairwise)
<1>1. policy.minPairwise \in Maybe(Int) /\ policy.criticalTemp \in Int  BY RacksAssumption
<1>2. Counted(e) /\ e.node = n  BY <1>1, LoadedIsCounted
<1>3. shown.single \in FilesOf.single /\ shown.pairwise \in FilesOf.pairwise /\ shown.topology \in FilesOf.topology
      /\ shown.smi \in FilesOf.smi /\ shown.bmc \in FilesOf.bmc
  BY DEF NodeFiles
<1>4. e.single = Single(shown.single) /\ e.pairwise = found /\ e.smi = Smi(shown.smi) /\ e.bmc = Bmc(shown.bmc)
      /\ e.topology = Topology(shown.topology, policy.weakPaths, policy.reviewPaths)
  BY DEF Load
<1> HIDE DEF e, found, policy, inventory
<1>5. /\ Blockers(e, policy, inventory) \cap QuarantineBlockers = {}
      /\ e.single.status = "PASS"
      /\ e.pairwise.timeouts = 0 /\ e.pairwise.weakPeers = 0 /\ e.topology.weak = 0
      /\ "pairwise" \in policy.required => e.pairwise.status = "PASS"
      /\ e.smi.count # None
  BY <1>2, LabelIsOfTheRole, LabelTakes DEF e, policy, inventory
<1>6. ShownAlone(shown.single)  BY <1>3, <1>4, <1>5, SinglePasses
<1>7. ShownTogether(shown.pairwise, n)
  <2>1. "pairwise" \in policy.required => shown.pairwise \notin {Absent, Unreadable, <<>>}
    BY <1>1, <1>3, <1>4, <1>5, PairwisePasses DEF found
  <2>2. shown.pairwise \notin {Absent, Unreadable} =>
          \A k \in DOMAIN shown.pairwise :
            /\ ~shown.pairwise[k].timeout
            /\ shown.pairwise[k].bw # None /\ policy.minPairwise # None /\ shown.pairwise[k].nodes \ {n} # {} =>
                 shown.pairwise[k].bw >= policy.minPairwise
    BY <1>1, <1>3, <1>4, <1>5, PairwiseHeld DEF found
  <2> QED  BY <2>1, <2>2 DEF ShownTogether, policy
<1>8. ShownGpus(shown.smi, n)
  <2>1. shown.smi \notin {Absent, Unreadable} /\ e.smi.count = Len(shown.smi.gpus) /\ Len(shown.smi.gpus) \in Nat
    BY <1>3, <1>4, <1>5, SmiCounts
  <2>2. ~TooFew(e, inventory)  BY <1>5 DEF Blockers, HardwareBlockers, QuarantineBlockers, Codes
  <2>3. inventory # NoInventory => inventory.count \in Maybe(Int) /\ inventory.counts[n] \in Maybe(Int)
    BY RacksAssumption DEF inventory
  <2>4. ASSUME inventory # NoInventory,
               NEW stated \in {IF inventory.counts[n] = None THEN inventory.count ELSE inventory.counts[n]} \ {None}
        PROVE  Len(shown.smi.gpus) >= stated
    <3>1. Expected(e, inventory) = stated  BY <1>2, <2>4 DEF Expected
    <3>2. stated \in Int /\ stated # None  BY <2>3, <2>4 DEF Maybe
    <3> QED  BY <1>5, <2>1, <2>2, <3>1, <3>2 DEF TooFew
  <2> QED  BY <2>1, <2>4 DEF ShownGpus, inventory
<1>9. ShownCool(shown.bmc)
  <2>1. ~(e.bmc.critical /\ policy.criticalBlocks) /\ ~TooHot(e, policy.criticalTemp)
    BY <1>5 DEF Blockers, SensorBlockers, QuarantineBlockers, Codes
  <2> SUFFICES ASSUME shown.bmc \notin {Absent, Unreadable}, NEW k \in DOMAIN shown.bmc
               PROVE  /\ policy.criticalBlocks => shown.bmc[k].health # "critical"
                      /\ shown.bmc[k].type = "temperature" /\ Reading(shown.bmc[k]) # None =>
                           shown.bmc[k].reading < policy.criticalTemp
    BY DEF ShownCool, policy
  <2>2. ~(Bmc(shown.bmc).hottest # None /\ Bmc(shown.bmc).hottest >= policy.criticalTemp)  BY <1>4, <2>1 DEF TooHot
  <2>3. policy.criticalBlocks => ~Bmc(shown.bmc).critical  BY <1>4, <2>1
  <2> QED  BY <1>1, <1>3, <2>2, <2>3, SensorsTell
<1>10. shown.topology \notin {Absent, Unreadable} =>
         \A p \in DOMAIN shown.topology.paths : shown.topology.paths[p] \notin policy.weakPaths \cap GpuLabels
  BY <1>3, <1>4, <1>5, TopologyCounts
<1> QED  BY <1>6, <1>7, <1>8, <1>9, <1>10 DEF policy
-----------------------------------------------------------------------------
(* What becomes of a label where a file is lost.                             *)
RolesOf(e, stats, policy, inventory) ==
  LET blockers == Blockers(e, policy, inventory)
      warnings == Warnings(e, stats, policy, inventory)
  IN  Roles(e, Status(e, blockers, warnings, policy), blockers, Reasons(e, stats, policy, inventory), policy)

LEMMA LossesAdd ==
  ASSUME NEW e, NEW poorer, Lost(e) \subseteq Lost(poorer), NEW policy, NEW inventory
  PROVE  EvidenceWarnings(e, policy, inventory) \subseteq EvidenceWarnings(poorer, policy, inventory)
<1> DEFINE owed(x) == Lost(x) \cap policy.required
           Asked(x) == UNION {RequiredCode[kind] : kind \in owed(x)}
           Unasked(x) == {MissingCode[kind] : kind \in Lost(x) \ owed(x)}
           partial(x) == Codes(owed(x) # {}, "PARTIAL_EVIDENCE")
<1>1. \A x : EvidenceWarnings(x, policy, inventory)
              = Asked(x) \cup Unasked(x) \cup Codes(inventory = NoInventory, "INVENTORY_MISSING") \cup partial(x)
  BY DEF EvidenceWarnings
<1>2. owed(e) \subseteq owed(poorer) /\ Lost(e) \ owed(e) \subseteq Lost(poorer) \ owed(poorer)  OBVIOUS
<1> HIDE DEF owed
<1>3. Asked(e) \subseteq Asked(poorer)  BY <1>2
<1>4. Unasked(e) \subseteq Unasked(poorer)  BY <1>2
<1>5. partial(e) \subseteq partial(poorer)  BY <1>2 DEF Codes
<1> HIDE DEF Asked, Unasked, partial
<1> QED  BY <1>1, <1>3, <1>4, <1>5

(* What of the evidence the two chains ask for, when a poorer file leaves it *)
(* as it is.                                                                 *)
LEMMA PoorerIsNotBetter ==
  ASSUME NEW e, NEW poorer, Counted(e), Counted(poorer), NEW stats, NEW policy, NEW inventory,
         poorer.single = e.single, poorer.pairwise = e.pairwise, poorer.smi = e.smi, e.topology.weak = 0,
         Blockers(poorer, policy, inventory) = Blockers(e, policy, inventory),
         \A code \in {"TOPO_WEAK_GPU_PATH", "NCCL_PAIRWISE_MISSING"} :
           code \in Warnings(e, stats, policy, inventory) => code \in Warnings(poorer, stats, policy, inventory),
         Warnings(poorer, stats, policy, inventory) = {} => Warnings(e, stats, policy, inventory) = {},
         "multinode" \in RolesOf(poorer, stats, policy, inventory)
  PROVE  "multinode" \in RolesOf(e, stats, policy, inventory)
<1> DEFINE blockers == Blockers(e, policy, inventory)
           after == Blockers(poorer, policy, inventory)
           warnings == Warnings(e, stats, policy, inventory)
           more == Warnings(poorer, stats, policy, inventory)
           status == Status(e, blockers, warnings, policy)
           poorly == Status(poorer, after, more, policy)
<1>1. status \in Statuses /\ poorly \in Statuses  BY StatusIsOne
<1>2. after = blockers  OBVIOUS
<1>3. \A code \in {"TOPO_WEAK_GPU_PATH", "NCCL_PAIRWISE_MISSING"} : code \in warnings => code \in more  OBVIOUS
<1>4. more = {} => warnings = {}  OBVIOUS
<1> HIDE DEF blockers, after, warnings, more
<1>5. poorly = "PASS" \/ (poorly = "REVIEW" /\ MultinodeSupported(poorer, after, policy))
  BY <1>1, MultinodeRole DEF RolesOf, after, more
<1>6. /\ blockers \cap QuarantineBlockers = {} /\ e.single.status = "PASS"
      /\ e.pairwise.timeouts = 0 /\ e.pairwise.weakPeers = 0
      /\ "pairwise" \in policy.required => e.pairwise.status = "PASS"
  BY <1>2, LabelTakes DEF RolesOf, after
<1>7. ~MultinodeRisk(poorer, more, policy) /\ ~("NCCL_PAIRWISE_MISSING" \in more /\ "pairwise" \in policy.required)
  <2>1. poorer.single.status = "PASS" /\ after \cap QuarantineBlockers = {}  BY <1>2, <1>6
  <2> QED  BY <1>5, <2>1 DEF Status
<1>8. ~MultinodeRisk(e, warnings, policy) /\ ~("NCCL_PAIRWISE_MISSING" \in warnings /\ "pairwise" \in policy.required)
  BY <1>3, <1>7 DEF MultinodeRisk
<1>9. status = "PASS" \/ (status = "REVIEW" /\ MultinodeSupported(e, blockers, policy))
  <2>1. CASE poorly = "PASS"
    <3>1. poorer.single.status = "PASS" /\ after \cap QuarantineBlockers = {}  BY <1>2, <1>6
    <3>2. more = {} /\ (poorer.pairwise.status = "PASS" \/ "pairwise" \notin policy.required)  BY <2>1, <1>7, <3>1 DEF Status
    <3> QED  BY <1>4, <1>6, <1>8, <3>2 DEF Status
  <2>2. CASE poorly = "REVIEW" /\ MultinodeSupported(poorer, after, policy)
    <3>1. poorer.single.status = "PASS" /\ after \cap QuarantineBlockers = {}  BY <1>2, <1>6
    <3>2. blockers = {}  BY <1>2, <1>7, <2>2, <3>1 DEF Status
    <3>3. MultinodeSupported(e, blockers, policy)
      BY <1>2, <2>2 DEF MultinodeSupported, SingleNodeSupported, InferenceSupported
    <3> QED  BY <1>6, <1>8, <3>2, <3>3 DEF Status
  <2> QED  BY <1>5, <2>1, <2>2
<1> QED  BY <1>1, <1>9, MultinodeRole DEF RolesOf, blockers, warnings

(* One file of a directory lost: the others are as they were.                *)
Lose(dir, kind, lost) == [dir EXCEPT ![kind] = lost]

LEMMA OneIsLost ==
  ASSUME NEW dir \in NodeFiles, NEW kind \in Kinds, NEW lost \in {Absent, Unreadable}, NEW n, NEW policy
  PROVE  /\ Lose(dir, kind, lost) \in NodeFiles
         /\ kind # "single" => Load(Lose(dir, kind, lost), n, policy).single = Load(dir, n, policy).single
         /\ kind # "pairwise" => Load(Lose(dir, kind, lost), n, policy).pairwise = Load(dir, n, policy).pairwise
         /\ kind # "topology" => Load(Lose(dir, kind, lost), n, policy).topology = Load(dir, n, policy).topology
         /\ kind # "smi" => Load(Lose(dir, kind, lost), n, policy).smi = Load(dir, n, policy).smi
         /\ kind # "bmc" => Load(Lose(dir, kind, lost), n, policy).bmc = Load(dir, n, policy).bmc
         /\ Lose(dir, kind, lost)[kind] = lost
<1> DEFINE poor == Lose(dir, kind, lost)
<1>1. \A k \in Kinds : lost \in FilesOf[k]  BY DEF Kinds, FilesOf, FileOf
<1>2. poor \in NodeFiles  BY <1>1 DEF Kinds, NodeFiles, Lose
<1>3. /\ kind # "single" => poor.single = dir.single
      /\ kind # "pairwise" => poor.pairwise = dir.pairwise
      /\ kind # "topology" => poor.topology = dir.topology
      /\ kind # "smi" => poor.smi = dir.smi
      /\ kind # "bmc" => poor.bmc = dir.bmc
      /\ poor[kind] = lost
  BY DEF Kinds, NodeFiles, Lose
<1> QED  BY <1>2, <1>3 DEF Load

LEMMA LostFilesShowNothing ==
  ASSUME NEW lost \in {Absent, Unreadable}, NEW n, NEW minimum, NEW weakPaths, NEW reviewPaths
  PROVE  /\ Single(lost).status # "PASS"
         /\ Pairwise(lost, n, minimum).status # "PASS"
         /\ Topology(lost, weakPaths, reviewPaths).present = (lost # Absent)
         /\ Smi(lost).count = None
         /\ Bmc(lost).present = (lost # Absent) /\ ~Bmc(lost).critical /\ ~Bmc(lost).fan /\ ~Bmc(lost).powerCritical
         /\ Bmc(lost).hottest = None
         /\ lost # Absent => "BMC_SENSOR_PARSE_FAILED" \in Bmc(lost).codes
<1>1. Single(lost).status # "PASS"  BY DEF Single, SingleStatus, NoRun, Some
<1>2. Pairwise(lost, n, minimum).status # "PASS"  BY DEF Pairwise
<1>3. Topology(lost, weakPaths, reviewPaths).present = (lost # Absent)  BY DEF Topology
<1>4. Smi(lost).count = None  BY DEF Smi
<1>5. Bmc(lost).present = (lost # Absent) /\ ~Bmc(lost).critical /\ ~Bmc(lost).fan /\ ~Bmc(lost).powerCritical
  BY DEF Bmc, Some
<1>6. Bmc(lost).hottest = None  BY DEF Bmc
<1>7. lost # Absent => "BMC_SENSOR_PARSE_FAILED" \in Bmc(lost).codes  BY DEF Bmc, Codes
<1> QED  BY <1>1, <1>2, <1>3, <1>4, <1>5, <1>6, <1>7

(* A lost topology leaves everything else as it was, and adds a warning or   *)
(* none.                                                                     *)
LEMMA TopologyLost ==
  ASSUME NEW e, NEW poorer, Counted(e), Counted(poorer), NEW stats, NEW policy, NEW inventory,
         poorer.single = e.single, poorer.pairwise = e.pairwise, poorer.smi = e.smi, poorer.bmc = e.bmc,
         poorer.node = e.node, e.topology.present, TopologyWarnings(e, policy) = {},
         "multinode" \in RolesOf(poorer, stats, policy, inventory)
  PROVE  "multinode" \in RolesOf(e, stats, policy, inventory)
<1>1. e.topology.weak = 0  BY DEF TopologyWarnings, Codes, Counted
<1>2. Blockers(poorer, policy, inventory) = Blockers(e, policy, inventory)
  BY DEF Blockers, HardwareBlockers, TooFew, Expected, VbiosMismatch, NcclBlockers, SensorBlockers, TooHot
<1>3. Warnings(e, stats, policy, inventory) \subseteq Warnings(poorer, stats, policy, inventory)
  <2>1. Lost(e) \subseteq Lost(poorer)
    <3> SUFFICES ASSUME NEW kind \in Lost(e) PROVE kind \in Lost(poorer)  OBVIOUS
    <3>1. kind \in Kinds /\ kind # "topology" /\ ~e[kind].present  BY DEF Lost
    <3>2. poorer[kind] = e[kind]  BY <3>1 DEF Kinds
    <3> QED  BY <3>1, <3>2 DEF Lost
  <2>2. EvidenceWarnings(e, policy, inventory) \subseteq EvidenceWarnings(poorer, policy, inventory)  BY <2>1, LossesAdd
  <2>3. HardwareWarnings(e, stats, policy, inventory) = HardwareWarnings(poorer, stats, policy, inventory)
    BY DEF HardwareWarnings, DriverMismatch, VbiosMismatch
  <2>4. NcclWarnings(e, stats, policy) = NcclWarnings(poorer, stats, policy)  BY DEF NcclWarnings, Compared
  <2>5. SensorWarnings(e, policy) = SensorWarnings(poorer, policy)  BY DEF SensorWarnings, TooHot
  <2>6. ParserWarnings(e) = ParserWarnings(poorer)  BY DEF ParserWarnings
  <2> QED  BY <2>2, <2>3, <2>4, <2>5, <2>6 DEF Warnings
<1> QED  BY <1>1, <1>2, <1>3, PoorerIsNotBetter

(* A lost snapshot that held nothing back adds a warning.                    *)
LEMMA SnapshotLost ==
  ASSUME NEW e, NEW poorer, Counted(e), Counted(poorer), NEW stats, NEW policy, NEW inventory,
         poorer.single = e.single, poorer.pairwise = e.pairwise, poorer.smi = e.smi, poorer.topology = e.topology,
         poorer.node = e.node, e.bmc.present, SensorBlockers(e, policy) = {},
         NEW lost \in {Absent, Unreadable}, poorer.bmc = Bmc(lost),
         "multinode" \in RolesOf(poorer, stats, policy, inventory)
  PROVE  "multinode" \in RolesOf(e, stats, policy, inventory)
<1>0. /\ poorer.bmc.present = (lost # Absent) /\ ~poorer.bmc.critical /\ ~poorer.bmc.fan /\ ~poorer.bmc.powerCritical
      /\ poorer.bmc.hottest = None
      /\ lost # Absent => "BMC_SENSOR_PARSE_FAILED" \in poorer.bmc.codes
  BY LostFilesShowNothing
<1>1. e.topology.weak = 0
  BY LabelTakes DEF RolesOf
<1>2. Blockers(poorer, policy, inventory) = Blockers(e, policy, inventory)
  <2>1. HardwareBlockers(poorer, policy, inventory) = HardwareBlockers(e, policy, inventory)
    BY DEF HardwareBlockers, TooFew, Expected, VbiosMismatch
  <2>2. NcclBlockers(poorer, policy) = NcclBlockers(e, policy)  BY DEF NcclBlockers
  <2>3. SensorBlockers(poorer, policy) = {}  BY <1>0 DEF SensorBlockers, TooHot, Codes
  <2> QED  BY <2>1, <2>2, <2>3 DEF Blockers
<1>3. \A code \in {"TOPO_WEAK_GPU_PATH", "NCCL_PAIRWISE_MISSING"} :
        code \in Warnings(e, stats, policy, inventory) => code \in Warnings(poorer, stats, policy, inventory)
  <2>1. Lost(e) \subseteq Lost(poorer)
    <3> SUFFICES ASSUME NEW kind \in Lost(e) PROVE kind \in Lost(poorer)  OBVIOUS
    <3>1. kind \in Kinds /\ kind # "bmc" /\ ~e[kind].present  BY DEF Lost
    <3>2. poorer[kind] = e[kind]  BY <3>1 DEF Kinds
    <3> QED  BY <3>1, <3>2 DEF Lost
  <2>2. EvidenceWarnings(e, policy, inventory) \subseteq EvidenceWarnings(poorer, policy, inventory)  BY <2>1, LossesAdd
  <2>3. HardwareWarnings(e, stats, policy, inventory) = HardwareWarnings(poorer, stats, policy, inventory)
    BY DEF HardwareWarnings, DriverMismatch, VbiosMismatch
  <2>4. NcclWarnings(e, stats, policy) = NcclWarnings(poorer, stats, policy)  BY DEF NcclWarnings, Compared
  <2>5. TopologyWarnings(e, policy) = TopologyWarnings(poorer, policy)  BY DEF TopologyWarnings
  <2>6. \A code \in {"TOPO_WEAK_GPU_PATH", "NCCL_PAIRWISE_MISSING"} :
          code \notin SensorWarnings(e, policy) /\ code \notin ParserWarnings(e)
    BY DEF SensorWarnings, ParserWarnings, Codes
  <2> QED  BY <2>2, <2>3, <2>4, <2>5, <2>6 DEF Warnings
<1>4. Warnings(poorer, stats, policy, inventory) # {}
  <2>1. CASE lost = Absent
    <3>1. "bmc" \in Lost(poorer)  BY <1>0, <2>1 DEF Lost, Kinds
    <3>2. EvidenceWarnings(poorer, policy, inventory) # {}
      <4>1. CASE "bmc" \in policy.required
        <5>1. Lost(poorer) \cap policy.required # {}  BY <3>1, <4>1
        <5> QED  BY <5>1 DEF EvidenceWarnings, Codes
      <4>2. CASE "bmc" \notin policy.required
        <5>1. MissingCode["bmc"] \in {MissingCode[kind] : kind \in Lost(poorer) \ (Lost(poorer) \cap policy.required)}
          BY <3>1, <4>2
        <5> QED  BY <5>1 DEF EvidenceWarnings
      <4> QED  BY <4>1, <4>2
    <3> QED  BY <3>2 DEF Warnings
  <2>2. CASE lost # Absent
    <3>1. "BMC_SENSOR_PARSE_FAILED" \in ParserWarnings(poorer)  BY <1>0, <2>2 DEF ParserWarnings
    <3> QED  BY <3>1 DEF Warnings
  <2> QED  BY <2>1, <2>2
<1> QED  BY <1>1, <1>2, <1>3, <1>4, PoorerIsNotBetter

(* The nodes of a rack, each with its own evidence.                          *)
LEMMA NodesAreNamed ==
  /\ Len(Nodes) \in Nat /\ DOMAIN Nodes = 1..Len(Nodes)
  /\ \A k \in DOMAIN Nodes : Nodes[k] \in Names
  /\ \A n \in Names : \E k \in DOMAIN Nodes : Nodes[k] = n
  /\ \A j, k \in DOMAIN Nodes : Nodes[j] = Nodes[k] => j = k
<1>1. Nodes \in Seq(STRING)  BY NodesAssumption
<1>2. \A j, k \in DOMAIN Nodes : Nodes[j] = Nodes[k] => j = k  BY NodesAssumption DEF IsInjective
<1> QED  BY <1>1, <1>2 DEF Names, Range

LEMMA LabelledIs ==
  ASSUME rack \in Racks, TextIsItsOwn, NEW dir, NEW n \in Names
  PROVE  Labelled(dir, n)
           <=> "multinode" \in RolesOf(Load(dir[n], n, rack.policy), Rack(LoadEvidence(dir)), rack.policy, rack.inventory)
<1> DEFINE k == CHOOSE j \in DOMAIN Nodes : Nodes[j] = n
<1>1. k \in DOMAIN Nodes /\ Nodes[k] = n  BY NodesAreNamed
<1> HIDE DEF k
<1>2. LoadEvidence(dir)[k] = Load(dir[n], n, rack.policy)  BY <1>1 DEF LoadEvidence
<1>3. Labelled(dir, n)
        <=> rack.policy.names["multinode"]
              \in Result(Load(dir[n], n, rack.policy), Rack(LoadEvidence(dir)), rack.policy, rack.inventory).labels
  BY <1>2 DEF Labelled, k
<1> QED  BY <1>3, LabelIsOfTheRole DEF RolesOf

(* The rack's own figures are the same when one of the node's files is lost. *)
Unmoved(dir, n, kind, lost) ==
  Rack(LoadEvidence([dir EXCEPT ![n][kind] = lost])) = Rack(LoadEvidence(dir))

(* The rack's own figures are not of its topologies or sensors.              *)
LEMMA RackIsUnmoved ==
  ASSUME rack \in Racks, NEW dir \in Directories, NEW n \in Names, NEW kind \in {"topology", "bmc"}, NEW lost \in {Absent, Unreadable}
  PROVE  Unmoved(dir, n, kind, lost)
<1> DEFINE poor == [dir EXCEPT ![n][kind] = lost]
           nodes == LoadEvidence(dir)
           after == LoadEvidence(poor)
<1>1. DOMAIN nodes = DOMAIN Nodes /\ DOMAIN after = DOMAIN Nodes  BY DEF LoadEvidence
<1>2. ASSUME NEW k \in DOMAIN Nodes PROVE after[k].single = nodes[k].single /\ after[k].smi = nodes[k].smi
  <2>1. nodes[k] = Load(dir[Nodes[k]], Nodes[k], rack.policy) /\ after[k] = Load(poor[Nodes[k]], Nodes[k], rack.policy)
    BY DEF LoadEvidence
  <2>2. Nodes[k] \in Names /\ dir[Nodes[k]] \in NodeFiles  BY NodesAreNamed DEF Directories
  <2>3. CASE Nodes[k] = n
    <3>1. poor[Nodes[k]] = Lose(dir[Nodes[k]], kind, lost)  BY <2>3 DEF Directories, Lose
    <3>2. kind \in Kinds /\ kind # "single" /\ kind # "smi"  BY DEF Kinds
    <3>3. /\ Load(poor[Nodes[k]], Nodes[k], rack.policy).single = Load(dir[Nodes[k]], Nodes[k], rack.policy).single
          /\ Load(poor[Nodes[k]], Nodes[k], rack.policy).smi = Load(dir[Nodes[k]], Nodes[k], rack.policy).smi
      <4> HIDE DEF poor
      <4> QED  BY <2>2, <3>1, <3>2, OneIsLost
    <3> QED  BY <2>1, <3>3
  <2>4. CASE Nodes[k] # n
    <3>1. poor[Nodes[k]] = dir[Nodes[k]]  BY <2>2, <2>4 DEF Directories
    <3> QED  BY <2>1, <3>1
  <2> QED  BY <2>3, <2>4
<1> HIDE DEF nodes, after
<1>3. [k \in DOMAIN after |-> after[k].single] = [k \in DOMAIN nodes |-> nodes[k].single]
      /\ [k \in DOMAIN after |-> after[k].smi.driver] = [k \in DOMAIN nodes |-> nodes[k].smi.driver]
      /\ [k \in DOMAIN after |-> after[k].smi.cuda] = [k \in DOMAIN nodes |-> nodes[k].smi.cuda]
  BY <1>1, <1>2
<1>4. Rack(after) = Rack(nodes)  BY <1>3 DEF Rack
<1> QED  BY <1>4 DEF after, nodes, Unmoved

LEMMA LossReleasesOnlyTheHeld ==
  ASSUME rack \in Racks, TextIsItsOwn, judged \in Directories, NEW n \in Names, NEW kind \in Kinds, NEW lost \in {Absent, Unreadable},
         ~Labelled(judged, n), judged[n][kind] \notin {Absent, Unreadable}, Labelled([judged EXCEPT ![n][kind] = lost], n)
  PROVE  Held(n, kind)
<1>a. kind \in {"topology", "bmc"} => Unmoved(judged, n, kind, lost)  BY RackIsUnmoved
<1> DEFINE dir == judged[n]
           poor == Lose(dir, kind, lost)
           policy == rack.policy
           inventory == rack.inventory
           stats == Rack(LoadEvidence(judged))
           after == Rack(LoadEvidence([judged EXCEPT ![n][kind] = lost]))
           e == Load(dir, n, policy)
           poorer == Load(poor, n, policy)
<1>1. dir \in NodeFiles /\ [judged EXCEPT ![n][kind] = lost][n] = poor  BY DEF Directories, Lose
<1>2. "multinode" \in RolesOf(poorer, after, policy, inventory)  BY <1>1, LabelledIs
<1>3. "multinode" \notin RolesOf(e, stats, policy, inventory)  BY LabelledIs
<1> HIDE DEF dir
<1>c. /\ poor \in NodeFiles
      /\ kind # "single" => Load(poor, n, policy).single = Load(dir, n, policy).single
      /\ kind # "pairwise" => Load(poor, n, policy).pairwise = Load(dir, n, policy).pairwise
      /\ kind # "topology" => Load(poor, n, policy).topology = Load(dir, n, policy).topology
      /\ kind # "smi" => Load(poor, n, policy).smi = Load(dir, n, policy).smi
      /\ kind # "bmc" => Load(poor, n, policy).bmc = Load(dir, n, policy).bmc
      /\ poor[kind] = lost
  BY <1>1, OneIsLost
<1>4. /\ poor \in NodeFiles /\ poor[kind] = lost
      /\ kind # "single" => poorer.single = e.single
      /\ kind # "pairwise" => poorer.pairwise = e.pairwise
      /\ kind # "topology" => poorer.topology = e.topology
      /\ kind # "smi" => poorer.smi = e.smi
      /\ kind # "bmc" => poorer.bmc = e.bmc
  BY <1>c
<1>5. policy.minPairwise \in Maybe(Int)  BY RacksAssumption
<1>6. Counted(e) /\ Counted(poorer) /\ poorer.node = e.node  BY <1>1, <1>4, <1>5, LoadedIsCounted
<1>7. /\ poorer.single = Single(poor.single) /\ poorer.pairwise = Pairwise(poor.pairwise, n, policy.minPairwise)
      /\ poorer.smi = Smi(poor.smi) /\ poorer.bmc = Bmc(poor.bmc)
  BY DEF Load
<1>8. /\ e.topology = Topology(dir.topology, policy.weakPaths, policy.reviewPaths) /\ e.bmc = Bmc(dir.bmc)
  BY DEF Load
<1>b. dir[kind] # Absent  BY DEF dir
<1>9. Held(n, kind) = CASE kind = "topology" -> TopologyWarnings(e, policy) # {}
                        [] kind = "bmc" -> SensorBlockers(e, policy) # {}
                        [] kind = "pairwise" -> "pairwise" \notin policy.required
                        [] OTHER -> FALSE
  BY DEF Held, dir
<1>10. kind \in {"topology", "bmc"} => after = stats  BY <1>a DEF Unmoved
<1> HIDE DEF e, poorer, poor, policy, inventory, after, stats
<1>11. /\ poorer.single.status = "PASS"
       /\ "pairwise" \in policy.required => poorer.pairwise.status = "PASS"
       /\ poorer.smi.count # None
  BY <1>2, <1>6, LabelTakes DEF RolesOf
<1>12. CASE kind = "single"  BY <1>4, <1>7, <1>11, <1>12, LostFilesShowNothing
<1>13. CASE kind = "smi"  BY <1>4, <1>7, <1>11, <1>13, LostFilesShowNothing
<1>14. CASE kind = "pairwise"
  <2>1. poorer.pairwise.status # "PASS"  BY <1>4, <1>7, <1>14, LostFilesShowNothing
  <2> QED  BY <1>9, <1>11, <1>14, <2>1
<1>15. CASE kind = "topology"
  <2>1. dir.topology \in FilesOf.topology /\ dir.topology # Absent  BY <1>1, <1>b, <1>15 DEF NodeFiles
  <2>2. e.topology.present = (dir.topology # Absent)  BY <1>8, <2>1, TopologyCounts
  <2>3. TopologyWarnings(e, policy) # {}  BY <1>2, <1>3, <1>4, <1>6, <1>10, <1>15, <2>1, <2>2, TopologyLost
  <2> QED  BY <1>9, <1>15, <2>3
<1>16. CASE kind = "bmc"
  <2>1. e.bmc.present = (dir.bmc # Absent)  BY <1>8 DEF Bmc
  <2>2. poorer.bmc = Bmc(lost)  BY <1>4, <1>7, <1>16
  <2>3. SensorBlockers(e, policy) # {}  BY <1>2, <1>3, <1>4, <1>6, <1>10, <1>16, <1>b, <2>1, <2>2, SnapshotLost
  <2> QED  BY <1>9, <1>16, <2>3
<1> QED  BY <1>12, <1>13, <1>14, <1>15, <1>16 DEF Kinds
-----------------------------------------------------------------------------
(* A verdict on loaded evidence, and the rows that show it.                  *)
Sound(verdict) ==
  /\ verdict.status \in Statuses
  /\ verdict.state \in {"DRAIN_REVIEW", "QUARANTINE_REVIEW"} <=> verdict.status = "QUARANTINE"
  /\ verdict.status = "QUARANTINE" => verdict.blockers # {}
  /\ verdict.blockers \subseteq Range(PrimaryReasons)

(* No parser's code recommends a drain.                                      *)
LEMMA CodesRecommendNothing ==
  ASSUME NEW dir, NEW n, NEW policy, NEW kind \in Kinds
  PROVE  "DRAIN_REVIEW_RECOMMENDED" \notin Load(dir, n, policy)[kind].codes
<1>1. CASE kind = "single"
  <2>1. "DRAIN_REVIEW_RECOMMENDED" \notin Single(dir.single).codes  BY DEF Single, Codes
  <2> QED  BY <1>1, <2>1 DEF Load
<1>2. CASE kind = "pairwise"
  <2>1. "DRAIN_REVIEW_RECOMMENDED" \notin Pairwise(dir.pairwise, n, policy.minPairwise).codes  BY DEF Pairwise, Codes
  <2> QED  BY <1>2, <2>1 DEF Load
<1>3. CASE kind = "topology"
  <2>1. "DRAIN_REVIEW_RECOMMENDED" \notin Topology(dir.topology, policy.weakPaths, policy.reviewPaths).codes
    BY DEF Topology, Codes
  <2> QED  BY <1>3, <2>1 DEF Load
<1>4. CASE kind = "smi"
  <2>1. "DRAIN_REVIEW_RECOMMENDED" \notin Smi(dir.smi).codes  BY DEF Smi, Codes
  <2> QED  BY <1>4, <2>1 DEF Load
<1>5. CASE kind = "bmc"
  <2>1. "DRAIN_REVIEW_RECOMMENDED" \notin Bmc(dir.bmc).codes  BY DEF Bmc, Codes
  <2> QED  BY <1>5, <2>1 DEF Load
<1> QED  BY <1>1, <1>2, <1>3, <1>4, <1>5 DEF Kinds

LEMMA BlockersAreKnown ==
  ASSUME NEW e, NEW policy, NEW inventory
  PROVE  Blockers(e, policy, inventory) \subseteq Range(PrimaryReasons)
<1>1. \A k \in 1..12 : PrimaryReasons[k] \in Range(PrimaryReasons)  BY DEF PrimaryReasons, Range
<1>2. {"NCCL_CORRECTNESS_ERROR", "NCCL_WRONG_COUNT_NONZERO", "NCCL_TIMEOUT", "GPU_COUNT_BELOW_EXPECTED", "BMC_HEALTH_CRITICAL",
       "BMC_TEMP_CRITICAL", "BMC_FAN_FAILURE", "BMC_POWER_CRITICAL", "VBIOS_MISMATCH_DRAIN_POLICY"} \subseteq Range(PrimaryReasons)
  BY <1>1 DEF PrimaryReasons
<1>3. Blockers(e, policy, inventory) \subseteq
        {"NCCL_CORRECTNESS_ERROR", "NCCL_WRONG_COUNT_NONZERO", "NCCL_TIMEOUT", "GPU_COUNT_BELOW_EXPECTED", "BMC_HEALTH_CRITICAL",
         "BMC_TEMP_CRITICAL", "BMC_FAN_FAILURE", "BMC_POWER_CRITICAL", "VBIOS_MISMATCH_DRAIN_POLICY"}
  BY DEF Blockers, HardwareBlockers, NcclBlockers, SensorBlockers, Codes
<1> QED  BY <1>2, <1>3

(* A drain is recommended for one reason, which also quarantines.            *)
LEMMA VerdictIsSound ==
  ASSUME NEW dir, NEW n, NEW stats, NEW policy, NEW inventory
  PROVE  Sound(Result(Load(dir, n, policy), stats, policy, inventory))
<1> DEFINE e == Load(dir, n, policy)
           blockers == Blockers(e, policy, inventory)
           warnings == Warnings(e, stats, policy, inventory)
           reasons == Reasons(e, stats, policy, inventory)
           status == Status(e, blockers, warnings, policy)
           verdict == Result(e, stats, policy, inventory)
<1>1. status \in Statuses  BY StatusIsOne
<1>2. "DRAIN_REVIEW_RECOMMENDED" \in reasons => VbiosMismatch(e, policy) /\ policy.vbiosDrains
  <2>1. "DRAIN_REVIEW_RECOMMENDED" \notin UNION {e[kind].codes : kind \in Kinds}  BY CodesRecommendNothing
  <2> HIDE DEF e
  <2> QED  BY <2>1 DEF Reasons, Codes
<1> HIDE DEF e
<1>3. VbiosMismatch(e, policy) /\ policy.vbiosDrains => blockers \cap QuarantineBlockers # {}
  BY DEF Blockers, HardwareBlockers, QuarantineBlockers, Codes
<1>4. verdict.status = status /\ verdict.blockers = blockers /\ verdict.state = RecommendedState(status, reasons)
  BY DEF Result
<1> HIDE DEF blockers, warnings, reasons, verdict
<1>5. blockers \cap QuarantineBlockers # {} => status = "QUARANTINE"  BY DEF Status
<1>6. status = "QUARANTINE" => blockers # {}  BY DEF Status
<1>7. RecommendedState(status, reasons) \in {"DRAIN_REVIEW", "QUARANTINE_REVIEW"} <=> status = "QUARANTINE"
  <2> HIDE DEF status
  <2> QED  BY <1>1, <1>2, <1>3, <1>5 DEF RecommendedState, Statuses
<1>8. blockers \subseteq Range(PrimaryReasons)  BY BlockersAreKnown DEF blockers
<1> QED  BY <1>1, <1>4, <1>6, <1>7, <1>8 DEF Sound, verdict, e

LEMMA ReasonIsNamed ==
  ASSUME NEW codes, codes \cap Range(PrimaryReasons) # {}
  PROVE  FirstOf(PrimaryReasons, codes) # "OTHER"
<1> DEFINE found == {k \in DOMAIN PrimaryReasons : PrimaryReasons[k] \in codes}
<1>1. DOMAIN PrimaryReasons = 1..12  BY DEF PrimaryReasons
<1>2. \A k \in 1..12 : PrimaryReasons[k] # "OTHER"  BY DEF PrimaryReasons
<1>3. found # {} /\ found \in SUBSET Nat
  <2>1. \E k \in DOMAIN PrimaryReasons : PrimaryReasons[k] \in codes  BY DEF Range
  <2> QED  BY <1>1, <2>1
<1>4. FirstOf(PrimaryReasons, codes) = PrimaryReasons[Min(found)]
  <2>1. \E k \in DOMAIN PrimaryReasons : PrimaryReasons[k] \in codes  BY <1>3
  <2> QED  BY <2>1 DEF FirstOf, Some, FirstWhere
<1> HIDE DEF found
<1>5. Min(found) \in found  BY <1>3, MinOfNats
<1> QED  BY <1>1, <1>2, <1>4, <1>5 DEF found

LEMMA RowTells ==
  ASSUME NEW verdict, Sound(verdict)
  PROVE  LET row == QuarantineRow(verdict)
         IN  /\ row.node = verdict.node
             /\ row.slurm = "DRAIN" <=> verdict.status = "QUARANTINE"
             /\ row.recommendation # "NONE" <=> verdict.status # "PASS"
             /\ row.recommendation = "QUARANTINE_REVIEW" <=> verdict.status = "QUARANTINE"
             /\ verdict.status = "QUARANTINE" => row.blockers # {} /\ row.reason # "OTHER"
             /\ Priority(verdict) = "P0" <=> verdict.status = "QUARANTINE"
<1> DEFINE row == QuarantineRow(verdict)
           codes == verdict.blockers \cup verdict.warnings \cup verdict.reasons
<1>1. row.node = verdict.node /\ row.blockers = verdict.blockers /\ row.reason = FirstOf(PrimaryReasons, codes)
  BY DEF QuarantineRow
<1>2. /\ row.slurm = "DRAIN" <=> verdict.status = "QUARANTINE"
      /\ row.recommendation # "NONE" <=> verdict.status # "PASS"
      /\ row.recommendation = "QUARANTINE_REVIEW" <=> verdict.status = "QUARANTINE"
  BY DEF QuarantineRow, Sound, Statuses
<1> HIDE DEF row
<1>3. verdict.status = "QUARANTINE" => row.blockers # {} /\ row.reason # "OTHER"
  <2> SUFFICES ASSUME verdict.status = "QUARANTINE" PROVE row.blockers # {} /\ row.reason # "OTHER"  OBVIOUS
  <2>1. verdict.blockers # {} /\ verdict.blockers \subseteq Range(PrimaryReasons)  BY DEF Sound
  <2>2. codes \cap Range(PrimaryReasons) # {}  BY <2>1
  <2> HIDE DEF codes
  <2> QED  BY <1>1, <2>1, <2>2, ReasonIsNamed
<1>4. Priority(verdict) = "P0" <=> verdict.status = "QUARANTINE"  BY DEF Priority
<1> QED  BY <1>1, <1>2, <1>3, <1>4 DEF row

LEMMA LaneIsOne ==
  ASSUME NEW verdict, Sound(verdict)
  PROVE  /\ LaneForRow(verdict) = Lane(verdict.status, verdict.labels)
         /\ Lane(verdict.status, verdict.labels) \in Lanes
         /\ Lane(verdict.status, verdict.labels) = "MULTINODE_READY" <=> verdict.status = "PASS"
         /\ Lane(verdict.status, verdict.labels) = "QUARANTINE_REVIEW" <=> verdict.status = "QUARANTINE"
BY DEF LaneForRow, Lane, Lanes, Sound, Statuses

(* The nodes in the rows that are made of some of the verdicts.              *)
At(verdicts, K) == {verdicts[k].node : k \in K}

WithStatus(verdicts, status) == {k \in DOMAIN verdicts : verdicts[k].status = status}

LEMMA RowsShowTheVerdicts ==
  ASSUME NEW v, \A k \in DOMAIN v : Sound(v[k])
  PROVE  LET rows == Content("quarantine", v)
             drained == {row \in Range(rows) : row.slurm = "DRAIN"}
             stopped == WithStatus(v, "QUARANTINE")
             kept == WithStatus(v, "PASS")
         IN  /\ NodesOf(Content("drain", v)) = At(v, stopped)
             /\ NodesOf(drained) = At(v, stopped)
             /\ NodesOf({row \in Content("queue", v) : row.priority = "P0"}) = At(v, stopped)
             /\ \A row \in drained : row.blockers # {} /\ row.reason # "OTHER"
             /\ NodesOf(Content("queue", v)) = At(v, DOMAIN v \ kept)
             /\ NodesOf({row \in Range(rows) : row.recommendation # "NONE"}) = At(v, DOMAIN v \ kept)
             /\ \A row \in Content("queue", v) :
                  \E line \in Range(Content("slurm", v)) : line.node = row.node /\ line.lane = row.lane
<1> DEFINE rows == Content("quarantine", v)
           drained == {row \in Range(rows) : row.slurm = "DRAIN"}
           stopped == WithStatus(v, "QUARANTINE")
           kept == WithStatus(v, "PASS")
<1>1. NodesOf(Content("drain", v)) = At(v, stopped)
  <2> DEFINE line(k) == [node |-> v[k].node, reason |-> FirstOf(Alphabetical, v[k].blockers)]
             drainable == {j \in DOMAIN v : v[j].state \in {"DRAIN_REVIEW", "QUARANTINE_REVIEW"}}
  <2>1. Content("drain", v) = {line(k) : k \in drainable}  BY DEF Content, DrainLines
  <2>2. drainable = stopped  BY DEF Sound, WithStatus
  <2>3. \A k : line(k).node = v[k].node  OBVIOUS
  <2> HIDE DEF line, drainable, stopped
  <2> QED  BY <2>1, <2>2, <2>3 DEF At, NodesOf
<1>2. rows = [k \in DOMAIN v |-> QuarantineRow(v[k])]  BY DEF Content
<1>3. Range(rows) = {QuarantineRow(v[k]) : k \in DOMAIN v}  BY <1>2 DEF Range
<1>4. drained = {QuarantineRow(v[k]) : k \in stopped}  BY <1>3, RowTells DEF WithStatus
<1>5. NodesOf(drained) = At(v, stopped)
  <2>1. \A k \in stopped : QuarantineRow(v[k]).node = v[k].node  BY RowTells DEF WithStatus
  <2> HIDE DEF drained, stopped
  <2> QED  BY <1>4, <2>1 DEF NodesOf, At
<1>6. \A row \in drained : row.blockers # {} /\ row.reason # "OTHER"
  BY <1>4, RowTells DEF WithStatus
<1>7. NodesOf({row \in Range(rows) : row.recommendation # "NONE"}) = At(v, DOMAIN v \ kept)
  <2>1. {row \in Range(rows) : row.recommendation # "NONE"} = {QuarantineRow(v[k]) : k \in DOMAIN v \ kept}
    BY <1>3, RowTells DEF WithStatus
  <2>2. \A k \in DOMAIN v \ kept : QuarantineRow(v[k]).node = v[k].node  BY RowTells
  <2> HIDE DEF rows, kept
  <2> QED  BY <2>1, <2>2 DEF NodesOf, At
<1> DEFINE queued(k) == [node |-> v[k].node, priority |-> Priority(v[k]), lane |-> Lane(v[k].status, v[k].labels),
                         state |-> v[k].state, reason |-> QuarantineRow(v[k]).reason]
<1>8. Content("queue", v) = {queued(k) : k \in DOMAIN v \ kept}
  <2>1. {j \in DOMAIN v : v[j].status # "PASS"} = DOMAIN v \ kept  BY DEF WithStatus
  <2> HIDE DEF kept
  <2> QED  BY <2>1 DEF Content, QueueRows
<1>9. \A k : queued(k).node = v[k].node /\ queued(k).priority = Priority(v[k]) /\ queued(k).lane = Lane(v[k].status, v[k].labels)
  OBVIOUS
<1> HIDE DEF queued
<1>10. NodesOf(Content("queue", v)) = At(v, DOMAIN v \ kept)
  <2> HIDE DEF kept
  <2> QED  BY <1>8, <1>9 DEF NodesOf, At
<1>11. NodesOf({row \in Content("queue", v) : row.priority = "P0"}) = At(v, stopped)
  <2>1. {row \in Content("queue", v) : row.priority = "P0"} = {queued(k) : k \in stopped}
    BY <1>8, <1>9, RowTells DEF WithStatus
  <2> HIDE DEF stopped
  <2> QED  BY <1>9, <2>1 DEF NodesOf, At
<1>12. ASSUME NEW row \in Content("queue", v)
       PROVE  \E line \in Range(Content("slurm", v)) : line.node = row.node /\ line.lane = row.lane
  <2>1. PICK k \in DOMAIN v : row = queued(k)  BY <1>8, <1>12
  <2> DEFINE lines == SlurmLines(v)
  <2>2. Content("slurm", v) = lines  BY DEF Content
  <2>3. k \in DOMAIN lines /\ lines[k].node = v[k].node /\ lines[k].lane = Lane(v[k].status, v[k].labels)  BY DEF SlurmLines
  <2> HIDE DEF lines
  <2>4. lines[k] \in Range(Content("slurm", v))  BY <2>2, <2>3 DEF Range
  <2> QED  BY <1>9, <2>1, <2>3, <2>4
<1> QED  BY <1>1, <1>5, <1>6, <1>7, <1>10, <1>11, <1>12

-----------------------------------------------------------------------------
(* The reports made of the files of one run: verdicts v on the nodes.        *)
Judges(v) ==
  /\ DOMAIN v = DOMAIN Nodes /\ Len(v) = Len(Nodes)
  /\ \A k \in DOMAIN v :
       /\ v[k].node = Nodes[k] /\ Sound(v[k])
       /\ v[k].status = "PASS" => rack.policy.names["multinode"] \in v[k].labels

LaneAt(v, k) == Lane(v[k].status, v[k].labels)

LEMMA LaneIsFound ==
  ASSUME NEW v, Judges(v), NEW k \in DOMAIN Nodes
  PROVE  LaneForNode(v, Nodes[k]) = LaneAt(v, k)
<1> DEFINE found == {j \in DOMAIN v : v[j].node = Nodes[k]}
<1>1. found = {k}  BY NodesAreNamed DEF Judges
<1>2. k \in Nat  BY NodesAreNamed
<1>3. Min(found) = k
  <2> HIDE DEF found
  <2>1. found \in SUBSET Nat /\ found # {}  BY <1>1, <1>2
  <2> QED  BY <1>1, <2>1, MinOfNats
<1>4. \E j \in DOMAIN v : v[j].node = Nodes[k]  BY <1>1
<1>5. LaneForNode(v, Nodes[k]) = LaneForRow(v[Min(found)])  BY <1>4 DEF LaneForNode, Some, FirstWhere
<1>6. LaneForRow(v[k]) = LaneAt(v, k)  BY LaneIsOne DEF Judges, LaneAt
<1> QED  BY <1>3, <1>5, <1>6

(* As many nodes as positions, since no name occurs twice.                   *)
LEMMA NodesAreCounted ==
  ASSUME NEW K \in SUBSET DOMAIN Nodes
  PROVE  Cardinality({Nodes[k] : k \in K}) = Cardinality(K)
<1> DEFINE named == {Nodes[k] : k \in K}
           name == [k \in K |-> Nodes[k]]
<1>1. IsFiniteSet(K)  BY NodesAreNamed, PositionsAreFinite
<1>2. name \in Surjection(K, named) /\ name \in Injection(K, named)
  BY NodesAreNamed DEF Surjection, Injection, IsInjective
<1> HIDE DEF name, named
<1> QED  BY <1>1, <1>2, FS_Surjection DEF named

LEMMA LanesAreCounted ==
  ASSUME NEW v, Judges(v), NEW lane
  PROVE  Cardinality({n \in Names : LaneForNode(v, n) = lane}) = Cardinality({k \in DOMAIN v : LaneAt(v, k) = lane})
<1> DEFINE K == {k \in DOMAIN v : LaneAt(v, k) = lane}
           nodes == {n \in Names : LaneForNode(v, n) = lane}
<1>1. DOMAIN v = DOMAIN Nodes  BY DEF Judges
<1>2. ASSUME NEW n \in nodes PROVE n \in {Nodes[k] : k \in K}
  <2>1. PICK k \in DOMAIN Nodes : Nodes[k] = n  BY NodesAreNamed
  <2> QED  BY <1>1, <2>1, LaneIsFound
<1>3. \A k \in K : Nodes[k] \in nodes  BY <1>1, NodesAreNamed, LaneIsFound
<1>4. nodes = {Nodes[k] : k \in K} /\ K \in SUBSET DOMAIN Nodes  BY <1>1, <1>2, <1>3
<1> HIDE DEF K, nodes
<1>5. Cardinality(nodes) = Cardinality(K)  BY <1>4, NodesAreCounted
<1> QED  BY <1>5 DEF K, nodes

LEMMA ReportShows ==
  ASSUME NEW v, Judges(v), out.labels.rows = v, out.quarantine.rows = Content("quarantine", v), out.summary.counts = Summary(v)
  PROVE  /\ \A lane \in Lanes : Report.readiness[lane] = Cardinality({n \in Names : Report.lanes[n] = lane})
         /\ NodesOf(Report.queue) = {n \in Names : Report.lanes[n] # "MULTINODE_READY"}
<1>1. \A n \in Names : Report.lanes[n] = LaneForNode(v, n)  BY DEF Report
<1>2. ASSUME NEW lane \in Lanes
      PROVE  Report.readiness[lane] = Cardinality({n \in Names : Report.lanes[n] = lane})
  <2>1. Report.readiness[lane] = Cardinality({k \in DOMAIN v : LaneAt(v, k) = lane})
    BY DEF Report, Summary, LaneCounts, LaneAt
  <2>2. {n \in Names : Report.lanes[n] = lane} = {n \in Names : LaneForNode(v, n) = lane}  BY <1>1
  <2>3. Cardinality({n \in Names : LaneForNode(v, n) = lane}) = Cardinality({k \in DOMAIN v : LaneAt(v, k) = lane})
    BY LanesAreCounted
  <2> QED  BY <2>1, <2>2, <2>3
<1> DEFINE rows == {r \in Range(Content("quarantine", v)) : r.recommendation # "NONE"}
           kept == WithStatus(v, "PASS")
           entry(r) == [node |-> r.node, lane |-> LaneForNode(v, r.node)]
<1>3. Report.queue = {entry(r) : r \in rows}  BY DEF Report
<1>4. \A r : entry(r).node = r.node  OBVIOUS
<1>5. NodesOf(Report.queue) = NodesOf(rows)
  <2> HIDE DEF entry, rows
  <2> QED  BY <1>3, <1>4 DEF NodesOf
<1>6. NodesOf(rows) = At(v, DOMAIN v \ kept)  BY RowsShowTheVerdicts DEF Judges
<1>7. DOMAIN v = DOMAIN Nodes /\ \A k \in DOMAIN v : v[k].node = Nodes[k]  BY DEF Judges
<1>8. \A k \in DOMAIN v : LaneAt(v, k) # "MULTINODE_READY" <=> k \notin kept  BY LaneIsOne DEF Judges, LaneAt, WithStatus
<1> HIDE DEF kept
<1>9. At(v, DOMAIN v \ kept) = {n \in Names : LaneForNode(v, n) # "MULTINODE_READY"}
  <2>1. \A k \in DOMAIN v \ kept : v[k].node \in Names /\ LaneForNode(v, v[k].node) # "MULTINODE_READY"
    BY <1>7, <1>8, NodesAreNamed, LaneIsFound
  <2>2. ASSUME NEW n \in Names, LaneForNode(v, n) # "MULTINODE_READY" PROVE \E k \in DOMAIN v \ kept : v[k].node = n
    <3>1. PICK k \in DOMAIN Nodes : Nodes[k] = n  BY NodesAreNamed
    <3> QED  BY <1>7, <1>8, <2>2, <3>1, LaneIsFound
  <2> QED  BY <2>1, <2>2 DEF At
<1> QED  BY <1>1, <1>2, <1>5, <1>6, <1>9

LEMMA ImpactShows ==
  ASSUME NEW v, Judges(v), out.labels.rows = v, out.quarantine.rows = Content("quarantine", v), out.summary.counts = Summary(v)
  PROVE  /\ ImpactReport.withheld = Report.withheld /\ ImpactReport.load = out.summary.counts.queued
         /\ ImpactReport.quarantined = Report.readiness["QUARANTINE_REVIEW"]
         /\ rack.policy.names["multinode"] = "gpu_training_multinode_ok" =>
              Report.withheld + Report.readiness["MULTINODE_READY"] <= Len(Nodes)
<1> DEFINE all == DOMAIN v
           given == {k \in all : "gpu_training_multinode_ok" \in v[k].labels}
           without == {k \in all : "gpu_training_multinode_ok" \notin v[k].labels}
           rows == Content("quarantine", v)
           ready == {k \in all : LaneAt(v, k) = "MULTINODE_READY"}
<1>1. all = 1..Len(Nodes) /\ Len(Nodes) \in Nat /\ Len(v) = Len(Nodes)  BY NodesAreNamed DEF Judges
<1>2. IsFiniteSet(all) /\ Cardinality(all) = Len(Nodes)
  <2>1. \A n \in Nat : IsFiniteSet(1..n) /\ Cardinality(1..n) = n  BY FS_Interval
  <2> HIDE DEF all
  <2> QED  BY <1>1, <2>1
<1>3. without = all \ given /\ given = all \cap given  OBVIOUS
<1>4. Cardinality(without) = Len(v) - Cardinality(given)
  <2> HIDE DEF all, given, without
  <2>1. Cardinality(all \ given) = Cardinality(all) - Cardinality(all \cap given)  BY <1>2, FS_Difference
  <2>2. Cardinality(without) = Cardinality(all) - Cardinality(given)  BY <1>3, <2>1
  <2> QED  BY <1>1, <1>2, <2>2
<1>5. ImpactReport.withheld = Cardinality(without) /\ Report.withheld = Len(v) - Cardinality(given)
  BY DEF ImpactReport, Report, Summary
<1>6. DOMAIN rows = all /\ \A k \in all : rows[k] = QuarantineRow(v[k])  BY DEF Content
<1>7. /\ \A k \in all : rows[k].recommendation # "NONE" <=> v[k].status # "PASS"
      /\ \A k \in all : rows[k].recommendation = "QUARANTINE_REVIEW" <=> LaneAt(v, k) = "QUARANTINE_REVIEW"
  BY <1>6, RowTells, LaneIsOne DEF Judges, LaneAt
<1> HIDE DEF rows
<1>8. ImpactReport.load = out.summary.counts.queued
  <2>1. {k \in DOMAIN rows : rows[k].recommendation # "NONE"} = {k \in all : v[k].status # "PASS"}  BY <1>6, <1>7
  <2>2. ImpactReport.load = Cardinality({k \in DOMAIN rows : rows[k].recommendation # "NONE"})  BY DEF ImpactReport, rows
  <2>3. out.summary.counts.queued = Cardinality({k \in all : v[k].status # "PASS"})  BY DEF Summary
  <2> QED  BY <2>1, <2>2, <2>3
<1>9. ImpactReport.quarantined = Report.readiness["QUARANTINE_REVIEW"]
  <2>1. {k \in DOMAIN rows : rows[k].recommendation = "QUARANTINE_REVIEW"} = {k \in all : LaneAt(v, k) = "QUARANTINE_REVIEW"}
    BY <1>6, <1>7
  <2>2. ImpactReport.quarantined = Cardinality({k \in DOMAIN rows : rows[k].recommendation = "QUARANTINE_REVIEW"})
    BY DEF ImpactReport, rows
  <2>3. Report.readiness["QUARANTINE_REVIEW"] = Cardinality({k \in all : LaneAt(v, k) = "QUARANTINE_REVIEW"})
    BY DEF Report, Summary, LaneCounts, LaneAt, Lanes
  <2> QED  BY <2>1, <2>2, <2>3
<1>10. ASSUME rack.policy.names["multinode"] = "gpu_training_multinode_ok"
       PROVE  Report.withheld + Report.readiness["MULTINODE_READY"] <= Len(Nodes)
  <2>1. \A k \in ready : k \in given  BY <1>10, LaneIsOne DEF Judges, LaneAt
  <2>2. Report.readiness["MULTINODE_READY"] = Cardinality(ready)  BY DEF Report, Summary, LaneCounts, LaneAt, Lanes
  <2>3. given \in SUBSET all  OBVIOUS
  <2> HIDE DEF all, given, ready
  <2>4. IsFiniteSet(given) /\ Cardinality(given) \in Nat  BY <1>2, <2>3, FS_Subset, FS_CardinalityType
  <2>5. ready \in SUBSET given  BY <2>1
  <2>6. Cardinality(ready) <= Cardinality(given) /\ Cardinality(ready) \in Nat  BY <2>4, <2>5, FS_Subset, FS_CardinalityType
  <2> QED  BY <1>1, <1>5, <2>2, <2>4, <2>6
<1> QED  BY <1>4, <1>5, <1>8, <1>9, <1>10
-----------------------------------------------------------------------------
(* The invariant.  Verdicts of a directory:                                  *)
Verdicts(dir) == Qualify(LoadEvidence(dir), rack.policy, rack.inventory)

UnderWay == pc \notin {"idle", "checked"}

(* Each run has judged one directory, and every file is of the verdicts of   *)
(* the run it has the number of; the last run's directory is the one that is *)
(* remembered.                                                               *)
FiledBy(dirs) ==
  /\ UnderWay => dirs[runs] = judged /\ results = Verdicts(judged)
  /\ \A name \in Outputs : out[name] # NoFile =>
       /\ out[name].run \in 0..runs
       /\ out[name].run = runs => pc # "checked" /\ dirs[runs] = judged
       /\ name \in DOMAIN Following => out[name].rows = Content(name, Verdicts(dirs[out[name].run]))
       /\ name = "summary" => out[name].counts = Summary(Verdicts(dirs[out[name].run]))

Filed == \E dirs \in [Nat -> Directories] : FiledBy(dirs)

(* Evidence that did not change is what was checked and judged.              *)
Unchanged ==
  \A n \in Names \ changed :
    /\ pc = "checked" /\ rack.strict => \A kind \in rack.policy.required \ {"pairwise"} : files[n][kind] # Absent
    /\ UnderWay => files[n] = judged[n]

IInv == TypeOK /\ Filed /\ Unchanged /\ UntouchedIsVouchedFor

LEMMA VerdictsStay ==
  ASSUME rack' = rack, NEW dir
  PROVE  Verdicts(dir)' = Verdicts(dir)
BY DEF Verdicts, Qualify, LoadEvidence

LEMMA FollowingIs ==
  /\ DOMAIN Following = {"labels", "quarantine", "queue", "slurm", "drain"}
  /\ \A name \in DOMAIN Following : Following[name] \in {"quarantine", "queue", "slurm", "drain", "assumptions"}
BY DEF Following

LEMMA VerdictsType ==
  ASSUME NEW dir
  PROVE  DOMAIN Verdicts(dir) = DOMAIN Nodes /\ Len(Verdicts(dir)) = Len(Nodes)
<1>1. DOMAIN Verdicts(dir) = 1..Len(Nodes) /\ Len(Nodes) \in Nat  BY NodesAreNamed DEF Verdicts, Qualify, LoadEvidence
<1>2. Verdicts(dir) = [k \in 1..Len(Nodes) |-> Verdicts(dir)[k]]  BY <1>1 DEF Verdicts, Qualify
<1>3. Len(Verdicts(dir)) = Len(Nodes)  BY <1>1, <1>2
<1> QED  BY <1>1, <1>3, NodesAreNamed

(* Every verdict is sound and of its own node, and a pass has the label.     *)
LEMMA VerdictsJudge ==
  ASSUME NEW dir
  PROVE  Judges(Verdicts(dir))
<1> DEFINE stats == Rack(LoadEvidence(dir))
<1>1. DOMAIN Verdicts(dir) = DOMAIN Nodes /\ Len(Verdicts(dir)) = Len(Nodes)  BY VerdictsType
<1>2. ASSUME NEW k \in DOMAIN Nodes
      PROVE  /\ Verdicts(dir)[k].node = Nodes[k] /\ Sound(Verdicts(dir)[k])
             /\ Verdicts(dir)[k].status = "PASS" => rack.policy.names["multinode"] \in Verdicts(dir)[k].labels
  <2> DEFINE e == Load(dir[Nodes[k]], Nodes[k], rack.policy)
             verdict == Result(e, stats, rack.policy, rack.inventory)
             blockers == Blockers(e, rack.policy, rack.inventory)
             reasons == Reasons(e, stats, rack.policy, rack.inventory)
             roles == Roles(e, verdict.status, blockers, reasons, rack.policy)
  <2>1. Verdicts(dir)[k] = verdict  BY DEF Verdicts, Qualify, LoadEvidence
  <2>2. Sound(verdict)  BY VerdictIsSound
  <2>3. e.node = Nodes[k]  BY DEF Load
  <2> HIDE DEF e, stats
  <2>4. verdict.node = e.node  BY DEF Result
  <2>5. verdict.labels = {rack.policy.names[role] : role \in roles}  BY DEF Result
  <2>6. verdict.status = "PASS" => "multinode" \in roles
    <3> HIDE DEF verdict, blockers, reasons
    <3> QED  BY <2>2, MultinodeRole DEF Sound
  <2> HIDE DEF verdict, roles
  <2> QED  BY <2>1, <2>2, <2>3, <2>4, <2>5, <2>6
<1> QED  BY <1>1, <1>2 DEF Judges

LEMMA InitHolds ==
  ASSUME Init
  PROVE  IInv
<1>1. files \in Directories /\ judged \in Directories /\ most \in Nat /\ left \in Nat  BY EvidenceAssumption DEF Init
<1>2. TypeOK  BY <1>1, NodesAreNamed DEF Init, TypeOK
<1>3. FiledBy([r \in Nat |-> judged])  BY DEF Init, FiledBy, UnderWay
<1>4. Filed  BY <1>1, <1>3 DEF Filed
<1>5. Unchanged /\ UntouchedIsVouchedFor  BY DEF Init, Unchanged, UntouchedIsVouchedFor, UnderWay, Outputs
<1> QED  BY <1>2, <1>4, <1>5 DEF IInv

LEMMA RecollectedFits ==
  ASSUME files \in Directories, NEW n \in Names, NEW kind \in Kinds, NEW file \in Recollected(kind)
  PROVE  [files EXCEPT ![n][kind] = file] \in Directories
<1>1. file \in FilesOf[kind]  BY EvidenceAssumption
<1>2. files[n] \in NodeFiles  BY DEF Directories
<1>3. [files[n] EXCEPT ![kind] = file] \in NodeFiles  BY <1>1, <1>2 DEF Kinds, NodeFiles
<1> QED  BY <1>3 DEF Directories

LEMMA TypeStep ==
  ASSUME TypeOK, [Next]_vars
  PROVE  TypeOK'
<1> USE DEF TypeOK
<1>1. CASE Start  BY <1>1 DEF Start
<1>2. CASE Judge
  <2>1. results' = Verdicts(files)  BY <1>2 DEF Judge, Verdicts
  <2>2. Len(results') = Len(Nodes)  BY <2>1, VerdictsType
  <2> QED  BY <1>2, <2>2, FollowingIs DEF Judge
<1>3. ASSUME NEW name \in DOMAIN Following, WriteReview(name) PROVE TypeOK'
  BY <1>3, FollowingIs DEF WriteReview
<1>4. CASE ReadAssumptions  BY <1>4 DEF ReadAssumptions
<1>5. CASE WriteSummary  BY <1>5 DEF WriteSummary
<1>6. CASE WriteBundle  BY <1>6 DEF WriteBundle
<1>7. CASE Cut  BY <1>7 DEF Cut
<1>8. ASSUME NEW n \in Names, NEW kind \in Kinds, Recollect(n, kind) PROVE TypeOK'
  <2>1. PICK file \in Recollected(kind) : files' = [files EXCEPT ![n][kind] = file]  BY <1>8 DEF Recollect
  <2>2. files' \in Directories  BY <2>1, RecollectedFits
  <2>3. left' \in Nat /\ changed' \subseteq Names  BY <1>8 DEF Recollect
  <2> QED  BY <1>8, <2>2, <2>3 DEF Recollect
<1>9. CASE UNCHANGED vars  BY <1>9 DEF vars
<1> QED  BY <1>1, <1>2, <1>3, <1>4, <1>5, <1>6, <1>7, <1>8, <1>9 DEF Next

(* A file that is not written keeps its run and its content.                 *)
LEMMA FiledStays ==
  ASSUME NEW dirs \in [Nat -> Directories], FiledBy(dirs), UNCHANGED <<rack, runs, judged, results, out>>,
         pc' # "checked" \/ pc = "checked", UnderWay' => UnderWay
  PROVE  Filed'
<1>1. \A dir : Verdicts(dir)' = Verdicts(dir)  BY VerdictsStay
<1>2. FiledBy(dirs)'  BY <1>1, FollowingIs DEF FiledBy
<1> QED  BY <1>2 DEF Filed

LEMMA FiledOnStart ==
  ASSUME TypeOK, NEW dirs \in [Nat -> Directories], FiledBy(dirs), Start
  PROVE  Filed'
<1>1. \A dir : Verdicts(dir)' = Verdicts(dir)  BY VerdictsStay DEF Start
<1>2. runs \in Nat /\ runs' = runs + 1 /\ out' = out /\ judged' = judged /\ pc' \in {"idle", "checked"}
  BY DEF Start, TypeOK
<1>3. ASSUME NEW name \in Outputs, out'[name] # NoFile
      PROVE  /\ out'[name].run \in 0..runs'
             /\ out'[name].run # runs'
             /\ name \in DOMAIN Following => out'[name].rows = Content(name, Verdicts(dirs[out'[name].run]))
             /\ name = "summary" => out'[name].counts = Summary(Verdicts(dirs[out'[name].run]))
  <2>1. out[name].run \in 0..runs  BY <1>2, <1>3 DEF FiledBy
  <2> QED  BY <1>2, <1>3, <2>1 DEF FiledBy
<1>4. FiledBy(dirs)'  BY <1>1, <1>2, <1>3 DEF FiledBy, UnderWay
<1> QED  BY <1>4 DEF Filed

LEMMA FiledOnJudge ==
  ASSUME TypeOK, NEW dirs \in [Nat -> Directories], FiledBy(dirs), Judge
  PROVE  Filed'
<1>1. \A dir : Verdicts(dir)' = Verdicts(dir)  BY VerdictsStay DEF Judge
<1>2. runs \in Nat /\ runs' = runs /\ out' = out /\ judged' = files /\ pc = "checked" /\ results' = Verdicts(files)
      /\ files \in Directories
  BY DEF Judge, TypeOK, Verdicts
<1>3. PICK next \in [Nat -> Directories] : next[runs] = files /\ \A r \in Nat \ {runs} : next[r] = dirs[r]
  <2> DEFINE altered == [dirs EXCEPT ![runs] = files]
  <2>1. altered \in [Nat -> Directories] /\ altered[runs] = files /\ \A r \in Nat \ {runs} : altered[r] = dirs[r]  BY <1>2
  <2> QED  BY <2>1
<1>4. ASSUME NEW name \in Outputs, out'[name] # NoFile
      PROVE  /\ out'[name].run \in 0..runs'
             /\ out'[name].run # runs'
             /\ name \in DOMAIN Following => out'[name].rows = Content(name, Verdicts(next[out'[name].run]))
             /\ name = "summary" => out'[name].counts = Summary(Verdicts(next[out'[name].run]))
  <2>1. out[name].run \in 0..runs /\ out[name].run # runs  BY <1>2, <1>4 DEF FiledBy
  <2>2. next[out[name].run] = dirs[out[name].run]  BY <1>2, <1>3, <2>1
  <2> QED  BY <1>2, <1>4, <2>1, <2>2 DEF FiledBy
<1>5. results' = Verdicts(judged)'  BY <1>2 DEF Judge, Verdicts, Qualify, LoadEvidence
<1>6. FiledBy(next)'  BY <1>1, <1>2, <1>3, <1>4, <1>5 DEF FiledBy
<1> QED  BY <1>6 DEF Filed

LEMMA FiledOnWrite ==
  ASSUME TypeOK, NEW dirs \in [Nat -> Directories], FiledBy(dirs), UnderWay, pc' # "checked",
         UNCHANGED <<rack, runs, judged, results>>,
         NEW name \in Outputs, NEW file, out' = [out EXCEPT ![name] = file], file.run = runs,
         name \in DOMAIN Following => file.rows = Content(name, results),
         name = "summary" => file.counts = Summary(results)
  PROVE  Filed'
<1>1. \A dir : Verdicts(dir)' = Verdicts(dir)  BY VerdictsStay
<1>2. runs \in Nat /\ DOMAIN out = Outputs  BY DEF TypeOK
<1>3. dirs[runs] = judged /\ results = Verdicts(judged)  BY DEF FiledBy
<1>4. ASSUME NEW other \in Outputs, out'[other] # NoFile
      PROVE  /\ out'[other].run \in 0..runs'
             /\ out'[other].run = runs' => dirs[runs'] = judged'
             /\ other \in DOMAIN Following => out'[other].rows = Content(other, Verdicts(dirs[out'[other].run]))
             /\ other = "summary" => out'[other].counts = Summary(Verdicts(dirs[out'[other].run]))
  <2>1. CASE other = name
    <3>1. out'[other] = file  BY <1>2, <2>1
    <3>2. Verdicts(dirs[file.run]) = results  BY <1>3
    <3> QED  BY <1>2, <1>3, <2>1, <3>1, <3>2
  <2>2. CASE other # name
    <3>1. out'[other] = out[other]  BY <1>2, <2>2
    <3> QED  BY <1>2, <1>3, <1>4, <3>1 DEF FiledBy
  <2> QED  BY <2>1, <2>2
<1>5. UnderWay' => dirs[runs]' = judged' /\ results' = Verdicts(judged)'  BY <1>1, <1>3 DEF Verdicts, Qualify, LoadEvidence
<1>6. FiledBy(dirs)'  BY <1>1, <1>4, <1>5 DEF FiledBy
<1> QED  BY <1>6 DEF Filed

LEMMA FiledStep ==
  ASSUME TypeOK, Filed, [Next]_vars
  PROVE  Filed'
<1>1. PICK dirs \in [Nat -> Directories] : FiledBy(dirs)  BY DEF Filed
<1>2. CASE Start  BY <1>1, <1>2, FiledOnStart
<1>3. CASE Judge  BY <1>1, <1>3, FiledOnJudge
<1>4. ASSUME NEW name \in DOMAIN Following, WriteReview(name) PROVE Filed'
  <2> DEFINE file == [run |-> runs, rows |-> Content(name, results)]
  <2>1. name \in Outputs /\ UnderWay /\ pc' # "checked" /\ name # "summary"
    BY <1>4, FollowingIs DEF WriteReview, UnderWay, Outputs
  <2>2. file.run = runs /\ file.rows = Content(name, results)  OBVIOUS
  <2>3. out' = [out EXCEPT ![name] = file] /\ UNCHANGED <<rack, runs, judged, results>>  BY <1>4 DEF WriteReview
  <2> HIDE DEF file
  <2> QED  BY <1>1, <2>1, <2>2, <2>3, FiledOnWrite
<1>5. CASE ReadAssumptions
  BY <1>1, <1>5, FiledStays DEF ReadAssumptions, UnderWay
<1>6. CASE WriteSummary
  <2> DEFINE file == [run |-> runs, counts |-> Summary(results)]
  <2>1. "summary" \in Outputs /\ UnderWay /\ pc' # "checked" /\ "summary" \notin DOMAIN Following
    BY <1>6, FollowingIs DEF WriteSummary, UnderWay, Outputs
  <2>2. file.run = runs /\ file.counts = Summary(results)  OBVIOUS
  <2>3. out' = [out EXCEPT !["summary"] = file] /\ UNCHANGED <<rack, runs, judged, results>>  BY <1>6 DEF WriteSummary
  <2> HIDE DEF file
  <2> QED  BY <1>1, <2>1, <2>2, <2>3, FiledOnWrite
<1>7. CASE WriteBundle
  <2>1. PICK file : file.run = runs /\ out' = [out EXCEPT !["bundle"] = file]  BY <1>7 DEF WriteBundle
  <2>2. "bundle" \in Outputs /\ UnderWay /\ pc' # "checked" /\ "bundle" \notin DOMAIN Following
    BY <1>7, FollowingIs DEF WriteBundle, UnderWay, Outputs
  <2>3. UNCHANGED <<rack, runs, judged, results>>  BY <1>7 DEF WriteBundle
  <2> QED  BY <1>1, <2>1, <2>2, <2>3, FiledOnWrite
<1>8. CASE Cut  BY <1>1, <1>8, FiledStays DEF Cut, UnderWay
<1>9. ASSUME NEW n \in Names, NEW kind \in Kinds, Recollect(n, kind) PROVE Filed'
  BY <1>1, <1>9, FiledStays DEF Recollect, UnderWay
<1>10. CASE UNCHANGED vars  BY <1>1, <1>10, FiledStays DEF vars, UnderWay
<1> QED  BY <1>2, <1>3, <1>4, <1>5, <1>6, <1>7, <1>8, <1>9, <1>10 DEF Next

LEMMA UnchangedStep ==
  ASSUME TypeOK, Unchanged, [Next]_vars
  PROVE  Unchanged'
<1>1. CASE Start
  <2>1. ASSUME pc' = "checked", rack.strict, NEW n \in Names, NEW kind \in rack.policy.required \ {"pairwise"}
        PROVE  files[n][kind] # Absent
    BY <1>1, <2>1 DEF Start, Refused, Lacks
  <2> QED  BY <1>1, <2>1 DEF Start, Unchanged, UnderWay
<1>2. CASE Judge  BY <1>2 DEF Judge, Unchanged, UnderWay
<1>3. ASSUME NEW name \in DOMAIN Following, WriteReview(name) PROVE Unchanged'
  BY <1>3, FollowingIs DEF WriteReview, Unchanged, UnderWay
<1>4. CASE ReadAssumptions  BY <1>4 DEF ReadAssumptions, Unchanged, UnderWay
<1>5. CASE WriteSummary  BY <1>5 DEF WriteSummary, Unchanged, UnderWay
<1>6. CASE WriteBundle  BY <1>6 DEF WriteBundle, Unchanged, UnderWay
<1>7. CASE Cut  BY <1>7 DEF Cut, Unchanged, UnderWay
<1>8. ASSUME NEW n \in Names, NEW kind \in Kinds, Recollect(n, kind) PROVE Unchanged'
  <2>1. CASE pc = "idle"  BY <1>8, <2>1 DEF Recollect, Unchanged, UnderWay
  <2>2. CASE pc # "idle"
    <3>1. changed' = changed \cup {n}  BY <1>8, <2>2 DEF Recollect
    <3>2. \A m \in Names \ {n} : files'[m] = files[m]  BY <1>8 DEF Recollect, TypeOK, Directories
    <3> QED  BY <1>8, <3>1, <3>2 DEF Recollect, Unchanged, UnderWay
  <2> QED  BY <2>1, <2>2
<1>9. CASE UNCHANGED vars  BY <1>9 DEF vars, Unchanged, UnderWay
<1> QED  BY <1>1, <1>2, <1>3, <1>4, <1>5, <1>6, <1>7, <1>8, <1>9 DEF Next

LEMMA UntouchedStep ==
  ASSUME TypeOK, Filed, Unchanged, UntouchedIsVouchedFor, [Next]_vars
  PROVE  UntouchedIsVouchedFor'
<1> USE DEF UntouchedIsVouchedFor
<1>1. PICK dirs \in [Nat -> Directories] : FiledBy(dirs)  BY DEF Filed
<1>2. /\ out.bundle # NoFile => out.bundle.run \in 0..runs /\ (pc = "checked" => out.bundle.run # runs)
      /\ runs \in Nat /\ DOMAIN out = Outputs
  BY <1>1 DEF FiledBy, Outputs, TypeOK
<1>3. CASE Start
  <2>1. out' = out /\ runs' = runs + 1 /\ pc' \in {"idle", "checked"}  BY <1>3 DEF Start
  <2>2. out.bundle # NoFile => out.bundle.run # runs'  BY <1>2, <2>1
  <2> QED  BY <2>1, <2>2
<1>4. CASE Judge
  <2>1. pc = "checked" /\ pc' = "labels" /\ judged' = files /\ UNCHANGED <<rack, runs, out, changed>>  BY <1>4 DEF Judge
  <2>2. out.bundle # NoFile => out.bundle.run # runs'  BY <1>2, <2>1
  <2> QED  BY <2>1, <2>2 DEF Unchanged
<1>5. ASSUME NEW name \in DOMAIN Following, WriteReview(name) PROVE UntouchedIsVouchedFor'
  <2>1. out'.bundle = out.bundle  BY <1>2, <1>5, FollowingIs DEF WriteReview, Outputs
  <2>2. pc # "checked" /\ pc' # "labels"  BY <1>5, FollowingIs DEF WriteReview
  <2> QED  BY <1>5, <2>1, <2>2 DEF WriteReview
<1>6. CASE ReadAssumptions  BY <1>6 DEF ReadAssumptions
<1>7. CASE WriteSummary
  <2>1. out'.bundle = out.bundle  BY <1>2, <1>7 DEF WriteSummary, Outputs
  <2> QED  BY <1>7, <2>1 DEF WriteSummary
<1>8. CASE WriteBundle
  <2>1. out'.bundle.prints = [n \in Names |-> [kind \in Kinds |-> Fingerprint(n, kind)]]
    BY <1>2, <1>8 DEF WriteBundle, Outputs
  <2>2. ASSUME NEW n \in Names \ changed PROVE [kind \in Kinds |-> Fingerprint(n, kind)] = judged[n]
    <3>1. files[n] = judged[n]  BY <1>8 DEF WriteBundle, Unchanged, UnderWay
    <3>2. judged[n] = [kind \in Kinds |-> judged[n][kind]]  BY DEF TypeOK, Directories, NodeFiles, Kinds
    <3> QED  BY <3>1, <3>2 DEF Fingerprint
  <2> QED  BY <1>8, <2>1, <2>2 DEF WriteBundle
<1>9. CASE Cut
  <2>1. out.bundle # NoFile /\ out.bundle.run = runs => pc # "checked"  BY <1>2
  <2> QED  BY <1>9, <2>1 DEF Cut
<1>10. ASSUME NEW n \in Names, NEW kind \in Kinds, Recollect(n, kind) PROVE UntouchedIsVouchedFor'
  <2>1. changed \subseteq changed' /\ UNCHANGED <<rack, pc, runs, judged, out>>  BY <1>10 DEF Recollect
  <2> QED  BY <2>1
<1>11. CASE UNCHANGED vars  BY <1>11 DEF vars
<1> QED  BY <1>3, <1>4, <1>5, <1>6, <1>7, <1>8, <1>9, <1>10, <1>11 DEF Next

LEMMA Inductive == Spec => []IInv
<1>1. IInv /\ [Next]_vars => IInv'
  BY TypeStep, FiledStep, UnchangedStep, UntouchedStep DEF IInv
<1> QED  BY InitHolds, <1>1, PTL DEF Spec

-----------------------------------------------------------------------------
(* The state is of the stated type, whatever is put in the place of files.   *)
THEOREM TypeHolds == Spec => []TypeOK
<1>1. IInv => TypeOK  BY DEF IInv
<1> QED  BY Inductive, <1>1, PTL

(* Of a node whose evidence did not change while a run was under way, the    *)
(* bundle has the fingerprints of what was judged, and a strict run has not  *)
(* judged it without what the policy asks for (cli.py, evidence_bundle.py).  *)
THEOREM UntouchedHolds == Spec => []UntouchedIsVouchedFor
<1>1. IInv => UntouchedIsVouchedFor  BY DEF IInv
<1> QED  BY Inductive, <1>1, PTL

(* No loss of a file gives a node the multi-node label, except of one that   *)
(* held it back: of a topology with a warning, of sensors with a blocker, or *)
(* of runs with other nodes that the policy does not ask for (labels.py).    *)
THEOREM LossHolds == Spec => []LossNeverReleases
<1>1. IInv => LossNeverReleases
  BY LossReleasesOnlyTheHeld DEF IInv, TypeOK, LossNeverReleases
<1> QED  BY Inductive, <1>1, PTL

(* A node with the multi-node label has shown, in the files that were        *)
(* judged, everything that the label takes (labels.py, rules.py).            *)
THEOREM MultinodeHolds == Spec => []MultinodeIsEarned
<1>1. ASSUME IInv PROVE MultinodeIsEarned
  <2> SUFFICES ASSUME TextIsItsOwn, Written({"labels"}), out.labels.run = runs, pc # "checked", NEW k \in DOMAIN out.labels.rows,
                      rack.policy.names["multinode"] \in out.labels.rows[k].labels
               PROVE  LET n == out.labels.rows[k].node
                          shown == judged[n]
                      IN  /\ ShownAlone(shown.single) /\ ShownTogether(shown.pairwise, n)
                          /\ ShownGpus(shown.smi, n) /\ ShownCool(shown.bmc)
                          /\ shown.topology \notin {Absent, Unreadable} =>
                               \A p \in DOMAIN shown.topology.paths :
                                 shown.topology.paths[p] \notin rack.policy.weakPaths \cap GpuLabels
    BY DEF MultinodeIsEarned
  <2>1. PICK dirs \in [Nat -> Directories] : FiledBy(dirs)  BY <1>1 DEF IInv, Filed
  <2>2. "labels" \in Outputs /\ "labels" \in DOMAIN Following /\ out["labels"] # NoFile
    BY FollowingIs DEF Outputs, Written
  <2>3. out.labels.rows = Verdicts(judged)  BY <2>1, <2>2 DEF FiledBy, Content
  <2>4. k \in DOMAIN Nodes  BY <2>3, VerdictsType
  <2> DEFINE n == Nodes[k]
             stats == Rack(LoadEvidence(judged))
  <2>5. Verdicts(judged)[k] = Result(Load(judged[n], n, rack.policy), stats, rack.policy, rack.inventory)
    BY <2>4 DEF Verdicts, Qualify, LoadEvidence
  <2>6. n \in Names /\ judged[n] \in NodeFiles /\ rack \in Racks  BY <1>1, <2>4, NodesAreNamed DEF IInv, TypeOK, Directories
  <2>7. out.labels.rows[k].node = n
    <3>1. \A e : Result(e, stats, rack.policy, rack.inventory).node = e.node  BY DEF Result
    <3>2. Load(judged[n], n, rack.policy).node = n  BY DEF Load
    <3> QED  BY <2>3, <2>5, <3>1, <3>2
  <2>8. rack.policy.names["multinode"] \in Result(Load(judged[n], n, rack.policy), stats, rack.policy, rack.inventory).labels
    BY <2>3, <2>5
  <2> HIDE DEF n, stats
  <2> QED  BY <2>6, <2>7, <2>8, LabelIsEarned
<1> QED  BY Inductive, <1>1, PTL

(* The files of one run tell one story, and the reports made of them agree   *)
(* with the summary (workflow.py, impact.py, report.py).                     *)
THEOREM FilesHold == Spec => []FilesAgree
<1>1. ASSUME IInv PROVE FilesAgree
  <2>1. PICK dirs \in [Nat -> Directories] : FiledBy(dirs)  BY <1>1 DEF IInv, Filed
  <2>2. \A dir : Judges(Verdicts(dir))  BY VerdictsJudge
  <2>3. ASSUME NEW names, names \subseteq Outputs, NEW first \in names, OfOneRun(names)
        PROVE  \E v : /\ Judges(v)
                      /\ \A name \in names \cap DOMAIN Following : out[name].rows = Content(name, v)
                      /\ "summary" \in names => out.summary.counts = Summary(v)
    <3> DEFINE v == Verdicts(dirs[out[first].run])
    <3>1. \A name \in names : name \in Outputs /\ out[name] # NoFile /\ out[name].run = out[first].run
      BY <2>3 DEF OfOneRun, Written
    <3>2. Judges(v)  BY <2>2
    <3>3. \A name \in names \cap DOMAIN Following : out[name].rows = Content(name, v)  BY <2>1, <3>1 DEF FiledBy
    <3>4. "summary" \in names => out["summary"].counts = Summary(v)  BY <2>1, <3>1 DEF FiledBy
    <3> HIDE DEF v
    <3> QED  BY <3>2, <3>3, <3>4
  <2>4. RowsAgree
    <3> DEFINE names == {"labels", "quarantine", "queue", "slurm", "drain"}
    <3> SUFFICES ASSUME OfOneRun(names) PROVE RowsAgree  BY DEF RowsAgree
    <3>1. names \subseteq Outputs /\ "labels" \in names  BY DEF Outputs
    <3>2. PICK v : Judges(v) /\ \A name \in names \cap DOMAIN Following : out[name].rows = Content(name, v)
      <4> HIDE DEF names
      <4> QED  BY <2>3, <3>1
    <3>3. /\ out.quarantine.rows = Content("quarantine", v) /\ out.queue.rows = Content("queue", v)
          /\ out.slurm.rows = Content("slurm", v) /\ out.drain.rows = Content("drain", v)
      BY <3>2, FollowingIs
    <3>4. \A k \in DOMAIN v : Sound(v[k])  BY <3>2 DEF Judges
    <3> DEFINE drained == {row \in Range(out.quarantine.rows) : row.slurm = "DRAIN"}
               stopped == WithStatus(v, "QUARANTINE")
               open == DOMAIN v \ WithStatus(v, "PASS")
    <3>5. NodesOf(out.drain.rows) = At(v, stopped) /\ NodesOf(drained) = At(v, stopped)
      BY <3>3, <3>4, RowsShowTheVerdicts
    <3>6. NodesOf({row \in out.queue.rows : row.priority = "P0"}) = At(v, stopped)  BY <3>3, <3>4, RowsShowTheVerdicts
    <3>7. \A row \in drained : row.blockers # {} /\ row.reason # "OTHER"  BY <3>3, <3>4, RowsShowTheVerdicts
    <3>8. NodesOf(out.queue.rows) = At(v, open)  BY <3>3, <3>4, RowsShowTheVerdicts
    <3>9. NodesOf({row \in Range(out.quarantine.rows) : row.recommendation # "NONE"}) = At(v, open)
      BY <3>3, <3>4, RowsShowTheVerdicts
    <3>10. \A row \in out.queue.rows : \E line \in Range(out.slurm.rows) : line.node = row.node /\ line.lane = row.lane
      <4>1. \A row \in Content("queue", v) :
              \E line \in Range(Content("slurm", v)) : line.node = row.node /\ line.lane = row.lane
        BY <3>4, RowsShowTheVerdicts
      <4> QED  BY <3>3, <4>1
    <3> QED  BY <3>5, <3>6, <3>7, <3>8, <3>9, <3>10 DEF RowsAgree
  <2>5. ReportAgrees
    <3> DEFINE names == {"labels", "quarantine", "summary"}
    <3> SUFFICES ASSUME OfOneRun(names) PROVE ReportAgrees  BY DEF ReportAgrees
    <3>1. names \subseteq Outputs /\ "labels" \in names  BY DEF Outputs
    <3>2. PICK v : /\ Judges(v)
                   /\ \A name \in names \cap DOMAIN Following : out[name].rows = Content(name, v)
                   /\ "summary" \in names => out.summary.counts = Summary(v)
      <4> HIDE DEF names
      <4> QED  BY <2>3, <3>1
    <3>3. /\ out.labels.rows = v /\ out.quarantine.rows = Content("quarantine", v) /\ out.summary.counts = Summary(v)
      BY <3>2, FollowingIs DEF Content
    <3> QED  BY <3>2, <3>3, ReportShows, ImpactShows DEF ReportAgrees
  <2> QED  BY <2>4, <2>5 DEF FilesAgree
<1> QED  BY Inductive, <1>1, PTL
=============================================================================
