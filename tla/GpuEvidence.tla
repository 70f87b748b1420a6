----------------------------- MODULE GpuEvidence -----------------------------
(***************************************************************************)
(* gpu-rack-qualifier, the parsers: what becomes of the five files of one  *)
(* node's evidence directory.  A file is Absent, Unreadable or what can be *)
(* read in it: bandwidths are numbers in one unit, and a line of output    *)
(* with a time-out or an error is a flag of its file.                      *)
(***************************************************************************)
EXTENDS Integers, SequencesExt, FiniteSetsExt, TLC

CONSTANTS Absent,      \* no such file
          Unreadable,  \* a file in which the parser finds nothing
          None         \* a field without a value

Kinds == {"single", "pairwise", "topology", "smi", "bmc"}

(* What may be found in the place of a file, and in a node's directory.     *)
Maybe(T) == T \cup {None}

FileOf(content) == {Absent, Unreadable} \cup content

NodeSets == {S \in SUBSET STRING : IsFiniteSet(S)}

FilesOf ==
  [single |-> FileOf([timeout : BOOLEAN, failed : BOOLEAN,
                      samples : Seq([large : BOOLEAN, bw : Maybe(Int), wrong : BOOLEAN])]),
   pairwise |-> FileOf(Seq([nodes : NodeSets, bw : Maybe(Int), timeout : BOOLEAN])),
   topology |-> FileOf({t \in [matrix : BOOLEAN, paths : Seq(STRING), p2pMissing : BOOLEAN] : ~t.matrix => t.paths = <<>>}),
   smi |-> FileOf([driver : Maybe(STRING), cuda : Maybe(STRING),
                   gpus : Seq([vbios : Maybe(STRING), mode : Maybe(STRING), retired : BOOLEAN, active : BOOLEAN])]),
   bmc |-> FileOf(Seq([type : STRING, health : Maybe(STRING), reading : Maybe(Int), kept : BOOLEAN, redundancy : BOOLEAN]))]

NodeFiles ==
  [single : FilesOf.single, pairwise : FilesOf.pairwise, topology : FilesOf.topology, smi : FilesOf.smi, bmc : FilesOf.bmc]

Codes(cond, code) == IF cond THEN {code} ELSE {}

Some(s, P(_)) == \E k \in DOMAIN s : P(s[k])

FirstWhere(s, P(_)) == s[Min({k \in DOMAIN s : P(s[k])})]

\* Twice the median, since the median of an even number of values may lie between two.
TwiceMedian(values) ==
  LET sorted == SortSeq(values, <)
      n == Len(values)
  IN  sorted[(n + 1) \div 2] + sorted[n \div 2 + 1]

-----------------------------------------------------------------------------
(* The single-node run: samples of a size that counts or not.               *)

Eligible(sample) == sample.large /\ sample.bw # None

SingleStatus(file) ==
  IF file.timeout THEN "TIMEOUT"
  ELSE IF file.failed \/ Some(file.samples, LAMBDA s : s.wrong) THEN "FAIL"
  ELSE IF Some(file.samples, Eligible) THEN "PASS" ELSE "WARN"

NoRun == [timeout |-> FALSE, failed |-> FALSE, samples |-> <<>>]

Single(file) ==
  LET run == CASE file = Absent -> NoRun
               [] file = Unreadable -> NoRun
               [] OTHER -> file
      eligible == SelectSeq(run.samples, Eligible)
      wrong == Some(run.samples, LAMBDA s : s.wrong)
  IN  IF file = Absent
      THEN [present |-> FALSE, parsed |-> FALSE, status |-> "MISSING", p50 |-> None,
            timeout |-> FALSE, error |-> FALSE, wrong |-> FALSE, codes |-> {}]
      ELSE [present |-> TRUE, parsed |-> run.samples # <<>>, status |-> SingleStatus(run),
            p50 |-> IF ~Some(run.samples, Eligible) THEN None ELSE TwiceMedian([k \in DOMAIN eligible |-> eligible[k].bw]),
            timeout |-> run.timeout, error |-> run.failed \/ wrong, wrong |-> wrong,
            codes |-> Codes(run.failed, "NCCL_CORRECTNESS_ERROR") \cup Codes(wrong, "NCCL_WRONG_COUNT_NONZERO")
                      \cup Codes(run.samples = <<>>, "NCCL_PARSE_FAILED") \cup Codes(~Some(run.samples, Eligible), "NCCL_SMALL_SAMPLE")]

(* The runs with other nodes: a record's status is looked at for a time-out *)
(* only and its wrong counts are not, and a row with no field of the names  *)
(* expected is a record too.                                                *)
IsWeak(record, minimum) == minimum # None /\ record.bw # None /\ record.bw < minimum

TimedOut(record) == record.timeout

Pairwise(file, node, minimum) ==
  LET read == IF file \in {Absent, Unreadable} THEN <<>> ELSE file
      weak == {k \in DOMAIN read : IsWeak(read[k], minimum)}
      timeouts == Cardinality({k \in DOMAIN read : TimedOut(read[k])})
  IN  [present |-> file # Absent, timeouts |-> timeouts,
       status |-> IF file \in {Absent, Unreadable} THEN "MISSING"
                  ELSE IF timeouts > 0 THEN "TIMEOUT"
                  ELSE IF weak # {} THEN "WEAK"
                  ELSE IF read # <<>> THEN "PASS" ELSE "WARN",
       weakPeers |-> Cardinality((UNION {read[k].nodes : k \in weak}) \ {node}),
       codes |-> Codes(file = Unreadable, "NCCL_PARSE_FAILED") \cup Codes(file = <<>>, "NCCL_SMALL_SAMPLE")]

-----------------------------------------------------------------------------
(* Paths between pairs of GPUs: a label that is not in the table does not   *)
(* count as a path, and so not as an NVLink.  The optional table of peer    *)
(* access is a field of the file, and is read even where no matrix is found. *)
NvLinks == {"NV1", "NV2", "NV3", "NV4", "NV5", "NV6", "NV7", "NV8", "NV9", "NV10", "NV11", "NV12"}

GpuLabels == NvLinks \cup {"N/A", "PIX", "PXB", "PHB", "NODE", "SYS"}

Topology(file, weakPaths, reviewPaths) ==
  LET paths == IF file \in {Absent, Unreadable} THEN <<>> ELSE file.paths
      Paths(labels) == Cardinality({k \in DOMAIN paths : paths[k] \in labels \cap GpuLabels})
  IN  [present |-> file # Absent, weak |-> Paths(weakPaths), review |-> Paths(reviewPaths), nvlinks |-> Paths(NvLinks),
       p2pMissing |-> file \notin {Absent, Unreadable} /\ file.p2pMissing,
       codes |-> Codes(file = Unreadable \/ (file # Absent /\ ~file.matrix), "TOPO_PARSE_FAILED")]

(* nvidia-smi: versions and, per GPU, its firmware, its mode (MIG; the ECC  *)
(* mode is judged likewise), its retired pages, and whether an element      *)
(* whose name does not speak of throttling or clock events says that it is  *)
(* active: those whose name does are skipped.                               *)
Smi(file) ==
  IF file \in {Absent, Unreadable}
  THEN [present |-> file # Absent, count |-> None, driver |-> None, cuda |-> None, vbios |-> {}, modes |-> {},
        retired |-> FALSE, active |-> FALSE, codes |-> Codes(file = Unreadable, "NVIDIA_SMI_QUERY_PARSE_FAILED")]
  ELSE LET Values(Field(_)) == {Field(file.gpus[k]) : k \in DOMAIN file.gpus} \ {None}
       IN  [present |-> TRUE, count |-> Len(file.gpus), driver |-> file.driver, cuda |-> file.cuda,
            vbios |-> Values(LAMBDA g : g.vbios), modes |-> Values(LAMBDA g : g.mode),
            retired |-> Some(file.gpus, LAMBDA g : g.retired), active |-> Some(file.gpus, LAMBDA g : g.active),
            codes |-> {}]

(* The BMC's sensors.  A reading is taken from the first of several fields  *)
(* that is true, which the number zero is not, unless it is in the last of  *)
(* them; a zero given as text is.  Such a zero is kept.                     *)
Bad == {"warning", "critical"}

Reading(sensor) == IF sensor.reading = 0 /\ ~sensor.kept THEN None ELSE sensor.reading

Bmc(file) ==
  LET sensors == IF file \in {Absent, Unreadable} THEN <<>> ELSE file
      critical == Some(sensors, LAMBDA s : s.health = "critical")
      warning == Some(sensors, LAMBDA s : s.health = "warning")
      fan == Some(sensors, LAMBDA s : s.type = "fan" /\ (s.health \in Bad \/ Reading(s) = 0))
      temperatures == {Reading(sensors[k]) : k \in {j \in DOMAIN sensors : sensors[j].type = "temperature"}} \ {None}
  IN  [present |-> file # Absent, critical |-> critical, warning |-> warning, fan |-> fan,
       hottest |-> IF temperatures = {} THEN None ELSE Max(temperatures),
       powerWarning |-> Some(sensors, LAMBDA s : s.type = "power" /\ (s.health = "warning" \/ (s.redundancy /\ s.health # "ok"))),
       powerCritical |-> Some(sensors, LAMBDA s : s.type \in {"power", "voltage"} /\ s.health = "critical"),
       codes |-> Codes(file = Unreadable, "BMC_SENSOR_PARSE_FAILED") \cup Codes(critical, "BMC_HEALTH_CRITICAL")
                 \cup Codes(warning /\ ~critical, "BMC_HEALTH_WARNING") \cup Codes(fan, "BMC_FAN_FAILURE")]

(* All of one node's directory, under a policy.                             *)
Load(files, node, policy) ==
  [node |-> node,
   single |-> Single(files.single),
   pairwise |-> Pairwise(files.pairwise, node, policy.minPairwise),
   topology |-> Topology(files.topology, policy.weakPaths, policy.reviewPaths),
   smi |-> Smi(files.smi),
   bmc |-> Bmc(files.bmc)]
=============================================================================
