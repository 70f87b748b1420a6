----------------------------- MODULE MCGpuRack -----------------------------
(* Two nodes.  A first run finds healthy evidence in which up to two files   *)
(* differ; files are put in place of others, and a second run is made, only  *)
(* where none or one of them does.                                           *)
EXTENDS GpuRack

MCNodes == <<"gpu001", "gpu002">>

Sample(bw) == [large |-> TRUE, bw |-> bw, wrong |-> FALSE]

SingleRun(samples) == [timeout |-> FALSE, failed |-> FALSE, samples |-> samples]

Record(bw) == [nodes |-> Range(MCNodes), bw |-> bw, timeout |-> FALSE]

Paths(labels) == [matrix |-> TRUE, paths |-> labels, p2pMissing |-> FALSE]

Gpu == [vbios |-> "v1", mode |-> "disabled", retired |-> FALSE, active |-> FALSE]

Query(gpus) == [driver |-> "d1", cuda |-> "c1", gpus |-> gpus]

Sensor(type, health, reading) == [type |-> type, health |-> health, reading |-> reading, kept |-> FALSE, redundancy |-> FALSE]

Fan == Sensor("fan", "ok", 9)

Healthy ==
  [single |-> SingleRun(<<Sample(8)>>),
   pairwise |-> <<Record(8)>>,
   topology |-> Paths(<<"NV4">>),
   smi |-> Query(<<Gpu, Gpu>>),
   bmc |-> <<Sensor("temperature", "ok", 40), Fan>>]

Variants(kind) ==
  CASE kind = "single" ->
         {SingleRun(<<Sample(5)>>), SingleRun(<<Sample(2), Sample(4)>>), SingleRun(<<[Sample(8) EXCEPT !.large = FALSE]>>),
          [Healthy.single EXCEPT !.timeout = TRUE], [Healthy.single EXCEPT !.failed = TRUE],
          SingleRun(<<Sample(8), [Sample(8) EXCEPT !.wrong = TRUE]>>)}
    [] kind = "pairwise" ->
         {<<>>, <<Record(2)>>, <<Record(8), [Record(8) EXCEPT !.timeout = TRUE]>>, <<Record(None)>>,
          <<[Record(2) EXCEPT !.nodes = {"gpu001"}]>>}
    [] kind = "topology" ->
         {Paths(<<"SYS">>), Paths(<<"PXB", "NV4">>), Paths(<<"NV18">>), [Paths(<<"NV4">>) EXCEPT !.p2pMissing = TRUE],
          [matrix |-> FALSE, paths |-> <<>>, p2pMissing |-> TRUE]}
    [] kind = "smi" ->
         {Query(<<Gpu>>), Query(<<>>), [Healthy.smi EXCEPT !.driver = "d2", !.cuda = "c2"], [Healthy.smi EXCEPT !.driver = None],
          Query(<<Gpu, [Gpu EXCEPT !.vbios = "v2"]>>), Query(<<Gpu, [Gpu EXCEPT !.mode = "enabled", !.retired = TRUE]>>)}
    [] kind = "bmc" ->
         {<<Sensor("fan", "critical", 3)>>, <<Sensor("fan", "ok", 0)>>, <<[Sensor("fan", "ok", 0) EXCEPT !.kept = TRUE]>>, <<Sensor("fan", "warning", 3)>>,
          <<Sensor("temperature", "ok", 85)>>, <<Sensor("temperature", "ok", 95)>>, <<Sensor("power", "critical", None)>>,
          <<[Sensor("power", None, None) EXCEPT !.redundancy = TRUE]>>}

Anything(kind) == {Absent, Unreadable} \cup Variants(kind)

Rackful == [n \in Range(MCNodes) |-> Healthy]

Varied(dir) == UNION {{[dir EXCEPT ![n][kind] = file] : file \in Anything(kind)} : n \in Range(MCNodes), kind \in Kinds}

VariedOnce == {Rackful} \cup Varied(Rackful)

MCEvidence == VariedOnce \cup UNION {Varied(dir) : dir \in VariedOnce}

MCRecollected(kind) ==
  {Healthy[kind], Unreadable} \cup (IF kind \in {"smi", "bmc"} THEN {Absent} ELSE {})

MCRunsOn(dir) == IF dir = Rackful THEN 2 ELSE 1

MCSpare(dir) == IF dir \in VariedOnce THEN 1 ELSE 0

-----------------------------------------------------------------------------
Texts ==
  [pass |-> "rackq_pass", review |-> "rackq_review", quarantine |-> "rackq_quarantine", inference |-> "gpu_inference_ok",
   single |-> "gpu_training_single_node_ok", multinode |-> "gpu_training_multinode_ok", avoidMultinode |-> "gpu_avoid_multinode",
   weakLink |-> "gpu_link_weak", firmwareReview |-> "gpu_fw_review", sensorReview |-> "gpu_sensor_review",
   doNotSchedule |-> "gpu_do_not_schedule"]

DefaultPolicy ==
  [required |-> {"single", "pairwise", "topology", "smi"}, inventoryRequired |-> FALSE,
   minSingle |-> None, minPairwise |-> None, warnPct |-> 75, failPct |-> 50,
   timeoutBlocks |-> TRUE, errorBlocks |-> TRUE, wrongBlocks |-> TRUE,
   weakPaths |-> {"SYS", "PHB"}, reviewPaths |-> {"PXB"}, nvlinkRequired |-> FALSE, p2pExpected |-> FALSE,
   driverConsistency |-> TRUE, vbiosConsistency |-> TRUE, vbiosDrains |-> TRUE,
   criticalBlocks |-> TRUE, fanBlocks |-> TRUE, powerBlocks |-> TRUE, warnTemp |-> 80, criticalTemp |-> 90,
   names |-> Texts, inferenceInQuarantine |-> FALSE]

ExamplePolicy == [DefaultPolicy EXCEPT !.minPairwise = 5]

LenientPolicy ==
  [DefaultPolicy EXCEPT !.required = {"single", "bmc"}, !.inventoryRequired = TRUE, !.minSingle = 3, !.minPairwise = 5,
     !.timeoutBlocks = FALSE, !.errorBlocks = FALSE, !.vbiosDrains = FALSE, !.criticalBlocks = FALSE, !.fanBlocks = FALSE,
     !.inferenceInQuarantine = TRUE, !.driverConsistency = FALSE]

SitePolicy ==
  [ExamplePolicy EXCEPT !.nvlinkRequired = TRUE, !.p2pExpected = TRUE, !.names["multinode"] = "site_multi", !.names["single"] = "site_single"]

Stated == [count |-> 2, counts |-> [n \in Range(MCNodes) |-> None], drivers |-> {"d1"}, cudas |-> {}, mode |-> "disabled"]

StatedPerNode == [Stated EXCEPT !.count = None, !.counts["gpu002"] = 2, !.drivers = {}, !.mode = None]

MCRacks ==
  {[policy |-> p, inventory |-> i, strict |-> s, bundle |-> s, assumptions |-> a] :
     <<p, i, s, a>> \in {<<ExamplePolicy, Stated, TRUE, Absent>>, <<DefaultPolicy, NoInventory, FALSE, Absent>>,
                         <<LenientPolicy, StatedPerNode, TRUE, Absent>>, <<LenientPolicy, NoInventory, FALSE, Unreadable>>,
                         <<SitePolicy, StatedPerNode, FALSE, Absent>>}}
=============================================================================
