----------------------------- MODULE GpuQualify -----------------------------
(***************************************************************************)
(* gpu-rack-qualifier, the decision: from the evidence of a rack's nodes,  *)
(* a policy and an inventory to each node's blockers, warnings and reason  *)
(* codes, its status, its scheduler labels, and the rows the output files  *)
(* show of it.  nodes is a sequence of loaded evidence, in the order of    *)
(* the node names.                                                         *)
(*                                                                         *)
(* Left out: the rounding of bandwidths and percentages, the confidence,   *)
(* questions and texts, and the alphabetical choice of a primary reason    *)
(* that is neither a blocker nor a parser's failure ("OTHER").             *)
(***************************************************************************)
EXTENDS GpuEvidence

CONSTANT NoInventory

(* What the rack is like: the median of its nodes' medians, times four, and *)
(* the versions most of them have, the first such node's where two tie.     *)
PeerMedian(runs) ==
  LET peers == SelectSeq(runs, LAMBDA run : run.p50 # None /\ run.status = "PASS")
  IN  IF Len(peers) < 2 THEN None ELSE TwiceMedian([k \in DOMAIN peers |-> peers[k].p50])

MostCommon(values) ==
  LET known == SelectSeq(values, LAMBDA v : v # None)
      Times(v) == Cardinality({k \in DOMAIN known : known[k] = v})
      Leads(k) == \A j \in DOMAIN known : Times(known[j]) < Times(known[k]) \/ (Times(known[j]) = Times(known[k]) /\ k <= j)
  IN  IF known = <<>> THEN None ELSE known[CHOOSE k \in DOMAIN known : Leads(k)]

Rack(nodes) ==
  [median |-> PeerMedian([k \in DOMAIN nodes |-> nodes[k].single]),
   driver |-> MostCommon([k \in DOMAIN nodes |-> nodes[k].smi.driver]),
   cuda |-> MostCommon([k \in DOMAIN nodes |-> nodes[k].smi.cuda])]

-----------------------------------------------------------------------------
(* The evidence that is there at all.                                       *)
MissingCode ==
  [single |-> "NCCL_SINGLE_NODE_MISSING", pairwise |-> "NCCL_PAIRWISE_MISSING", topology |-> "TOPO_MISSING",
   smi |-> "NVIDIA_SMI_QUERY_MISSING", bmc |-> "BMC_SNAPSHOT_MISSING"]

RequiredCode ==
  [single |-> {"NCCL_REQUIRED_BUT_MISSING"}, pairwise |-> {"NCCL_PAIRWISE_MISSING"},
   topology |-> {"TOPOLOGY_REQUIRED_BUT_MISSING"}, smi |-> {"HARDWARE_IDENTITY_UNKNOWN"}, bmc |-> {}]

Lost(e) == {kind \in Kinds : ~e[kind].present}

EvidenceWarnings(e, policy, inventory) ==
  LET required == Lost(e) \cap policy.required
  IN  (UNION {RequiredCode[kind] : kind \in required}) \cup {MissingCode[kind] : kind \in Lost(e) \ required}
      \cup Codes(inventory = NoInventory, "INVENTORY_MISSING") \cup Codes(required # {}, "PARTIAL_EVIDENCE")

(* The hardware.  An inventory states the versions it accepts, {} for any;  *)
(* a node's own number of GPUs goes before the rack's.                      *)
Expected(e, inventory) ==
  IF inventory = NoInventory THEN None
  ELSE IF inventory.counts[e.node] # None THEN inventory.counts[e.node] ELSE inventory.count

Mismatch(version, accepted, baseline, policy) ==
  IF accepted # {} THEN version # None /\ version \notin accepted
  ELSE policy.driverConsistency /\ baseline # None /\ version # None /\ version # baseline

Accepted(inventory) == IF inventory = NoInventory THEN [drivers |-> {}, cudas |-> {}, mode |-> None] ELSE inventory

Summarized(values) == CASE values = {} -> None [] Cardinality(values) = 1 -> CHOOSE v \in values : TRUE [] OTHER -> "mixed"

TooFew(e, inventory) == Expected(e, inventory) # None /\ e.smi.count # None /\ e.smi.count < Expected(e, inventory)

DriverMismatch(e, rack, policy, inventory) == Mismatch(e.smi.driver, Accepted(inventory).drivers, rack.driver, policy)

VbiosMismatch(e, policy) == policy.vbiosConsistency /\ Cardinality(e.smi.vbios) > 1

HardwareWarnings(e, rack, policy, inventory) ==
  LET mode == Summarized(e.smi.modes)
      expected == Accepted(inventory).mode
  IN  Codes(e.smi.count = None, "GPU_COUNT_MISSING")
      \cup Codes(DriverMismatch(e, rack, policy, inventory), "DRIVER_VERSION_MISMATCH")
      \cup Codes(Mismatch(e.smi.cuda, Accepted(inventory).cudas, rack.cuda, policy), "CUDA_VERSION_MISMATCH")
      \cup Codes(VbiosMismatch(e, policy) /\ ~policy.vbiosDrains, "VBIOS_MISMATCH")
      \cup Codes(expected # None /\ mode # None /\ mode # expected, "MIG_MODE_MISMATCH")
      \cup Codes(e.smi.retired, "RETIRED_PAGES_OBSERVED") \cup Codes(e.smi.active, "CLOCK_THROTTLE_OBSERVED")

HardwareBlockers(e, policy, inventory) ==
  Codes(TooFew(e, inventory), "GPU_COUNT_BELOW_EXPECTED")
  \cup Codes(VbiosMismatch(e, policy) /\ policy.vbiosDrains, "VBIOS_MISMATCH_DRAIN_POLICY")

(* The bandwidths.  The median of the peers is four times its value and a   *)
(* node's twice, so the percentage is 200 times the one through the other.  *)
Below(p50, median, percent) == 200 * p50 < percent * median

Compared(e, rack) == e.single.p50 # None /\ rack.median \notin {None, 0}

NcclWarnings(e, rack, policy) ==
  LET below(percent) == Compared(e, rack) /\ Below(e.single.p50, rack.median, percent)
      codes == e.single.codes \cup e.pairwise.codes
  IN  (codes \cap {"NCCL_PARSE_FAILED", "NCCL_SMALL_SAMPLE"})
      \cup Codes(policy.minSingle # None /\ e.single.p50 # None /\ e.single.p50 < 2 * policy.minSingle, "NCCL_SINGLE_NODE_WARN")
      \cup Codes(policy.minSingle = None /\ rack.median = None, "NO_ABSOLUTE_THRESHOLD")
      \cup Codes(~Compared(e, rack) /\ e.single.parsed, "PEER_MEDIAN_SMALL_SAMPLE")
      \cup Codes(below(policy.failPct), "NCCL_BELOW_PEER_MEDIAN_FAIL")
      \cup Codes(below(policy.warnPct) /\ ~below(policy.failPct), "NCCL_BELOW_PEER_MEDIAN_WARNING")
      \cup Codes(e.pairwise.timeouts > 0, "NCCL_PAIRWISE_TIMEOUT") \cup Codes(e.pairwise.status = "WEAK", "NCCL_PAIRWISE_WEAK")

NcclBlockers(e, policy) ==
  Codes(e.single.timeout /\ policy.timeoutBlocks, "NCCL_TIMEOUT")
  \cup Codes(e.single.error /\ policy.errorBlocks, "NCCL_CORRECTNESS_ERROR")
  \cup Codes(e.single.wrong /\ policy.wrongBlocks, "NCCL_WRONG_COUNT_NONZERO")

(* The topology: a file that cannot be read warns of nothing.               *)
TopologyWarnings(e, policy) ==
  Codes(e.topology.weak > 0 \/ (policy.nvlinkRequired /\ e.topology.present /\ e.topology.nvlinks = 0), "TOPO_WEAK_GPU_PATH")
  \cup Codes(e.topology.review > 0, "TOPO_REVIEW_GPU_PATH")
  \cup Codes(policy.p2pExpected /\ e.topology.p2pMissing, "TOPO_P2P_NVLINK_MISSING")

(* The sensors.                                                             *)
TooHot(e, limit) == e.bmc.hottest # None /\ e.bmc.hottest >= limit

SensorWarnings(e, policy) ==
  Codes(e.bmc.warning, "BMC_HEALTH_WARNING") \cup Codes(e.bmc.powerWarning, "BMC_POWER_WARNING")
  \cup Codes(TooHot(e, policy.warnTemp) /\ ~TooHot(e, policy.criticalTemp), "BMC_TEMP_WARNING")

SensorBlockers(e, policy) ==
  Codes(e.bmc.critical /\ policy.criticalBlocks, "BMC_HEALTH_CRITICAL")
  \cup Codes(e.bmc.fan /\ policy.fanBlocks, "BMC_FAN_FAILURE")
  \cup Codes(TooHot(e, policy.criticalTemp), "BMC_TEMP_CRITICAL")
  \cup Codes(e.bmc.powerCritical /\ policy.powerBlocks, "BMC_POWER_CRITICAL")

ParserWarnings(e) == (e.smi.codes \cup e.bmc.codes) \cap {"NVIDIA_SMI_QUERY_PARSE_FAILED", "BMC_SENSOR_PARSE_FAILED"}

-----------------------------------------------------------------------------
(* All of a node's features, and the reason codes that some output names.   *)
Blockers(e, policy, inventory) ==
  HardwareBlockers(e, policy, inventory) \cup NcclBlockers(e, policy) \cup SensorBlockers(e, policy)

Warnings(e, rack, policy, inventory) ==
  EvidenceWarnings(e, policy, inventory) \cup HardwareWarnings(e, rack, policy, inventory) \cup NcclWarnings(e, rack, policy)
  \cup TopologyWarnings(e, policy) \cup SensorWarnings(e, policy) \cup ParserWarnings(e)

Reasons(e, rack, policy, inventory) ==
  (UNION {e[kind].codes : kind \in Kinds}) \cup Codes(TooFew(e, inventory), "GPU_COUNT_BELOW_EXPECTED")
  \cup Codes(DriverMismatch(e, rack, policy, inventory), "DRIVER_VERSION_MISMATCH")
  \cup (IF VbiosMismatch(e, policy)
        THEN {"VBIOS_MISMATCH"} \cup Codes(policy.vbiosDrains, "DRAIN_REVIEW_RECOMMENDED") ELSE {})
  \cup Codes(TooHot(e, policy.criticalTemp), "BMC_TEMP_CRITICAL") \cup Codes(e.bmc.powerCritical, "BMC_POWER_CRITICAL")

(* The status.  A critical power supply is a blocker that by itself does    *)
(* not quarantine.                                                          *)
QuarantineBlockers ==
  {"NCCL_CORRECTNESS_ERROR", "NCCL_TIMEOUT", "NCCL_WRONG_COUNT_NONZERO", "GPU_COUNT_BELOW_EXPECTED", "BMC_HEALTH_CRITICAL",
   "BMC_FAN_FAILURE", "BMC_TEMP_CRITICAL", "VBIOS_MISMATCH_DRAIN_POLICY"}

MultinodeRisk(e, warnings, policy) ==
  e.pairwise.status \in {"WEAK", "TIMEOUT"} \/ e.pairwise.timeouts > 0 \/ e.pairwise.weakPeers > 0 \/ e.topology.weak > 0
  \/ (policy.nvlinkRequired /\ "TOPO_WEAK_GPU_PATH" \in warnings)

Status(e, blockers, warnings, policy) ==
  IF blockers \cap QuarantineBlockers # {} THEN "QUARANTINE"
  ELSE IF e.single.status # "PASS" THEN IF blockers = {} THEN "REVIEW" ELSE "QUARANTINE"
  ELSE IF MultinodeRisk(e, warnings, policy) THEN "AVOID_MULTINODE"
  ELSE IF "NCCL_PAIRWISE_MISSING" \in warnings /\ "pairwise" \in policy.required THEN "INFERENCE_ONLY"
  ELSE IF (e.pairwise.status = "PASS" \/ "pairwise" \notin policy.required) /\ warnings = {} THEN "PASS"
  ELSE IF blockers = {} THEN "REVIEW" ELSE "QUARANTINE"

-----------------------------------------------------------------------------
(* The labels, by their roles; policy.names gives the text of a role.       *)
AllRoles ==
  {"pass", "review", "quarantine", "inference", "single", "multinode", "avoidMultinode", "weakLink", "firmwareReview",
   "sensorReview", "doNotSchedule"}

InferenceBlockers ==
  {"NCCL_CORRECTNESS_ERROR", "NCCL_WRONG_COUNT_NONZERO", "BMC_HEALTH_CRITICAL", "BMC_TEMP_CRITICAL", "BMC_FAN_FAILURE"}

\* Mutant: only a counted lack of GPUs stands in the way.
InferenceUnlessNoGpu(e, blockers) == blockers \cap InferenceBlockers = {} /\ e.smi.count # 0

InferenceSupported(e, blockers) == blockers \cap InferenceBlockers = {} /\ e.smi.count \notin {None, 0}

SingleNodeSupported(e, blockers) == InferenceSupported(e, blockers) /\ e.single.status = "PASS"

\* Mutant: the run with the other nodes is not looked at again.
MultinodeByTopology(e, blockers, policy) == SingleNodeSupported(e, blockers) /\ e.topology.weak = 0

MultinodeSupported(e, blockers, policy) ==
  /\ SingleNodeSupported(e, blockers)
  /\ "pairwise" \in policy.required => e.pairwise.status = "PASS"
  /\ e.topology.weak = 0 /\ e.pairwise.timeouts = 0 /\ e.pairwise.weakPeers = 0

ReviewRoles(e, blockers, policy) ==
  {"review"} \cup Codes(InferenceSupported(e, blockers), "inference") \cup Codes(SingleNodeSupported(e, blockers), "single")
  \cup Codes(MultinodeSupported(e, blockers, policy), "multinode")

Roles(e, status, blockers, reasons, policy) ==
  IF status = "QUARANTINE" THEN {"quarantine", "doNotSchedule"} \cup Codes(policy.inferenceInQuarantine, "inference")
  ELSE (CASE status = "PASS" -> {"pass", "inference", "single", "multinode"}
          [] status = "INFERENCE_ONLY" -> {"review", "inference", "avoidMultinode"}
          [] status = "AVOID_MULTINODE" ->
               {"review", "single", "avoidMultinode"}
               \cup Codes(e.topology.weak > 0 \/ e.pairwise.weakPeers > 0 \/ e.pairwise.timeouts > 0, "weakLink")
          [] status = "REVIEW" -> ReviewRoles(e, blockers, policy))
       \cup Codes(reasons \cap {"VBIOS_MISMATCH", "DRIVER_VERSION_MISMATCH"} # {}, "firmwareReview")
       \cup Codes(e.bmc.warning \/ e.bmc.critical \/ e.bmc.fan, "sensorReview")

RecommendedState(status, reasons) ==
  CASE status = "PASS" -> "KEEP"
    [] status = "QUARANTINE" -> "QUARANTINE_REVIEW"
    [] status \notin {"PASS", "QUARANTINE"} -> IF "DRAIN_REVIEW_RECOMMENDED" \in reasons THEN "DRAIN_REVIEW" ELSE "REVIEW"

Result(e, rack, policy, inventory) ==
  LET blockers == Blockers(e, policy, inventory)
      warnings == Warnings(e, rack, policy, inventory)
      reasons == Reasons(e, rack, policy, inventory)
      status == Status(e, blockers, warnings, policy)
  IN  [node |-> e.node, status |-> status, blockers |-> blockers, warnings |-> warnings, reasons |-> reasons,
       labels |-> {policy.names[role] : role \in Roles(e, status, blockers, reasons, policy)},
       state |-> RecommendedState(status, reasons)]

Qualify(nodes, policy, inventory) == [k \in DOMAIN nodes |-> Result(nodes[k], Rack(nodes), policy, inventory)]

-----------------------------------------------------------------------------
(* What the outputs show of a result.  Their label names are written out    *)
(* and not the policy's.                                                    *)
Lane(status, labels) ==
  CASE status = "PASS" -> "MULTINODE_READY"
    [] status = "AVOID_MULTINODE" -> "AVOID_MULTINODE"
    [] status = "INFERENCE_ONLY" -> "INFERENCE_ONLY"
    [] status = "QUARANTINE" -> "QUARANTINE_REVIEW"
    [] status = "REVIEW" -> IF "gpu_training_single_node_ok" \in labels THEN "SINGLE_NODE_READY" ELSE "REVIEW_REQUIRED"

PrimaryReasons ==
  <<"NVIDIA_SMI_QUERY_PARSE_FAILED", "NCCL_PARSE_FAILED", "BMC_SENSOR_PARSE_FAILED", "NCCL_CORRECTNESS_ERROR",
    "NCCL_WRONG_COUNT_NONZERO", "NCCL_TIMEOUT", "GPU_COUNT_BELOW_EXPECTED", "BMC_HEALTH_CRITICAL", "BMC_TEMP_CRITICAL",
    "BMC_FAN_FAILURE", "BMC_POWER_CRITICAL", "VBIOS_MISMATCH_DRAIN_POLICY">>

FirstOf(order, codes) ==
  LET listed(code) == code \in codes
  IN  IF Some(order, listed) THEN FirstWhere(order, listed) ELSE "OTHER"

QuarantineRow(result) ==
  LET recommendation == CASE result.status = "PASS" -> "NONE"
                          [] result.status = "QUARANTINE" -> "QUARANTINE_REVIEW"
                          [] OTHER -> result.status
      reason == FirstOf(PrimaryReasons, result.blockers \cup result.warnings \cup result.reasons)
      drain == recommendation \in {"DRAIN_REVIEW", "QUARANTINE_REVIEW"}
  IN  [node |-> result.node, recommendation |-> recommendation, reason |-> reason, blockers |-> result.blockers,
       slurm |-> IF drain THEN "DRAIN" ELSE "UNCHANGED", drainReason |-> IF drain THEN reason ELSE None,
       inference |-> "gpu_inference_ok" \in result.labels, avoid |-> "gpu_avoid_multinode" \in result.labels]

Priority(result) == CASE result.status = "QUARANTINE" -> "P0" [] result.status = "AVOID_MULTINODE" -> "P1" [] OTHER -> "P2"

QueueRows(results) ==
  {[node |-> results[k].node, priority |-> Priority(results[k]), lane |-> Lane(results[k].status, results[k].labels),
    state |-> results[k].state, reason |-> QuarantineRow(results[k]).reason] :
   k \in {j \in DOMAIN results : results[j].status # "PASS"}}

SlurmLines(results) ==
  [k \in DOMAIN results |-> [node |-> results[k].node, lane |-> Lane(results[k].status, results[k].labels), labels |-> results[k].labels]]

(* The script takes the alphabetically first blocker.                       *)
Alphabetical ==
  <<"BMC_FAN_FAILURE", "BMC_HEALTH_CRITICAL", "BMC_POWER_CRITICAL", "BMC_TEMP_CRITICAL", "GPU_COUNT_BELOW_EXPECTED",
    "NCCL_CORRECTNESS_ERROR", "NCCL_TIMEOUT", "NCCL_WRONG_COUNT_NONZERO", "VBIOS_MISMATCH_DRAIN_POLICY">>

DrainLines(results) ==
  {[node |-> results[k].node, reason |-> FirstOf(Alphabetical, results[k].blockers)] :
   k \in {j \in DOMAIN results : results[j].state \in {"DRAIN_REVIEW", "QUARANTINE_REVIEW"}}}

Lanes == {"MULTINODE_READY", "SINGLE_NODE_READY", "INFERENCE_ONLY", "AVOID_MULTINODE", "REVIEW_REQUIRED", "QUARANTINE_REVIEW"}

LaneCounts(results) ==
  [lane \in Lanes |-> Cardinality({k \in DOMAIN results : Lane(results[k].status, results[k].labels) = lane})]

(* impact.py's counts, as the summary holds them.                           *)
Summary(results) ==
  LET Number(S) == Cardinality(S)
  IN  [readiness |-> LaneCounts(results),
       withheld |-> Len(results) - Number({k \in DOMAIN results : "gpu_training_multinode_ok" \in results[k].labels}),
       queued |-> Number({k \in DOMAIN results : results[k].status # "PASS"}),
       blocked |-> Number({k \in DOMAIN results : results[k].blockers # {}})]
=============================================================================
