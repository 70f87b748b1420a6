------------------------------ MODULE GpuRack ------------------------------
(***************************************************************************)
(* gpu-rack-qualifier, a run of `qualify`: the evidence is loaded and      *)
(* checked, then loaded again and judged, and the outputs are written one  *)
(* after the other, while the collection of evidence goes on in the same   *)
(* directory.  A run may be cut off, and the business assumptions are read *)
(* when five of the outputs have been written.                             *)
(*                                                                         *)
(* Environment: a collector (collect-local, the site's own scripts) puts   *)
(* one file of one node in the place of another.                           *)
(***************************************************************************)
EXTENDS GpuQualify

CONSTANTS
  Nodes,              \* the node directories, in the order of their names
  Racks,              \* the policies, inventories and options of a run
  Evidence,           \* the evidence a first run may find: node -> kind -> file
  Recollected(_),     \* the files a collector may put in a place of a kind
  NoFile,
  RunsOn(_),          \* bound: how many runs on some first evidence
  Spare(_)            \* bound: how many files may be put in the place of others in it

VARIABLES
  rack,      \* the policy, the inventory and the options
  files,     \* the evidence directory
  pc,        \* "idle", or what the run does next
  runs,      \* how many runs were started
  most,      \* how many there may be
  judged,    \* the evidence the run has judged
  results,   \* its verdicts
  out,       \* the output files, each with the number of its run
  left,      \* the files that may yet be put in place
  changed    \* (history) the nodes whose evidence changed while the run was under way

Names == Range(Nodes)

Directories == [Names -> NodeFiles]

ASSUME NodesAssumption == Nodes \in Seq(STRING) /\ IsInjective(Nodes)

ASSUME EvidenceAssumption ==
  /\ Evidence \subseteq Directories
  /\ \A kind \in Kinds : Recollected(kind) \subseteq FilesOf[kind]
  /\ \A dir \in Evidence : RunsOn(dir) \in Nat /\ Spare(dir) \in Nat

(* Of a policy and an inventory, what numbers are compared with; a policy's *)
(* numbers and texts are not checked any further (models.py).               *)
ASSUME RacksAssumption ==
  \A r \in Racks :
    /\ r.policy.minPairwise \in Maybe(Int) /\ r.policy.criticalTemp \in Int /\ r.policy.names \in [AllRoles -> STRING]
    /\ r.inventory # NoInventory => r.inventory.count \in Maybe(Int) /\ r.inventory.counts \in [Names -> Maybe(Int)]

vars == <<rack, files, pc, runs, most, judged, results, out, left, changed>>

Outputs == {"labels", "quarantine", "queue", "slurm", "drain", "summary", "bundle"}

Init ==
  /\ rack \in Racks /\ files \in Evidence /\ judged = files
  /\ pc = "idle" /\ runs = 0 /\ results = <<>> /\ changed = {}
  /\ out = [name \in Outputs |-> NoFile]
  /\ most = RunsOn(files) /\ left = Spare(files)

-----------------------------------------------------------------------------
LoadEvidence(dir) == [k \in DOMAIN Nodes |-> Load(dir[Nodes[k]], Nodes[k], rack.policy)]

(* What --strict refuses.  The runs with other nodes are not asked for.     *)
\* Mutant: the hardware's description is not asked for either.
LacksNoSmi(dir) ==
  \E n \in Names, kind \in rack.policy.required \ {"pairwise", "smi"} : dir[n][kind] = Absent

Lacks(dir) == \E n \in Names, kind \in rack.policy.required \ {"pairwise"} : dir[n][kind] = Absent

Refused(dir) ==
  /\ rack.strict
  /\ \/ Lacks(dir)
     \/ rack.policy.inventoryRequired /\ rack.inventory = NoInventory
     \/ "single" \in rack.policy.required /\ ~Some(LoadEvidence(dir), LAMBDA e : e.single.parsed)

(* The first load of the evidence is for the checks only.                   *)
Start ==
  /\ pc = "idle" /\ runs < most
  /\ runs' = runs + 1 /\ changed' = {}
  /\ pc' = IF Refused(files) THEN "idle" ELSE "checked"
  /\ UNCHANGED <<rack, files, most, judged, results, out, left>>

Judge ==
  /\ pc = "checked"
  /\ judged' = files
  /\ results' = Qualify(LoadEvidence(files), rack.policy, rack.inventory)
  /\ pc' = "labels"
  /\ UNCHANGED <<rack, files, runs, most, out, left, changed>>

Following ==
  [labels |-> "quarantine", quarantine |-> "queue", queue |-> "slurm", slurm |-> "drain", drain |-> "assumptions"]

Content(name, verdicts) ==
  CASE name = "labels" -> verdicts
    [] name = "quarantine" -> [k \in DOMAIN verdicts |-> QuarantineRow(verdicts[k])]
    [] name = "queue" -> QueueRows(verdicts)
    [] name = "slurm" -> SlurmLines(verdicts)
    [] name = "drain" -> DrainLines(verdicts)

WriteReview(name) ==
  /\ pc = name
  /\ out' = [out EXCEPT ![name] = [run |-> runs, rows |-> Content(name, results)]]
  /\ pc' = Following[name]
  /\ UNCHANGED <<rack, files, runs, most, judged, results, left, changed>>

(* A file of assumptions that cannot be read raises out of the run.         *)
ReadAssumptions ==
  /\ pc = "assumptions"
  /\ pc' = IF rack.assumptions = Unreadable THEN "idle" ELSE "summary"
  /\ UNCHANGED <<rack, files, runs, most, judged, results, out, left, changed>>

WriteSummary ==
  /\ pc = "summary"
  /\ out' = [out EXCEPT !.summary = [run |-> runs, counts |-> Summary(results)]]
  /\ pc' = IF rack.bundle THEN "bundle" ELSE "idle"
  /\ UNCHANGED <<rack, files, runs, most, judged, results, left, changed>>

(* The bundle's fingerprints are of the files as they are by now.           *)
Fingerprint(n, kind) == IF judged[n][kind] = Absent THEN Absent ELSE files[n][kind]

WriteBundle ==
  /\ pc = "bundle"
  /\ out' = [out EXCEPT !.bundle =
               [run |-> runs, prints |-> [n \in Names |-> [kind \in Kinds |-> Fingerprint(n, kind)]], results |-> results]]
  /\ pc' = "idle"
  /\ UNCHANGED <<rack, files, runs, most, judged, results, left, changed>>

Cut ==
  /\ pc # "idle" /\ pc' = "idle"
  /\ UNCHANGED <<rack, files, runs, most, judged, results, out, left, changed>>

Recollect(n, kind) ==
  /\ left > 0 /\ left' = left - 1
  /\ \E file \in Recollected(kind) \ {files[n][kind]} : files' = [files EXCEPT ![n][kind] = file]
  /\ changed' = IF pc = "idle" THEN changed ELSE changed \cup {n}
  /\ UNCHANGED <<rack, pc, runs, most, judged, results, out>>

Next ==
  \/ Start
  \/ Judge
  \/ \E name \in DOMAIN Following : WriteReview(name)
  \/ ReadAssumptions
  \/ WriteSummary
  \/ WriteBundle
  \/ Cut
  \/ \E n \in Names, kind \in Kinds : Recollect(n, kind)

Spec == Init /\ [][Next]_vars

-----------------------------------------------------------------------------
\* Mutant: whoever may train on one node is ready for that.
LaneByLabels(row) ==
  IF "gpu_training_multinode_ok" \in row.labels THEN "MULTINODE_READY"
  ELSE IF "gpu_training_single_node_ok" \in row.labels THEN "SINGLE_NODE_READY"
  ELSE IF row.status = "QUARANTINE" THEN "QUARANTINE_REVIEW" ELSE "REVIEW_REQUIRED"

(* The report that `explain` makes of the summary, the labels and the       *)
(* quarantine rows, whatever runs they are of.                              *)
LaneForRow(row) ==
  IF row.status = "PASS" THEN "MULTINODE_READY"
  ELSE IF row.status \in {"AVOID_MULTINODE", "INFERENCE_ONLY"} THEN row.status
  ELSE IF row.status = "QUARANTINE" THEN "QUARANTINE_REVIEW"
  ELSE IF "gpu_training_single_node_ok" \in row.labels THEN "SINGLE_NODE_READY" ELSE "REVIEW_REQUIRED"

LaneForNode(labels, n) ==
  LET own(row) == row.node = n
  IN  IF Some(labels, own) THEN LaneForRow(FirstWhere(labels, own)) ELSE "REVIEW_REQUIRED"

Report ==
  [readiness |-> out.summary.counts.readiness,
   withheld |-> out.summary.counts.withheld,
   queue |-> {[node |-> row.node, lane |-> LaneForNode(out.labels.rows, row.node)] :
                row \in {r \in Range(out.quarantine.rows) : r.recommendation # "NONE"}},
   lanes |-> [n \in Names |-> LaneForNode(out.labels.rows, n)]]

(* And the one of the business impact, which counts again.                  *)
ImpactReport ==
  LET labels == out.labels.rows
      rows == out.quarantine.rows
  IN  [withheld |-> Cardinality({k \in DOMAIN labels : "gpu_training_multinode_ok" \notin labels[k].labels}),
       load |-> Cardinality({k \in DOMAIN rows : rows[k].recommendation # "NONE"}),
       quarantined |-> Cardinality({k \in DOMAIN rows : rows[k].recommendation = "QUARANTINE_REVIEW"})]

-----------------------------------------------------------------------------
Written(names) == \A name \in names : out[name] # NoFile

OfOneRun(names) == Written(names) /\ \A a, b \in names : out[a].run = out[b].run

TypeOK ==
  /\ rack \in Racks
  /\ files \in Directories /\ judged \in Directories
  /\ pc \in {"idle", "checked", "assumptions", "summary", "bundle"} \cup DOMAIN Following
  /\ most \in Nat /\ runs \in 0..most /\ left \in Nat /\ changed \subseteq Names
  /\ DOMAIN out = Outputs /\ Len(results) \in {0, Len(Nodes)}

(* A policy may give two roles one text: the label then says neither.       *)
TextIsItsOwn ==
  \A role \in AllRoles \ {"multinode"} : rack.policy.names[role] # rack.policy.names["multinode"]

(* A node with the multi-node label has shown, in the very files that were  *)
(* judged: a single-node run that measured a large message and met neither *)
(* a time-out nor an error nor a wrong count; no fewer GPUs than the        *)
(* inventory states; where the policy asks for them, runs                   *)
(* with other nodes, none of them timed out or too slow; no path between    *)
(* GPUs that the policy calls weak and the parser knows; and no sensor in a *)
(* critical state that the policy quarantines for, where most readings of   *)
(* zero are none (parse_bmc_snapshot.py).  It has not shown a topology file *)
(* at all, or one that can be read: the label is given without (labels.py), *)
(* and so is a pass when the file is there but unreadable (features.py).    *)
(* And where no GPU was expected, none need be there.                       *)
ShownAlone(file) ==
  /\ file \notin {Absent, Unreadable}
  /\ ~file.timeout /\ ~file.failed
  /\ \A k \in DOMAIN file.samples : ~file.samples[k].wrong
  /\ \E k \in DOMAIN file.samples : file.samples[k].large /\ file.samples[k].bw # None

ShownTogether(file, n) ==
  LET policy == rack.policy
  IN  /\ "pairwise" \in policy.required => file \notin {Absent, Unreadable, <<>>}
      /\ file \notin {Absent, Unreadable} =>
           \A k \in DOMAIN file :
             /\ ~file[k].timeout
             /\ file[k].bw # None /\ policy.minPairwise # None /\ file[k].nodes \ {n} # {} => file[k].bw >= policy.minPairwise

ShownGpus(file, n) ==
  /\ file \notin {Absent, Unreadable}
  /\ rack.inventory # NoInventory =>
       LET own == rack.inventory.counts[n]
       IN  \A stated \in {IF own = None THEN rack.inventory.count ELSE own} \ {None} : Len(file.gpus) >= stated

ShownCool(file) ==
  file \notin {Absent, Unreadable} =>
    \A k \in DOMAIN file :
      /\ rack.policy.criticalBlocks => file[k].health # "critical"
      /\ file[k].type = "temperature" /\ Reading(file[k]) # None => file[k].reading < rack.policy.criticalTemp

MultinodeIsEarned ==
  TextIsItsOwn /\ Written({"labels"}) /\ out.labels.run = runs /\ pc # "checked" =>
    \A k \in DOMAIN out.labels.rows :
      rack.policy.names["multinode"] \in out.labels.rows[k].labels =>
        LET n == out.labels.rows[k].node
            shown == judged[n]
        IN  /\ ShownAlone(shown.single) /\ ShownTogether(shown.pairwise, n)
            /\ ShownGpus(shown.smi, n) /\ ShownCool(shown.bmc)
            /\ shown.topology \notin {Absent, Unreadable} =>
                 \A p \in DOMAIN shown.topology.paths : shown.topology.paths[p] \notin rack.policy.weakPaths \cap GpuLabels

(* A node does not get the multi-node label by losing a file: not its       *)
(* single-node run, not its hardware's description, and not its runs with   *)
(* other nodes where the policy asks for them.  The label can come from the *)
(* loss of a topology that held it back, or of a BMC snapshot with a        *)
(* blocker, since neither is needed for it (labels.py, _multinode_supported). *)
Labelled(dir, n) ==
  LET nodes == LoadEvidence(dir)
      own == nodes[CHOOSE k \in DOMAIN Nodes : Nodes[k] = n]
  IN  rack.policy.names["multinode"] \in Result(own, Rack(nodes), rack.policy, rack.inventory).labels

Held(n, kind) ==
  LET e == Load(judged[n], n, rack.policy)
  IN  CASE kind = "topology" -> TopologyWarnings(e, rack.policy) # {}
        [] kind = "bmc" -> SensorBlockers(e, rack.policy) # {}
        [] kind = "pairwise" -> "pairwise" \notin rack.policy.required
        [] OTHER -> FALSE

LossNeverReleases ==
  TextIsItsOwn /\ pc = "labels" =>
    \A n \in Names : ~Labelled(judged, n) =>
      \A kind \in Kinds, lost \in {Absent, Unreadable} :
        judged[n][kind] \notin {Absent, Unreadable} /\ Labelled([judged EXCEPT ![n][kind] = lost], n) => Held(n, kind)

(* The files of one run tell one story: the nodes of the drain script are   *)
(* those the quarantine rows drain and the urgent ones of the queue, and    *)
(* have a blocker to show; the queue is of the nodes with a recommendation, *)
(* in the lane of the Slurm lines; and the reports made of them, which       *)
(* decide lanes and count nodes in code of their own, agree with the        *)
(* summary's counts.  Ready and withheld nodes together may be fewer than   *)
(* all, since a node under review can have the label (labels.py).           *)
NodesOf(rows) == {row.node : row \in rows}

RowsAgree ==
  OfOneRun({"labels", "quarantine", "queue", "slurm", "drain"}) =>
    LET drained == {row \in Range(out.quarantine.rows) : row.slurm = "DRAIN"}
    IN  /\ NodesOf(out.drain.rows) = NodesOf(drained)
        /\ NodesOf(out.drain.rows) = NodesOf({row \in out.queue.rows : row.priority = "P0"})
        /\ \A row \in drained : row.blockers # {} /\ row.reason # "OTHER"
        /\ NodesOf(out.queue.rows) = NodesOf({row \in Range(out.quarantine.rows) : row.recommendation # "NONE"})
        /\ \A row \in out.queue.rows : \E line \in Range(out.slurm.rows) : line.node = row.node /\ line.lane = row.lane

ReportAgrees ==
  OfOneRun({"labels", "quarantine", "summary"}) =>
    /\ \A lane \in Lanes : Report.readiness[lane] = Cardinality({n \in Names : Report.lanes[n] = lane})
    /\ NodesOf(Report.queue) = {n \in Names : Report.lanes[n] # "MULTINODE_READY"}
    /\ ImpactReport.withheld = Report.withheld /\ ImpactReport.load = out.summary.counts.queued
    /\ ImpactReport.quarantined = Report.readiness["QUARANTINE_REVIEW"]
    /\ rack.policy.names["multinode"] = "gpu_training_multinode_ok" =>
         Report.withheld + Report.readiness["MULTINODE_READY"] <= Len(Nodes)

FilesAgree == RowsAgree /\ ReportAgrees

(* Of a node whose evidence did not change while the run was under way, the *)
(* bundle has the fingerprints of the evidence that was judged, and a       *)
(* strict run has not judged it without what the policy asks for: the       *)
(* evidence is read three times (cli.py, workflow.py, evidence_bundle.py).  *)
UntouchedIsVouchedFor ==
  \A n \in Names \ changed :
    /\ out.bundle # NoFile /\ out.bundle.run = runs /\ pc # "checked" => out.bundle.prints[n] = judged[n]
    /\ pc = "labels" /\ rack.strict => \A kind \in rack.policy.required \ {"pairwise"} : judged[n][kind] # Absent
=============================================================================
