# Sovereign Cloud: TLA+ specifications

Specifications, model-checking instances and proofs for the tools of this repository: what each tool keeps as
state, what each of its operations does to it, and what must stay true in every order of events. Paths below are
relative to the root of the repository, prefixed with `src/` in `PROJECT.json`, which maps every definition to
the lines it stands for.

1. [The system](#1-the-system)
2. [Modules](#2-modules)
3. [Runs, bounds and what they show](#3-runs-bounds-and-what-they-show)
4. [Where code and documents part](#4-where-code-and-documents-part)
5. [Proofs](#5-proofs)
6. [What is not modelled](#6-what-is-not-modelled)
7. [Plan](#7-plan)
8. [Notes met while reading](#8-notes-met-while-reading)

## 1. The system

The repository holds eleven tools that do not call each other. Each takes exports or evidence from files, applies
fixed rules and writes files for people to review. Most is a function from input to output; what a test reaches
badly is where a tool keeps state across steps, talks to something that may fail, depends on the order of its
input, or computes one conclusion in two places. Ten tools are modelled for such parts, wholly or in part; only
cabinet-burst-envelope is not ([section 6](#6-what-is-not-modelled)).

### prompt-egress-guard (TypeScript; a browser extension and a command line)

| Part | State | Operations | Hard behaviour |
|---|---|---|---|
| detectors and decision (`packages/core`) | none | `scanPrompt`: eight detectors, merged scores, thresholds, category actions, mode | scores that are summed, capped and compared with thresholds that policies place; one category found by two detectors |
| content script (`submit_intercept`, `dom_capture`, `overlay`, `content_script`) | the marks of confirmed elements (a `WeakSet`), open overlays, and the page's own: texts, focus | submit, click and Enter listeners; overlay buttons Continue, Redirect, Copy, Cancel; `requestSubmit` | the text is read again at resubmit, overlays stack up and outlive what they were about, the listener is re-entered by its own resubmit |
| local audit (`storage.ts`) | the stored list in `chrome.storage.local` | `writeLocalAudit`: get, append and prune, set | two awaits and no lock; several tabs; a clock that goes back |

The content script calls the decision for each captured prompt and starts an audit write for each verdict that
stops, without awaiting it. Right means: a prompt the policy objects to leaves only where the user has
acknowledged a warning that may be acknowledged, one acknowledgement is good for one submit, each stop is on
record, and more evidence never weakens a verdict.

### s3-compat-replay (Python)

| Part | State | Operations | Hard behaviour |
|---|---|---|---|
| planner (`probe_plan`) | none | from observed usage to an ordered list of probes with required permissions | what a probe writes is declared in two hand-kept places |
| runner and client (`probes/__init__`, `s3_client`, `safety`) | objects tracked for cleanup, results, the cleanup manifest; in the target: objects and open uploads | run a probe step by step, skip, raise, clean up, write results | a call that acts and is not answered; errors turned into answers without a status; a run that raises half way |
| comparison and decision (`compare`, `report`, `decision`) | none | statuses, recommendation, confidence, capability ledger | two verdicts from one set of results |

Right means: nothing is sent beyond the permissions of the command line, everything the run may have stored is
known to its cleanup or owned up to in its manifest, and a recommendation to proceed has been earned by required
probes that passed.

### stateful-storage-fit (Python)

| Part | State | Operations | Hard behaviour |
|---|---|---|---|
| case workflow (`workflow`) | one JSON file per case: origin, reviews, adjudication, outcomes, impacts, lifecycle | create-case, review, adjudicate, promote consensus, outcome, impact | each command loads, changes and rewrites the whole file, with no lock; `write_text` empties before it writes |
| corpus and gate (`corpus`, `workflow`) | none | label source, trust, calibration gate, quality of a case | the gate and the corpus judge the same case from different fields |

Right means: no record that was acknowledged is lost unless commands overlap or a save is cut short, a lifecycle
state is borne out by the records, generated cases never count as field evidence.

### rag-permission-canary (Python)

| Part | State | Operations | Hard behaviour |
|---|---|---|---|
| permissions and pack (`permissions`, `canary_generate`) | none | effective access of a user to a document; a balanced pack of allowed and forbidden cases | order of users' and groups' grants and denials; limits that cut the pack |
| run, scoring and decision (`runner`, `leakage_detect`, `scoring`, `decision`) | results so far | send or skip a case, look for shown documents, score, decide, exit code, two tables | a leak of a document the case is not about; missing tokens; errors as answers |

Right means: a forbidden document that showed anywhere blocks the release; a release was earned by answers to
every case and evidence both ways; the tables agree with the decision.

### inference-placement-bench (Python)

| Part | State | Operations | Hard behaviour |
|---|---|---|---|
| eligibility and plan (`plan`, `eligibility`) | none | location, authentication, modes and lengths each endpoint must meet | undeclared values |
| runner and simulator (`http_client`, `simulator`) | per endpoint: the pool of requests, samples; per simulator: a count of requests under a lock | warm up, send, answer, score, next endpoint, strict raise | a pool of threads over one counter; servers that answer late or never |
| metrics and recommendation (`metrics`, `scoring`, `recommend`) | none | p95, rates, PASS/REVIEW/FAIL per endpoint, the choice among those that passed | nearest ranks of few samples; failures counted in or out |

Right means: prompts go only where options and constraints allow; the outcome of a simulated run does not depend
on the order of its threads; the recommended endpoint passed and none that passed is better; a simulated run ends.

### brownout-policy-compiler (Python)

| Part | State | Operations | Hard behaviour |
|---|---|---|---|
| compiler (`normalize`, `compile_rules`, `report`) | warnings, blockers and actions as they grow | validate, match targets to services, propose and refuse actions, sort, cut off, decide, refuse under strict | an address shared by services of different priority; actions wider than the attack; a limit that cuts what was proposed; warnings that arise late |
| rollback and post-incident diff (`rollback`, `workflows`) | the plan, then the changes operators enter | list what to take back and by when; compare with what was done | entries made twice or out of order; entries without evidence |

Right means: what cuts off or degrades hits the service it is meant for and none more critical, PASS leaves nothing
to an operator, and a matched incident has been taken back.

### estate-triage (Python)

| Part | State | Operations | Hard behaviour |
|---|---|---|---|
| identity resolution (`identity`, `matching`) | rows resolved so far, backup rows taken | row by row: override, uuid, name, loose name; list what is unmatched | "first source row" wins; two rows may take one backup; overrides that clash |
| kernel (`feature_engine`, `policy`, `assessment`, `business_impact`) and the engine before it (`features`, `rules`, `scoring`) | assessments | features, rules, motion, confidence, flags, presentation, ranking | two engines: the tests of the rules run one, the commands the other |

Right means: the tested engine says what the shipped one says, strong candidates rest on a backup of their own, the
order of an export decides only what is flagged, and a ranking that is cut keeps what matters.

### host-screen-contracts (Python)

| Part | State | Operations | Hard behaviour |
|---|---|---|---|
| trace writer (`adapter_protocol`) | events in memory, the trace file | write events, close | nothing is on disk before `close`, which empties the file first; sessions that crash |
| extraction and replay (`flow_extract`, `replay_gen`, `replay_driver`) | none | trace and field map to contract and case; the case replayed | one name for two fields; screens in a row; maps by id or position |
| drift and packages (`drift_compare`, `package_extract`) | none | compare with a newer trace; merge cases | a comparison that does not see order; contracts merged under one name |

Right means: a contract is of a whole session, its test passes on its own trace or a reviewer can see why not,
and "compatible" and "packaged" keep that.

### gpu-rack-qualifier (Python)

| Part | State | Operations | Hard behaviour |
|---|---|---|---|
| parsers and features | none | five evidence files of a node to flags, readings, reasons | a file that is missing, empty or unreadable is not the same as one that passes |
| decision (`labels`, `quarantine`, `queue`) | none | status, labels, drain and queue rows | status, labels and rows are decided apart, from overlapping conditions |
| run (`cli`, `workflow`, `evidence_bundle`) | the output files | load, check, load again, judge, write seven outputs, fingerprint | a collector writes beside it; a run may raise or be cut between two outputs |

Right means: the multi-node label was earned by the files that were judged, losing a file it needs never gains it, and the
outputs of a run agree with each other and with the evidence.

### dr-prereq-lint (Python)

| Part | State | Operations | Hard behaviour |
|---|---|---|---|
| evidence (`dns_log`, `lint_rules`) | the items found so far | window, mapping of clients, classification of queries | rows of no readable time; answers that clash |
| findings (`aggregate`, `support_files`, `decision`, `assessment`) | observations | group, merge by address and name, match with the recovery set, excuse, judge | merging joins what one item alone would not match; three statuses from one list |
| comparison of windows | the windows judged | the same lint per window | rows in the order of a set |

Right means: PASS passes no gap over, the statuses agree, and the comparison says of a window what the run says.

## 2. Modules

Three kinds: **pure** modules translate functions; **state** modules have one action per operation or handler,
with guards from the code's conditions and early returns; **MC** modules and `*_proof` modules use these
unchanged. Each state module has the MC module and the `.cfg` of its name (`AuditStore` needs no MC module). Initial
states, steps and specification are `Init`, `Next` and `Spec`, with the prefixes `Store`, `Case`, `Capture` and `Lint` in
`AuditStore`, `CaseFile`, `HostCapture` and `DrLint`: theorems about two components may stand in one module, which extends both.

| Module | Kind | Models | Uses |
|---|---|---|---|
| `EgressDecision` | pure | detectors as scores of the patterns matched, merge, thresholds, modes, `decideAction` | |
| `EgressGuard` | state | the content script on one page | `EgressDecision`; implements `PromptGate` |
| `PromptGate` | abstract | what the extension promises, without events, overlays or marks | |
| `AuditStore` | state | `writeLocalAudit` from several tabs | |
| `ProbePlanner` | pure | the probe plan for a usage | |
| `CutoverDecision` | pure | summary, recommendation, confidence, ledger | |
| `ProbeRun` | state | one run of a plan against a target | `ProbePlanner`, `CutoverDecision` |
| `CaseRecord` | pure | what each command makes of a case; label source, gate, trust | |
| `CaseFile` | state | one case file and the processes that rewrite it | `CaseRecord` |
| `CanaryPolicy` | pure | effective access, cases, pack, evidence, status of a case | |
| `CanaryRun` | state | one run of a pack and its verdicts | `CanaryPolicy` |
| `BenchPolicy` | pure | eligibility and plan; percentiles, rates, status of an endpoint, the choice | |
| `BenchRun` | state | one benchmark run with its threads and servers | `BenchPolicy` |
| `BrownoutPolicy` | pure | matching of targets, candidate actions, lifetime, risk, approval | |
| `BrownoutRun` | state | one compilation, then the incident its plan is used in | `BrownoutPolicy` |
| `EstateIdentity` | pure | the backup row of an inventory row; the older join | |
| `EstatePolicy` | pure | features, the default policy pack, confidence, flags, presentation | |
| `EstateRules` | pure | the older engine: features, rules, scoring | `EstatePolicy` |
| `EstateTriage` | state | one triage, row by row, and its rankings | `EstateIdentity`, `EstateRules` |
| `HostContract` | pure | traces, field maps, fingerprints of screens, parts of a contract | |
| `HostReplay` | pure | extraction, the replay driver, comparison, merge | `HostContract` |
| `HostCapture` | state | a capture session, its file, and what is made of it | `HostReplay` |
| `DrEvidence` | pure | recovery set, window, clients, classification of a query | |
| `DrFindings` | pure | grouping, merging, matching, accepted risks, severity, statuses | `DrEvidence` |
| `DrLint` | state | one analysis in its three stages, and the comparison of windows | `DrFindings` |
| `GpuEvidence` | pure | what the parsers make of the five files of a node | |
| `GpuQualify` | pure | blockers, warnings, status, labels, rows, counts | `GpuEvidence` |
| `GpuRack` | state | runs of the tool beside a collector; two reports that count again | `GpuQualify` |

How state corresponds to the code:

* **`EgressGuard`**: `text` and `active` are the page's (values of the boxes, `document.activeElement`);
  `confirmed` is `confirmedElements`; `overlays` the overlay hosts in the document, each with the target and
  prompt it closed over; `audits` counts the audit writes started, by user decision; `sent` is what the site got.
  `bypasses`, `continues` and `misread` are history. An event's handler is one action, since a page is single
  threaded: `Submit`, `Click` and `PressEnter` run capture, scan, audit and overlay, or the release; `Continue`
  adds the mark and, for a form, resubmits within the same step, through the same listener. `Type` and `Focus` are
  the user's. A blank prompt is allowed without a scan, as in the code; a prompt stands for the set of patterns it
  matches.
* **`AuditStore`**: each call goes through `Get` (reads the list), `Extend` (builds its event and prunes), `Set`
  (writes); a tab may be closed after either of the first two (`Lose`), and `SetClock` moves the clock, back as
  well as forth. Time counts in days of retention; events made at the same time are told apart by `made`.
* **`ProbeRun`**: `RunStep` is one S3 call of the current probe with three independent choices: what the target
  does (`performed`), what the client sees (`answer`, which may be no status at all), and whether a comparison
  fails (`check`); `booked` has the mismatches as the ledger counts them, on the family of their code; `RaiseInStep` is the calls whose exceptions leave the runner. `created` is
  `created_keys`; `objects` and `uploads` are the target's. `CleanKey` deletes one tracked key,
  `WriteFile` writes the files one by one in the code's order, each of which may fail.
* **`CaseFile`**: `onDisk` is what the file holds, `held` the case in a process's memory. A command is `Load` (one action per command), `OpenForWriting` (the file is emptied), `WriteCase`, `Finish`;
  `Kill` ends a process between any two of them, and after an `OpenForWriting` leaves an empty or torn file. A command that refuses changes
  nothing and has no step. `acked`, `interfered`, `wiped` and `origins` are history.
* **`CanaryRun`**: `Generate` builds the pack; one of `SkipCase`, `SkipAndScore`, `SendCase`, `TokenMissing` takes
  each case in order; `Finish` decides. A response is what the scoring can tell apart: which documents it shows, in
  which place, whether the query is echoed, whether it is JSON, an error or a refusal.
* **`BenchRun`**: `Take` starts a worker on the next job if the pool has room, `Send` numbers the request at its
  server under the lock, `Answer` brings the result, `Score` closes the endpoint, `PassOver` skips one, `Finish`
  recommends. A simulated answer follows from the number of the request; a real one is any status, or never comes.

* **`BrownoutRun`**: `Validate`, `MatchTarget` (one target of the event at a time), `Propose`, `Assemble` (monitors,
  sorting, the limit, the rollback plan), `Refuse` or `Publish` are the stages of `compile_from_paths`; `RecordChange`
  is an entry of an operator and `CloseIncident` the diff.
* **`EstateTriage`**: `ResolveRow` and `AssessRow` take the rows in the order of the inventory, `ListUnmatched` stands
  between them, and `RankAssessments` writes a ranking of any mode and size.
* **`HostCapture`**: `WriteScreen`, `WriteAction`, `WriteNote` fill the writer; `CloseTruncates` and `CloseWrites` are the two halves of
  `write_text`; `Crash` ends the session at any point. Then one command at a time: `ExtractTrace`, `ReplayOwn`, `RecordAgain` (a
  newer trace, one change away), `Compare`, `ExtractSecond`, `ReplayPackage`.
* **`DrLint`**: `Collect`, `Observe`, `Judge` are the stages of `analyze_inputs`; `CompareWindow` repeats them for one of
  the windows asked for. What patterns find in a name, and the order of strings, are constants.
* **`GpuRack`**: `Start` (load and check), `Judge` (the second load), `WriteReview` for each of five outputs,
  `ReadAssumptions`, `WriteSummary`, `WriteBundle` are a run in the order of `cli.py` and `workflow.py`; `Cut` ends it anywhere, `Recollect`
  is the collector, which is external.

Bounds, all named in the modules: `MaxOverlays`, `MaxAudits` (`EgressGuard`), `MaxTime` (`AuditStore`),
`MaxCommands` (`CaseFile`), `MaxRecords`, `MaxFollowed` (`BrownoutRun`), `MaxEvents`, `MaxFollowed` (`HostCapture`),
`RunsOn`, `Spare` (`GpuRack`); `MaxVaried`, `MaxInventory`, `MaxBackups` (`MCEstateTriage`) and `MaxRows`, `MaxVaried`
(`MCDrLint`) bound the inputs that are enumerated. The other modules are finite by themselves. A proof holds for every value of the bounds.

## 3. Runs, bounds and what they show

Run one with `tlc -config X.cfg M`, where M is the module of the same name with `MC` before it, or `AuditStore` itself. Between
them the passing runs fire every action. Deadlock is checked for the page, which never stops before its bounds;
the other systems are runs, analyses or files that come to an end, so their configurations say
`CHECK_DEADLOCK FALSE`.

| Run | Instance | Distinct states | Shows |
|---|---|---|---|
| `egress_page` | 2 boxes, 2 forms, 1 button, 3 prompts (one per verdict that matters), 2 policies; 2 overlays at a time, 2 audits, 2 continues | 383,040 | `RiskySentOnlyOnContinue`, refinement `ImplementsGate` |
| `audit_store` | 4 calls (symmetric), retention 1, 2 events, clock 0..3 | 1,033,222 | `LostOnlyToOverlap`, `OwnEventIsStored` |
| `probe_run` | 7 plans the planner makes; all 16 settings of four flags × 3 sets of permissions; 5 sets of observed families | 41,568 | `EveryObjectTracked`, `LeftoversAreListed`, `ProceedMeansRequiredPassed`, `LedgerAgrees` |
| `case_file` | 2 processes (symmetric), 4 commands, 2 reviews, 3 outcomes, a case of real or generated origin, analysed or only created | 647,616 | `LifecycleBorneOut`, `LossNeedsInterference`, `OnlyKnownOriginsCount`, `GeneratedReadyOnlyIfWiped`, `GatedIsTrustedInCorpus` |
| `canary_run` | 2 users in 2 groups, 3 documents in 2 collections, 5 policies, 7 command lines, 11 responses | 272,738 | `LeakBlocksRelease`, `ReleaseNeedsBothWays`, `DeniedIsNeverAllowed`, `BoundariesAgree` |
| `bench_run` | 8 plans of 1–2 endpoints (simulated, sharing a host, real, mixed), up to 4 requests and 3 workers, latencies on either side of the target | 46,519 | `SimulatedCountsAreFixed`, `RecommendationIsEarned`, `SimulatedRunEnds` |
| `brownout_run` | 8 files of up to 3 services on 3 addresses, 7 events of up to 2 targets, 6 sets of options; every record of up to 3 entries for plans of up to 2 actions | 965,749 | `NullRouteHitsOneService`, `DegradeSparesCritical`, `PassLeavesNothingOpen`, `MatchedMeansTakenBack` |
| `host_capture` | every session of up to 5 events, ended, torn or crashed, 5 field maps, redaction and strictness on and off; for traces of up to 3 events every newer one a change away | 1,920,330 | `ContractIsOfAWholeSession`, `OwnReplayFailsOnlyFor`, `CompatibleReplays`, `PackageKeepsReplay` |
| `estate_triage` | every inventory of up to 3 and export of up to 2 rows whose identifiers clash, with and without overrides; single rows with up to 2 varied features; rankings of 1 and 2 rows | 2,590,420 | `TestedEngineAgrees`, `StrongCandidatesShareNoBackup`, `OrderMattersOnlyWhereFlagged`, `DecommissionedHasNoTaker`, `StrongIsCutLast` |
| `dr_lint` | every log of up to 3 rows from a pool of 9 whose answers clash, and of varied clients, times and resolvers; risks, hints, answer maps; 5 inventories | 118,812 | `StatusesAgree`, `PassIsBorneOut`, `ComparisonAgrees` |
| `gpu_rack` | 2 nodes with up to 2 of 10 evidence files differing from healthy ones, each in up to 10 ways; 5 sets of policy, inventory and options; a collector and a second run beside those close to healthy | 491,996 | `MultinodeIsEarned`, `LossNeverReleases`, `FilesAgree`, `UntouchedIsVouchedFor` |
| `probe_read_only` | as `probe_run` | until the violation | `ReadOnlyWritesNothing` is violated ([section 4](#4-where-code-and-documents-part)) |

Why these bounds are enough for the cases to happen:

* *egress_page*: two overlays are what it takes for an old one to act on a mark made by a newer; two forms with
  two boxes for the captured text to be another than the text sent; one prompt per verdict is all a verdict tells apart. The
  second policy allows Continue on BLOCK and on nothing else, as a policy file may.
* *audit_store*: with a limit of two, three calls that end force an eviction, and the fourth can still hold the
  list from before. Four days let an event expire while a call that read it is on its way.
* *probe_run*: the plans hold every operation the planner knows, two keys per probe where a probe has two, and
  each of the permission classes granted and refused; one profile shows a family that no probe of its plan has.
* *case_file*: a lost update needs two processes with two commands; losing it, and then concluding something from what is left, four.
* *canary_run*: two users with different rights give each document an allowed and a forbidden case; one limit cuts
  the pack between them, one inside.
* *bench_run*: three workers over four requests with periods 2, 3 and 5 make the order of numbering matter.
* *brownout_run*: the files put services of different priority on one address, behind a network, on one port with
  two protocols, give one id twice, and refuse candidates; limits of 2, 3 and 4 actions cut plans in every class. Three entries are what it takes
  to do, undo and redo one of two actions.
* *host_capture*: five events are two screens, an action between and two more of anything; four kinds of change (label, place, text,
  value) are what the comparison tells apart; a trace that is followed needs a screen, an action and a screen.
* *estate_triage*: two backup rows suffice for every clash of uuid and name, three inventory rows for two that take the same
  row and a bystander that is cut from a ranking of two. Features meet in pairs, as rules read at most two thresholds that disagree.
* *dr_lint*: three rows are what it takes for two items to be merged through a third. Each row of the pool shares a name or
  an address with another. A workload that has an address for a name and no FQDN is left out (see section 8).
* *gpu_rack*: two nodes are the smallest rack with a median and a baseline; two files that differ reach one file that would release
  what another holds back. The policies are the shipped default and example, a lenient and a strict one, and one with site names for its labels.

**Fairness.** Only `BenchRun` assumes any: weak fairness of the runner's own steps, since nothing but the end of
the process stops a loop or a thread with work to do, and of the simulator's answers, since the simulated handler
returns without waiting for anything else. None is assumed of a real endpoint: the timeout is that of one read,
and a stream that drips never reaches it; `SimulatedRunEnds` says "simulated" for that reason. The case of a run
that crashes (`--max-requests 0` with warm-ups) ends in a phase of its own. The other modules state safety only:
nothing in their code promises that a user presses a button, or that a call is answered.

**Properties worth a comment.**

* `RiskySentOnlyOnContinue` and `ImplementsGate` allow a *misread*: with texts in several boxes the captured one may
  be another than the one sent.
* `LostOnlyToOverlap` is the strongest statement the unlocked read and write allow: calls that do not overlap lose
  nothing, and a late call takes away only what was written after it had read. `disturbed` is the history of that.
* `LossNeedsInterference` says the same of case files; `LifecycleBorneOut` holds even with interference.
* `SimulatedCountsAreFixed` counts, per endpoint, the outcomes dealt out by a periodic simulator; a count read
  outside of the lock breaks it. Where two endpoints share a host, the second begins where the first ended.
* `LedgerAgrees`, `BoundariesAgree`, `GatedIsTrustedInCorpus`, `TestedEngineAgrees`, `StatusesAgree` and `FilesAgree`
  relate two conclusions the code computes apart. `LedgerAgrees` relates three: statuses are grouped by the family of the probe, mismatches by
  the family of their code, and the advice by neither. Rows of families without probes are NOT_RUN, and a run may proceed with them.
* `DegradeSparesCritical`, `OwnReplayFailsOnlyFor`, `PackageKeepsReplay`, `StrongCandidatesShareNoBackup`, `LossNeverReleases` name
  every exception the code really has; without one of them the run fails, and each is a line of section 8.
* `ComparisonAgrees` needs `SteadyAnswers`: with two items that sort alike and are answered in two ways, or shown under two
  names, the order of rows decides, and the run and the comparison take them in different orders.
* `PassIsBorneOut` is stated over items, without the code's grouping and merging: any set of items that shares no name or address
  with the rest of its category (`StandApart`), one of them required, must have a member that was found or excused. The items of rows that
  cannot be shown to lie outside of the window count with those of the run.

Each property of a passing run has a mutant in `PROJECT.json`: a plausible slip in a mapped definition (a mark
not deleted, a copy that is not tracked, a prune before the append, a count without its lock, a label that follows
from topology alone) under which the same run reports that property violated.

## 4. Where code and documents part

One run checks a sentence of the repository against the code and finds it violated: `probe_read_only`. The README
of s3-compat-replay (line 298) says a run without `--allow-writes` is read-only; `safety.py:30` does not know the
encryption and presigned-PUT probes as writes, and they store objects.

Other divergences met while modelling are in the models as the code has them, so the properties above hold with them:

* prompt-egress-guard: `confidence_floor_for_block` (`models.ts:77`, `default-policy.yml:90`) is never read by `scanPrompt`, so one
  LOW-confidence phrase is blocked. A form that was continued on a warning is released before its text is captured
  (`submit_intercept.ts:27`): a prompt typed since, even one that would be BLOCKed, is sent without a scan, against `README.md:187`. Marks are
  consulted for submits only (`submit_intercept.ts:40`, `content_script.ts:20`): a click or Enter that was continued is
  stopped again, against `submit_intercept.test.ts:27`.
* s3-compat-replay: a cleanup delete that got no answer has no status and counts as a success (`probes/__init__.py:86`,
  `s3_client.py:196`), so no manifest is written, against `README.md:306`.
* gpu-rack-qualifier: `README.md:514-525` lists TOPOLOGY_REQUIRED_BUT_MISSING and NCCL_REQUIRED_BUT_MISSING as blockers, the
  code adds them to the warnings. A topology file in which nothing can be read, such as the "TIMEOUT" that `collect_local.py:48` writes, gives no
  warning (`parse_nvidia_smi_topo.py:24`), against `docs/architecture.md:22`. The bundle takes its fingerprints after judging, from files that may
  have changed (`evidence_bundle.py`, against `docs/evidence_bundle_schema.md:42`).
* estate-triage: a duplicated inventory uuid overwrites CONFLICTED with DUPLICATE_CANDIDATES, against `docs/architecture.md:87`.

## 5. Proofs

Check a proof module with `tlapm M_proof.tla`. All theorems hold for every value of the constants under the named
assumptions of the modules; the main ones are listed under "theorems" in `PROJECT.json`.

| Module | Assumptions | Theorems |
|---|---|---|
| `GuardAndCase_proof` (the decision) | none (policies are quantified with `PolicyValid`) | `DecisionInAction`, `DecisionMonotone`, `AllowedOnlyUnobjected` |
| `GuardAndCase_proof` (`EgressGuard`) | `PageAssumption`, `PromptAssumption`, `PolicyAssumption`, `BoundAssumption` | `TypeCorrect`, `BypassesPaid`, `RiskyOnlyOnContinue`, `EveryStopAudited`, `PageImplementsGate` |
| `GuardAndCase_proof` (`AuditStore`) | `LimitAssumption`, `CallsAssumption` | `StoreTypeCorrect`, `LossHolds`, `OwnEventHolds` |
| `DrLint_proof` | `InputsAssumption` | `StatusesHold`, `PassHolds`, `ComparisonHolds` |
| `ProbeAndCapture_proof` (`ProbeRun`) | `PlansAssumption`, `OptionsAssumption`, `ObservationsAssumption` | `TypeCorrect`, `TrackingHolds`, `GatesHold`, `LeftoversHold`, `ProceedHolds`, `LedgerHolds` |
| `GuardAndCase_proof` (`CaseFile`) | `RecordsAssumption` | `CaseTypeCorrect`, `LifecycleHolds`, `CaseLossHolds`, `OriginsHold`, `GeneratedHolds`, `GatedHolds` |
| `ProbeAndCapture_proof` (`HostCapture`) | `EventsAssumption`, `MapsAssumption` | `CaptureInvHolds`, `WholeHolds`, `OwnReplayHolds`, `CompatibleHolds`, `PackageHolds` |
| `CanaryRun_proof` | `FixtureAssumption`, `ResponsesAssumption`, `OptionsAssumption` | `LeakIsBlocked`, `ReleaseIsEarned`, `DenialIsExpected`, `TableTellsVerdict` |
| `BenchRun_proof` | `LatenciesAssumption`, `InputsAssumption` | `TypeCorrect`, `SentHolds`, `SimulatorIsRepeatable`, `EarnedHolds` |
| `BrownoutRun_proof` | `InputsAssumption` | `CompiledHolds`, `NullRouteHolds`, `DegradeHolds`, `PassHolds`, `MatchedHolds` |
| `EstateTriage_proof` | `FamiliesAssumption`, `ThresholdsAssumption` | `NoTakerHolds`, `StrongHolds`, `OrderHolds`, `CutLastHolds`, `EnginesHold` |
| `GpuRack_proof` | `NodesAssumption`, `EvidenceAssumption`, `RacksAssumption` | `TypeHolds`, `UntouchedHolds`, `LossHolds`, `MultinodeHolds`, `FilesHold` |

What the assumptions say of the inputs is what the readers and validators of the code see to: a plan is one that `build_plan`
makes (`BenchRun`), a probe plan has steps of the planner's kinds (`ProbeRun`), users and documents are listed once (`CanaryRun`),
thresholds are not negative (`EstateTriage`), node names differ and numbers are integers or missing (`GpuRack`), an event has a target and
limits are integers (`BrownoutRun`), rows, options and the inventory have the fields of their models, texts
are ordered by a rank of their own (`DrLint`), fields of a screen have a place, a length and an id, and a map's entries those of `FieldMapEntry`
(`HostCapture`). TLC evaluates each on its run's instance.

The arguments:

* **The page.** A listener's outcome depends on marks, policy, capture and verdict in many combinations. The lemma on *moves* says that
  every step, whichever handler makes it, is one of a few: a bypass on a mark, a scanned send, a stop, a quiet
  change, a Continue with its resubmit, a mark. Each theorem is then proved per move: the refinement (each move is a step of
  `PromptGate` or a stutter, where the gate's credit is continues minus bypasses), and the account `bypasses +
  |confirmed ∩ Forms| ≤ continues`, in which the set of marks stays finite and a mark is added only where a Continue pays.
* **The audit.** `LostOnlyToOverlap` is not inductive: nothing in it speaks of lists in flight. What must hold of the stored list must
  already hold of every list a call is about to write, taken at the time it was read; the invariant adds that
  (`ListsKeep`, with the horizon of what expired), and that a call's own event is in its list.
* **The probe run.** Tracking is inductive once it says what the current probe has already done: a key that is stored is
  tracked before the call, so no answer or exception can come between. The recommendation and the ledger use that
  results are one per probe in plan order, then reason about counts: where nothing failed and nothing is left for review, no row of
  the ledger can be anything but passed, skipped or not run. That a blocker shows in some row exactly when a probe failed is an invariant of its own
  (`Booking`): what is booked tells of the same mismatches as the statuses so far and the severities of the current probe, of which none are left
  between two probes.
* **The case file.** The file and every case in a process's memory satisfy the same predicate (types, a lifecycle borne
  out, an origin that is declared if the case describes anything), and each command preserves it; the file then takes over what memory held.
  The loss theorem counts acknowledged records against those in the file and in the one process under way when nothing interferes.
* **The capture.** The file is a closed session or empty, and a contract is of what the file held when it was extracted (`Framed`); a
  trace without a screen gives the blocker NO_SCREEN_EVENTS, so a contract without blockers can only be of the former. `Traced` keeps the
  types of events and map, `Concluded` says what each recorded result is a replay or a comparison of; from these three the other
  theorems are about functions of a trace. *Its own replay*: every field of the contract stands on its screen (`Stands`), so the map the driver
  makes of the contract adds only copies of fields that are found already, and each value is read where it was recorded. Where every action
  has its screens and screens in a row are alike, the driver's screen before and after the k-th action has the fingerprint the k-th step recorded, by a
  chain of equal screens between the two. *A newer trace*: without a change, equal fingerprints of the screens at equal places are all
  the driver looks at, besides what was put in and shown. *A package*: each field of the merged contract is the same field (`SameField`) as one of a case, and
  each of a case has one there; two of one name are the same unless excepted, so inputs are accepted and outputs read as they were by the case alone.
* **The canary.** Each recorded result is faithful to the scoring of its response and the results of a finished run cover the pack; the verdicts follow by
  cases of the decision's order of precedence. That the pack is `Sound`, every case expecting what the policy says of its
  user and document, is an induction over the rounds in which the code builds, interleaves and cuts it.
* **The benchmark.** A request in flight belongs to the endpoint at hand, which is active and eligible; contacts are only added by such
  requests. The server of an endpoint is the last one of its host, whose existence is a maximum of a finite set. For `SimulatorIsRepeatable` the
  invariant `Tally` says that the numbers a server has dealt out to an endpoint are those of an interval, each to one job: whichever worker
  got which, the numbers that call for an error are the same set. `EarnedHolds` says of each scored endpoint that its status is that
  of its samples, then uses that the choice is the first of the least.
* **The brownout compiler.** `Compiled` says that every list is what the code before it made of the input (matches of services, proposals of
  matches, the plan of proposals) and that what was left out of it left a warning or a blocker behind: a target that is not matched or matched
  twice, a candidate that was refused, an action that was cut. So a status that allows none of these leaves nothing out. Of sorting, `InOrder`
  keeps that the result has the same members; an action's due time in the rollback plan is at least the plan's deadline, a minimum of finitely many numbers.
  A matched incident is one whose last entries say of each action that it was undone or never made (`IsDone`).
* **The triage.** `Traced` says what the loop over rows has done so far: each workload, assessment and ranking is what the rows give. Only a match by
  uuid gives a strong candidate, and two rows that share a uuid are marked as duplicates, which rules strong candidates out; that leaves
  overrides. For `OrderHolds` the export read backwards is a mirror: the first match of one is the last of the other, and the two are the same row unless
  the key is found twice, which is flagged. For `CutLastHolds` the balanced and the round key are strict total orders, so a row's place is the
  number of rows below it. For `EnginesHold` each rule's condition is rewritten in the features of the older engine, the points are summed
  rule by rule (a sum over a sequence unfolds by the least length at which it would not, `SumUnfolds`), and the same motion wins with the same flags.
* **The rack.** `Filed` gives each run the one directory it judged and says that every file holds what the verdicts of its run's directory
  make of it; `Unchanged`, that evidence which did not change is what was judged. Without the first nothing ties the file one step wrote to the file of
  another, as the collector has changed the evidence since. The label is then taken apart by the conditions of `labels.py`, and losing a file is followed
  through the flags it feeds: each can only add a blocker or a warning, but for the exceptions the property names.
* **The lint.** `StatusesAgree` rests on the second deduplication: `Severity` knows how many queries and systems are behind an observation, the
  decisions do not, and the two agree only because what is merged late counts in full (`InFull`). The lemmas follow the data: picking
  and sorting move items to places of their own; merging a group of one key keeps the key (`MergedKeepsKey`); so after the first deduplication keys are
  apart; an observation that is absent keeps its key through the lookup; hence, in the second, a group without a member that is
  present is of one observation only. The invariant for it is `Linted`: the input as it was read, evidence that
  names texts, observations in full, a report that agrees with them. `Derived` says besides that evidence, observations and report are what the code
  makes of the input, and `Compares` the same of each window compared.
* **No gap passed over.** A set of items that stands apart splits everything made of items in two sides, told apart by the names and addresses
  an observation is known by. Aggregation and merging join what shares a key, a key is made of one of these marks, and so a group is all on one side; an
  observation found by the lookup takes marks from the system it was found as, but then the item it came from is found as well. If no member of the
  set is found or excused, an observation of its side that is required, absent and not excused is left at the end, and the status is not PASS.
* **The order of rows.** A list of rows and the same rows in another order give items that embed in each other (`RowsEmbed`, place by place and
  one to one). So the groups of one key have the same length and the same members, and members of one key are said alike by `SteadyAnswers`: the
  observation of a group, which looks at its first item, its maxima and its counts, is the same. Keys that differ sort apart, and a list without ties has one sorted
  form only (`SortedIsOne`, `OrderIsHidden`); after the first aggregation nothing is left of the order.

Functions defined by recursion (`FlattenSeq`, loops over a list) are unfolded by a lemma that says one exists and any two agree, both by the
least place where they would not (`Recursion`, `SameSteps`). What is left to a library operator with an anonymous function
(`SelectSeq`, `SortSeq`, `FoldLeft`) is out of the provers' reach: they cannot look into it, nor see that two such terms are equal. The models
therefore pick by sets of places (`Picked`, `Mapped`, `Groups` in `DrEvidence` and `DrFindings`, `SamplesOf`, `SumOf` in the triage, `AtRank` in
`BenchPolicy`, `Candidates` in `CanaryPolicy`), and sort by what a sorted list is; a fold that remains has a name of its own
(`QueryCount`, `LookedUp`, `ByIp` and the like).

Proved and in no run: the type invariants, `Compiled` (`CompiledHolds`), `OneContinueOneBypass` (`BypassesPaid`), `StopsAreAudited`
(`EveryStopAudited`), `FlagsGateOperations` (`GatesHold`), `SentOnlyWhereAllowed` (`SentHolds`) and the three
theorems about decisions, of which `DecisionMonotone` says that more evidence never weakens a verdict.

Every safety property that a passing run checks is stated by a theorem. **Only model-checked** is `SimulatedRunEnds`, a liveness property, which
the prover does not do (nor `ENABLED`). `ReadOnlyWritesNothing` is what the code violates and TLC shows. No module declares a recursive operator.

## 6. What is not modelled

**cabinet-burst-envelope** aligns readings into buckets and puts a cabinet into a lane: one pass of floating-point
arithmetic over rows, with no state that outlives a call and no second conclusion to compare with. Its window
ends at the newest timestamp of all rows and is open there (`time_align.py:97`), so the newest reading is left out.
**demodocs** holds documents only.

Everywhere: matching of text (regular expressions, entropy) is a choice of which patterns match; texts of reports, rendering,
bundles, redaction and generated example data are left out; so is reading and normalising of files, of which the models take the result.
Within the modelled tools:

* prompt-egress-guard: confidence and risk level of a scan (reported, never decided upon), the policy compiler, pilot reports.
* s3-compat-replay: log mining, impact estimates.
* stateful-storage-fit: the fit engine (a sequential rule set whose result is a value of the case here), collector,
  parsers, tables over many cases.
* rag-permission-canary: reports, the fixtures, the demonstration server.
* inference-placement-bench: p50 and p99, gaps between tokens, weighted scores, sensitivity, prompts, economics.
* brownout-policy-compiler: readiness report, rate-limit profiles, confidence, action groups, approval bundle. Services come in the order of their ids.
* estate-triage: the mode `missing_evidence_first`, traces and sources of features, the features of context, provisioned
  storage, snapshots and data quality, policy packs of users and their "any" groups, several merged exports, work queues, comparison of
  triages, impact of a policy.
* host-screen-contracts: hidden fields and attributes, confidence, types, the blocker for coordinate names, sizes of screens, seq
  numbers given by hand, unsupported AIDs, readiness, privacy, OpenAPI, the flow graph, the cursor in a fingerprint.
* gpu-rack-qualifier: confidence, questions, the alphabetical choice of a primary reason, ECC mode, rounding, drift and
  baselines, simulation, coverage, portfolio, planning, fixtures, schemas, handoff.
* dr-prereq-lint: reason codes and notes, source rows, owner work items, quality of evidence, strict mode, business context, the
  cache, the cut to five, configured severities, inference of internal domains.

## 7. Plan

1. *(done)* The page with its gate and audit, the probe run, the case file, the canary and the benchmark, with their proofs.
2. *(done)* The brownout compiler with its incident, identity and kernel of estate-triage, captures and replays of
   host-screen-contracts, the lint of dr-prereq-lint, the rack qualifier.
3. *(done)* Proofs of every safety property the runs check.
4. Models: the fit engine as a part of `CaseRecord`, alignment and lanes of cabinet-burst-envelope over integers, the drift of the rack
   qualifier, the readiness score of host-screen-contracts.

## 8. Notes met while reading

Not findings of a run: places where the code does something a reader may not expect, kept here for the next change of the code or of the models.

* prompt-egress-guard: a lone support ticket has risk level NONE; a prompt above `max_prompt_chars` is scanned in its two
  halves only (`decision.ts:41`); the events USER_CONFIRMED_WARN_CONTINUE and LOCAL_AUDIT_RETENTION_LIMIT_REACHED are declared and never
  emitted; `audit.enabled` of a policy is never read.
* s3-compat-replay: with LOW evidence one skipped optional probe raises the confidence to MEDIUM (`report.py:248`);
  `summarize` may be given a plan and results that do not belong together (`cli.py:224`); `requires_allow_writes` is never
  consulted; the ledger has a row for a family no probe of the plan has, NOT_RUN even under PROCEED_WITH_CAVEATS (`decision.py:95`): usage of PutObject alone shows
  `object_write`, while its probe is of `object_read`, and a plan cut by `max_probes` leaves more of them; a mismatch is booked on the family of its code
  (`capabilities.py:42`), so that the row of a failed copy says FAIL with severity INFO, and `object_read`, which passed, has the blocker; a strict run that raises leaves its objects without cleanup; `abort_multipart_upload` is never called.
* stateful-storage-fit: `retired` is never set; a case with one review can be promoted by consensus; a review and a
  neutral outcome after a decisive one hide it; torn files that happen to parse are left out of the model; quality
  of outcomes is a mean over all of them though `GAPS.md:22` speaks of decisive ones.
* rag-permission-canary: bodies that are not JSON and server errors pass forbidden cases; an echoed query counts as
  positive evidence; 401 and 403 lead to FAIL though `README.md:195` keeps FAIL for forbidden evidence; a leak is booked on the document the case is
  about; a run without tests ends with code 0.
* inference-placement-bench: the constraints on cost and token usage are never read though `README.md:22` lists
  them; HIGH confidence cannot be reached; losing a slow success can turn FAIL into REVIEW; equal periods of errors and timeouts hide the
  errors; an undeclared location passes an allowed list unless it is required; endpoints on one host share the last
  one's simulator; once a simulator is set up, real endpoints of the run are answered by it with 599; a strict FAIL raises without its results.
* brownout-policy-compiler: a matched target whose service allows no candidate gets no action and no warning, and the plan may
  pass; an action takes its protocol from the endpoint, and "any" is wider than the attack; `max_actions` 0 counts as unset; entries without an
  id are dropped by the diff; actions that only monitor name a rollback that does not exist; the branch for blockers of
  pack validation in `compile_from_paths` cannot be reached; ids of services are not checked to differ, and entries of one id count as one service, so a null route meant for one
  may reach an address of another of higher priority (`normalize.py:77`); rollback actions are listed against the order of their deadlines (`tests/test_rollback.py:22` asks for it).
* estate-triage: an override that names no backup row suppresses every other match; of two overrides with one key the later
  counts; an override by name is never looked up for a row with a uuid; an override to a duplicated uuid takes the first row silently; a match by name ignores
  that the uuids differ; two overrides may make two strong candidates on one backup row; archive rows without storage figures may be of high
  confidence. The older engine differs from the kernel on the last-seen date, the RPO, utilization, loose names, overrides and the flag of a row that is powered off.
* host-screen-contracts: a trace without blockers may fail its own replay if an action lacks a screen before or
  after it, two differing screens come in a row, a name stands for two fields, an action puts two values into one field (the case keeps the
  later, the driver takes the earlier), or an output is mapped at any screen by place without a length. A compatible trace of another shape may not
  replay, and a screen with one id at two places is not compatible with itself. In a package the contract has the first case's map, request fields are
  looked up by name across cases, and the field of another case with the same id and another place is read instead of the case's own. Which of two fields at one
  position comes first is left open by the model (`ByPosition`).
* gpu-rack-qualifier: a missing topology, even a required one, leaves the multi-node label under REVIEW, and losing a weak one or a BMC
  snapshot with a blocker releases it; a reading of the number 0 counts as none unless it is in `ReadingWatts` (`parse_bmc_snapshot.py:76`), so a stopped fan whose health is OK is
  no failure, while one that reads "0" as text is;
  wrong counts and statuses of runs with other nodes are not judged, and rows of a garbage CSV count as passed; with critical health not quarantined for, a node
  may pass with the blocker BMC_POWER_CRITICAL; without an expected count a node without GPUs may pass; link labels from NV13 on are not counted as
  NVLink; names of labels are fixed in the reports and free in the policy; strict checks the first of two loads and does not ask for runs with other nodes; a bad file
  of assumptions raises after five outputs (`workflow.py:53`); INFERENCE_ONLY with a weak topology becomes AVOID_MULTINODE and
  gains the single-node label; ready and withheld nodes need not add up to all; the state DRAIN_REVIEW cannot be reached.
* dr-prereq-lint: where one target is answered in two ways, or catalogued under two display names, the order of rows decides the status (an SRV answer
  with more names than addresses is answered in two ways by itself); an SRV answer that lists one target
  that is present makes all its targets present; a workload named by an address without an FQDN has the short name "10" and matches any
  address of that network; a lint PASS may come with a decision of REVIEW, for an accepted risk; rows of unmapped clients are skipped unless asked for; one row
  with an unreadable time switches the window off for all rows (`dns_log.py:58`), so an item may be merged with another through a row
  that lies outside of the window.
