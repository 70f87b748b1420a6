------------------------------ MODULE ProbeRun ------------------------------
(* s3-compat-replay probe: one run of a probe plan against a target bucket,  *)
(* its cleanup and the files it writes.  One action per call to the target,  *)
(* which may answer anything, or nothing.                                    *)
(*                                                                           *)
(* External, from how src/ uses it: the target acknowledges a change only    *)
(* after making it; a change it does not acknowledge may still have been     *)
(* made; a call the client library gives up on comes back without a status   *)
(* (s3_client.py: _call), except where the code reads a body or uses HTTP    *)
(* directly, which may raise.                                                *)
EXTENDS ProbePlanner, CutoverDecision

CONSTANTS Plans,        \* the plan files a run may be given
          Options,      \* the command lines it may be given
          Observations  \* the sets of families a usage profile may show

OptionType ==
  [allow_writes : BOOLEAN, read_only : BOOLEAN, cleanup : BOOLEAN, strict : BOOLEAN,
   granted : SUBSET Permission]

(* The permission an operation should not be sent without.                   *)
Guarded == [DeleteObject |-> "deletes", GetObjectAcl |-> "acl", CreateMultipartUpload |-> "multipart",
            UploadPart |-> "multipart", CompleteMultipartUpload |-> "multipart",
            PutObjectRetention |-> "object_lock"]

(* What build_probe_plan guarantees of a plan: one probe of each id, and the *)
(* flags each operation needs.                                               *)
ASSUME PlansAssumption ==
  \A plan \in Plans :
    /\ plan \in Seq(Probe)
    /\ \A i, j \in DOMAIN plan : plan[i].id = plan[j].id => i = j
    /\ \A i \in DOMAIN plan : \A k \in DOMAIN plan[i].steps :
         plan[i].steps[k].op \in DOMAIN Guarded => Guarded[plan[i].steps[k].op] \in plan[i].needs

ASSUME OptionsAssumption == Options \subseteq OptionType

ASSUME ObservationsAssumption == Observations \subseteq SUBSET STRING

VARIABLES
  plan, opts,  \* the plan and the options of this run
  phase,       \* "probing", "cleaning", "writing", "done" or "raised"
  results,     \* the statuses of the probes so far
  step,        \* the next step of the current probe
  severities,  \* the severities of its mismatches so far
  booked,      \* <<family, severity>> of every mismatch so far, as the ledger books it
  idKnown,     \* whether the target gave an id for its multipart upload
  created,     \* created_keys: what the run believes it has made
  objects,     \* the objects of this run in the target bucket
  uploads,     \* the multipart uploads of this run still open there
  pending,     \* the keys cleanup has yet to delete
  cleanupOk,   \* cleanup_succeeded
  manifest,    \* the objects of the cleanup manifest
  written,     \* the files written
  sent,        \* (history) the operations the probes have sent
  unanswered   \* (history) the keys whose cleanup delete got no status

target == <<objects, uploads>>
reports == <<pending, cleanupOk, manifest, written, unanswered>>
vars == <<plan, opts, phase, results, step, severities, booked, idKnown, created, target, reports, sent>>

-----------------------------------------------------------------------------
(* The operations probe_needs_write counts as writes.                        *)
WriteOps ==
  {"PutObject", "CopyObject", "DeleteObject", "PutObjectTagging", "DeleteObjectTagging",
   "CreateMultipartUpload", "UploadPart", "CompleteMultipartUpload", "PutObjectRetention"}

NeedsWrite(probe) == \E k \in DOMAIN probe.steps : probe.steps[k].op \in WriteOps

EffectiveReadOnly == opts.read_only \/ ~opts.allow_writes

(* _unsafe_reason gives one.                                                 *)
Unsafe(probe) ==
  \/ EffectiveReadOnly /\ NeedsWrite(probe)
  \/ ~ probe.needs \subseteq opts.granted

(* The steps that make no call to the target.                                *)
LocalOps == {"PresignedExpiryBoundary", "PolicyContextReview", "LifecycleValidationPlan"}

StoreOps == {"PutObject", "PutObjectEncryption", "CopyObject", "PresignedPut", "CompleteMultipartUpload"}

(* Mutant: copies are not tracked.                                           *)
CopiesUntracked == {"PutObject", "PutObjectEncryption", "CreateMultipartUpload"}

(* The steps that append their key to created_keys, whatever the answer.     *)
Tracked == {"PutObject", "PutObjectEncryption", "CopyObject", "CreateMultipartUpload"}

MayRaise == {"GetObject", "ConditionalGetObject", "GetObjectRange", "PresignedGet", "PresignedPut", "CorsPreflight"}

Probing == phase = "probing" /\ Len(results) < Len(plan)

current == plan[Len(results) + 1]

KeyOf(s) == <<current.id, s.key>>

(* Whether the target can do what a step asks: a copy needs its source, and  *)
(* a part or a completion the open upload and its id.                        *)
Possible(s) ==
  CASE s.op = "CopyObject"                               -> <<current.id, 1>> \in objects
    [] s.op \in {"UploadPart", "CompleteMultipartUpload"} -> idKnown /\ KeyOf(s) \in uploads
    [] OTHER                                              -> TRUE

(* The target does what the step asks.                                       *)
Perform(s) ==
  /\ objects' = CASE s.op \in StoreOps      -> objects \cup {KeyOf(s)}
                  [] s.op = "DeleteObject"  -> objects \ {KeyOf(s)}
                  [] OTHER                  -> objects
  /\ uploads' = CASE s.op = "CreateMultipartUpload"   -> uploads \cup {KeyOf(s)}
                  [] s.op = "CompleteMultipartUpload" -> uploads \ {KeyOf(s)}
                  [] OTHER                            -> uploads

(* The severity of a mismatch in a status or a deep check.                   *)
Severity(probe) == IF probe.required THEN "BLOCKER" ELSE "REVIEW"

(* The families a mismatch in the status may be booked on: that of its code, *)
(* not of its probe.  A target that rejects an ACL call has a code for it.   *)
StatusFamilies(op) == IF op = "GetObjectAcl" THEN {"object_read", "acl"} ELSE {"object_read"}

DeepFamily(op) ==
  CASE op \in {"GetObject", "GetObjectRange"} -> "object_read"
    [] op = "GetObjectTagging"               -> "tagging"
    [] op = "HeadObject"                     -> "metadata"
    [] op = "GetBucketVersioning"            -> "versioning"
    [] op = "ListObjectVersions"             -> "versioning_delete_marker"
    [] OTHER                                 -> "cors"

ShapeFamily(op) == IF op = "ListObjectsV2Pagination" THEN "list_pagination" ELSE "object_read"

(* The mismatches of a step, as the ledger books them, family being the one  *)
(* of a mismatch in the status.  A bucket whose versioning is not enabled    *)
(* ends the comparison there and then.                                       *)
Found(op, answer, check, family) ==
  LET status == {<<family, Severity(current)>> : a \in {answer} \ {"expected"}}
  IN  CASE check = "deep" /\ op = "GetBucketVersioning" -> {<<"versioning", Severity(current)>>}
        [] check = "deep" /\ op # "GetBucketVersioning" -> status \cup {<<DeepFamily(op), Severity(current)>>}
        [] check = "shape"                              -> status \cup {<<ShapeFamily(op), "REVIEW">>}
        [] OTHER                                        -> status

StatusOf(found) ==
  CASE found = {}          -> "PASS"
    [] "BLOCKER" \in found -> "FAIL"
    [] OTHER               -> "REVIEW"

-----------------------------------------------------------------------------
Init ==
  /\ plan \in Plans /\ opts \in Options
  /\ phase = "probing" /\ results = <<>> /\ step = 1 /\ severities = {} /\ booked = {} /\ idKnown = FALSE
  /\ created = {} /\ objects = {} /\ uploads = {}
  /\ pending = {} /\ cleanupOk = TRUE /\ manifest = {} /\ written = {}
  /\ sent = {} /\ unanswered = {}

(* A probe the options do not permit is skipped, or ends a strict run there  *)
(* and then when it is required.                                             *)
Skip ==
  /\ Probing /\ step = 1 /\ Unsafe(current)
  /\ \/ /\ opts.strict /\ current.required
        /\ phase' = "raised"
        /\ UNCHANGED results
     \/ /\ ~(opts.strict /\ current.required)
        /\ results' = Append(results, "SKIP")
        /\ UNCHANGED phase
  /\ UNCHANGED <<plan, opts, step, severities, booked, idKnown, created, target, reports, sent>>

Stepping == Probing /\ ~Unsafe(current) /\ step \in DOMAIN current.steps

(* One call and its comparison: answer is the status the step expects,       *)
(* another one, or none; check is the further check that finds a difference, *)
(* whatever the status (the versioning of a bucket is only checked for a     *)
(* probe that is required).                                                  *)
RunStep(answer, performed, check) ==
  LET s == current.steps[step] IN
  /\ Stepping
  /\ performed => Possible(s) /\ s.op \notin LocalOps
  /\ s.op \notin LocalOps /\ answer = "expected" => performed
  /\ s.op \in LocalOps => answer = "expected"
  /\ check \in s.checks \cup {"none"}
  /\ check = "deep" /\ s.op = "GetBucketVersioning" => current.required
  /\ IF performed THEN Perform(s) ELSE UNCHANGED target
  /\ created' = IF s.op \in Tracked THEN created \cup {KeyOf(s)} ELSE created
  /\ IF s.op = "CreateMultipartUpload"
     THEN idKnown' \in {known \in BOOLEAN : (answer = "expected" => known) /\ (answer = "none" => ~known)}
     ELSE UNCHANGED idKnown
  /\ \E family \in StatusFamilies(s.op) :
       LET found == Found(s.op, answer, check, family)
       IN  severities' = severities \cup {m[2] : m \in found} /\ booked' = booked \cup found
  /\ sent' = IF s.op \in LocalOps THEN sent ELSE sent \cup {s.op}
  /\ step' = step + 1
  /\ UNCHANGED <<plan, opts, phase, results, reports>>

(* Reading a body or an HTTP request fails: the exception leaves the run,    *)
(* with no cleanup and no file.                                              *)
RaiseInStep(performed) ==
  LET s == current.steps[step] IN
  /\ Stepping /\ s.op \in MayRaise
  /\ IF performed THEN Perform(s) ELSE UNCHANGED target
  /\ sent' = sent \cup {s.op}
  /\ phase' = "raised"
  /\ UNCHANGED <<plan, opts, results, step, severities, booked, idKnown, created, reports>>

FinishProbe ==
  /\ Probing /\ ~Unsafe(current) /\ step > Len(current.steps)
  /\ results' = Append(results, StatusOf(severities))
  /\ step' = 1 /\ severities' = {} /\ idKnown' = FALSE
  /\ UNCHANGED <<plan, opts, phase, booked, created, target, reports, sent>>

FinishPlan ==
  /\ phase = "probing" /\ Len(results) = Len(plan)
  /\ phase' = IF opts.cleanup THEN "cleaning" ELSE "writing"
  /\ pending' = IF opts.cleanup THEN created ELSE {}
  /\ UNCHANGED <<plan, opts, results, step, severities, booked, idKnown, created, target, cleanupOk,
                 manifest, written, unanswered, sent>>

(* Mutant: the last delete decides whether cleanup succeeded.                *)
CleanKeyLastWins(key, status, performed) ==
  /\ phase = "cleaning" /\ key \in pending
  /\ status = "deleted" => performed
  /\ objects' = IF performed THEN objects \ {key} ELSE objects
  /\ pending' = pending \ {key}
  /\ cleanupOk' = (status # "refused")
  /\ unanswered' = IF status = "none" THEN unanswered \cup {key} ELSE unanswered
  /\ UNCHANGED <<plan, opts, phase, results, step, severities, booked, idKnown, created, uploads,
                 manifest, written, sent>>

(* One cleanup delete: 200, 202 and 204 are "deleted", no status at all      *)
(* counts as success too, and any other status fails the cleanup.            *)
CleanKey(key, status, performed) ==
  /\ phase = "cleaning" /\ key \in pending
  /\ status = "deleted" => performed
  /\ objects' = IF performed THEN objects \ {key} ELSE objects
  /\ pending' = pending \ {key}
  /\ cleanupOk' = (cleanupOk /\ status # "refused")
  /\ unanswered' = IF status = "none" THEN unanswered \cup {key} ELSE unanswered
  /\ UNCHANGED <<plan, opts, phase, results, step, severities, booked, idKnown, created, uploads,
                 manifest, written, sent>>

FinishCleanup ==
  /\ phase = "cleaning" /\ pending = {}
  /\ manifest' = IF cleanupOk THEN {} ELSE created
  /\ phase' = "writing"
  /\ UNCHANGED <<plan, opts, results, step, severities, booked, idKnown, created, target, pending,
                 cleanupOk, written, unanswered, sent>>

Files == IF cleanupOk THEN <<"results", "mismatches">> ELSE <<"results", "mismatches", "manifest">>

(* The command writes its files in this order; a write that fails ends it.   *)
WriteFile(i, ok) ==
  /\ phase = "writing"
  /\ Files[i] \notin written /\ \A j \in 1..(i - 1) : Files[j] \in written
  /\ written' = IF ok THEN written \cup {Files[i]} ELSE written
  /\ phase' = CASE ~ok                  -> "raised"
                [] ok /\ i = Len(Files) -> "done"
                [] OTHER                -> "writing"
  /\ UNCHANGED <<plan, opts, results, step, severities, booked, idKnown, created, target, pending,
                 cleanupOk, manifest, unanswered, sent>>

Next ==
  \/ Skip
  \/ \E answer \in {"expected", "other", "none"}, performed \in BOOLEAN, check \in Check \cup {"none"} :
       RunStep(answer, performed, check)
  \/ \E performed \in BOOLEAN : RaiseInStep(performed)
  \/ FinishProbe
  \/ FinishPlan
  \/ \E key \in pending, status \in {"deleted", "refused", "none"}, performed \in BOOLEAN :
       CleanKey(key, status, performed)
  \/ FinishCleanup
  \/ \E i \in DOMAIN Files, ok \in BOOLEAN : WriteFile(i, ok)

Spec == Init /\ [][Next]_vars

-----------------------------------------------------------------------------
Keys == {<<plan[i].id, k>> : i \in DOMAIN plan, k \in {1, 2}}

MismatchFamily ==
  {"object_read", "acl", "list_pagination", "tagging", "metadata", "versioning",
   "versioning_delete_marker", "cors"}

TypeOK ==
  /\ plan \in Plans /\ opts \in Options
  /\ phase \in {"probing", "cleaning", "writing", "done", "raised"}
  /\ results \in Seq(Status) /\ Len(results) <= Len(plan)
  /\ step \in Nat \ {0}
  /\ severities \subseteq {"BLOCKER", "REVIEW"}
  /\ booked \subseteq MismatchFamily \X {"BLOCKER", "REVIEW"}
  /\ idKnown \in BOOLEAN /\ cleanupOk \in BOOLEAN
  /\ created \subseteq Keys /\ objects \subseteq Keys /\ uploads \subseteq Keys
  /\ pending \subseteq created /\ manifest \subseteq created /\ unanswered \subseteq created
  /\ written \subseteq {"results", "mismatches", "manifest"}
  /\ sent \subseteq Operation

(* The keys only a presigned PUT stores: the code never tracks them.         *)
Untracked ==
  {<<plan[i].id, k>> : i \in {j \in DOMAIN plan : \E n \in DOMAIN plan[j].steps :
                                 plan[j].steps[n].op = "PresignedPut"},
                       k \in {1, 2}}

(* Whatever the target answers, loses or does behind an error, the run never *)
(* forgets an object it may have made, nor an upload it may have opened:     *)
(* both are in created_keys, except what a presigned PUT stores              *)
(* (probes/__init__.py:140-224).                                             *)
EveryObjectTracked == objects \subseteq created \cup Untracked /\ uploads \subseteq created

(* No probe sends an operation whose flag the command line did not give, nor *)
(* an operation probe_needs_write knows in a run without writes              *)
(* (README.md: Probe Safety).                                                *)
FlagsGateOperations ==
  /\ \A op \in sent \cap DOMAIN Guarded : Guarded[op] \in opts.granted
  /\ EffectiveReadOnly => sent \cap WriteOps = {}

(* When a run with cleanup ends, every tracked object still in the bucket is *)
(* listed in a manifest on disk, unless its delete got no answer at all.     *)
LeftoversAreListed ==
  phase = "done" /\ opts.cleanup =>
    \A key \in objects \cap created :
      ("manifest" \in written /\ key \in manifest) \/ key \in unanswered

(* The summary of a finished run recommends to proceed only when every       *)
(* required probe of the plan passed, whatever the source evidence is worth. *)
ProceedMeansRequiredPassed ==
  phase = "done" =>
    \A base \in Confidence :
      Recommendation(plan, results, base) = "PROCEED_WITH_CAVEATS" =>
        /\ DOMAIN results = DOMAIN plan
        /\ \A i \in DOMAIN plan : plan[i].required => results[i] = "PASS"

(* The capability ledger groups statuses by the family of the probe and      *)
(* mismatches by the family of their code, the recommendation counts probes: *)
(* computed apart, the three agree for every usage profile.  A run is        *)
(* blocked exactly when some row failed, and exactly when some row, perhaps  *)
(* another one, has a blocker.  A run proceeds only when every row passed,   *)
(* was skipped or was not run, and no row has a mismatch.  Not run are the   *)
(* rows without a probe in the plan, and no other.                           *)
LedgerAgrees ==
  phase = "done" =>
    \A observed \in Observations, base \in Confidence :
      LET rows   == Ledger(plan, results, observed, booked)
          advice == Recommendation(plan, results, base)
      IN  /\ advice = "BLOCK" <=> \E f \in DOMAIN rows : rows[f].status = "FAIL"
          /\ advice = "BLOCK" <=> \E f \in DOMAIN rows : rows[f].severity = "BLOCKER"
          /\ advice = "PROCEED_WITH_CAVEATS" =>
               \A f \in DOMAIN rows : rows[f].status \in {"PASS", "SKIP", "NOT_RUN"} /\ rows[f].severity = "INFO"
          /\ \A f \in DOMAIN rows :
               rows[f].status = "NOT_RUN" <=> \A i \in DOMAIN plan : plan[i].family # f

(* "probe is read-only unless --allow-writes is passed" (README.md:298).     *)
ReadOnlyWritesNothing ==
  EffectiveReadOnly => sent \cap (WriteOps \cup StoreOps) = {}

=============================================================================
