------------------------ MODULE ProbeAndCapture_proof ------------------------
(* Two programs that record what they see, step by step.                     *)
(*                                                                           *)
(* What holds of a probe run for every plan and every command line: types,   *)
(* the tracking of what was made, the permission gates, and what a cleanup   *)
(* may leave unlisted.                                                       *)
(*                                                                           *)
(* The host screens (from "The captures" on): what a contract is of, when a  *)
(* trace passes its own replay, what "compatible" promises, and what a       *)
(* package keeps of its members.                                             *)
EXTENDS ProbeRun, HostCapture,
        FiniteSetTheorems, SequenceTheorems, NaturalsInduction, WellFoundedInduction, TLAPS

LEMMA CurrentProbe ==
  ASSUME TypeOK, Probing
  PROVE  /\ Len(results) + 1 \in DOMAIN plan
         /\ current = plan[Len(results) + 1]
         /\ current \in Probe
<1>1. plan \in Seq(Probe)  BY PlansAssumption DEF TypeOK
<1>2. Len(results) \in Nat /\ Len(plan) \in Nat /\ DOMAIN plan = 1..Len(plan)
  BY <1>1, LenProperties DEF TypeOK
<1>3. Len(results) + 1 \in 1..Len(plan)  BY <1>2 DEF Probing
<1> QED  BY <1>1, <1>2, <1>3, ElementOfSeq DEF current

LEMMA CurrentStep ==
  ASSUME TypeOK, Stepping
  PROVE  /\ current.steps[step] \in StepType
         /\ KeyOf(current.steps[step]) \in Keys
         /\ Probing
<1>1. Probing /\ current \in Probe /\ current = plan[Len(results) + 1] /\ Len(results) + 1 \in DOMAIN plan
  BY CurrentProbe DEF Stepping
<1>2. current.steps \in Seq(StepType)  BY <1>1 DEF Probe
<1>3. step \in 1..Len(current.steps)  BY <1>2, LenProperties DEF Stepping
<1>4. current.steps[step] \in StepType  BY <1>2, <1>3, ElementOfSeq
<1>5. current.steps[step].key \in {1, 2}  BY <1>4 DEF StepType
<1>6. KeyOf(current.steps[step]) \in Keys  BY <1>1, <1>5 DEF KeyOf, Keys
<1> QED  BY <1>1, <1>4, <1>6

(* Every mismatch of a step is of a known family and of a severity the       *)
(* status of the probe is worked out from.                                   *)
LEMMA FoundIs ==
  ASSUME NEW op, NEW answer, NEW check, NEW family \in StatusFamilies(op)
  PROVE  Found(op, answer, check, family) \subseteq MismatchFamily \X {"BLOCKER", "REVIEW"}
<1>1. Severity(current) \in {"BLOCKER", "REVIEW"}  BY DEF Severity
<1>2. family \in MismatchFamily  BY DEF StatusFamilies, MismatchFamily
<1>3. DeepFamily(op) \in MismatchFamily  BY DEF DeepFamily, MismatchFamily
<1>4. ShapeFamily(op) \in MismatchFamily /\ "versioning" \in MismatchFamily
  BY DEF ShapeFamily, MismatchFamily
<1> QED  BY <1>1, <1>2, <1>3, <1>4 DEF Found

LEMMA SameKeys == ASSUME UNCHANGED plan PROVE Keys' = Keys /\ Untracked' = Untracked
  BY DEF Keys, Untracked

-----------------------------------------------------------------------------
(* The state of a run has the types its variables are declared with, for any *)
(* plans and options (probes/__init__.py: run_probe_plan).                   *)
THEOREM TypeCorrect == Spec => []TypeOK
<1>1. Init => TypeOK
  <2> SUFFICES ASSUME Init PROVE TypeOK  OBVIOUS
  <2>1. plan \in Seq(Probe)  BY PlansAssumption DEF Init
  <2>2. results = <<>> /\ Len(results) = 0 /\ results \in Seq(Status)  BY EmptySeq DEF Init
  <2>3. Len(results) <= Len(plan)  BY <2>1, <2>2, LenProperties
  <2>4. idKnown \in BOOLEAN /\ cleanupOk \in BOOLEAN  BY DEF Init
  <2> QED  BY <2>2, <2>3, <2>4 DEF Init, TypeOK
<1>2. TypeOK /\ [Next]_vars => TypeOK'
  <2> SUFFICES ASSUME TypeOK, [Next]_vars PROVE TypeOK'  OBVIOUS
  <2> USE SameKeys
  <2>0. /\ plan \in Seq(Probe) /\ Len(plan) \in Nat /\ Len(results) \in Nat
        /\ opts \in OptionType
    BY PlansAssumption, OptionsAssumption, LenProperties DEF TypeOK
  <2>1. CASE Skip
    <3>1. results' = results \/ results' = Append(results, "SKIP")  BY <2>1 DEF Skip
    <3>2. results' \in Seq(Status) /\ Len(results') <= Len(plan)
      BY <2>0, <2>1, <3>1, AppendProperties DEF Skip, Probing, Status, TypeOK
    <3>3. phase' \in {"probing", "raised"}  BY <2>1 DEF Skip, Probing
    <3> QED  BY <2>1, <3>2, <3>3 DEF Skip, TypeOK, target, reports
  <2>2. ASSUME NEW answer \in {"expected", "other", "none"}, NEW performed \in BOOLEAN,
               NEW check \in Check \cup {"none"}, RunStep(answer, performed, check)
        PROVE  TypeOK'
    <3> DEFINE s == current.steps[step]
    <3>1. s \in StepType /\ KeyOf(s) \in Keys  BY <2>2, CurrentStep DEF RunStep
    <3>2. objects' \subseteq Keys /\ uploads' \subseteq Keys
      BY <2>2, <3>1 DEF RunStep, Perform, TypeOK, target
    <3>3. created' \subseteq Keys /\ created \subseteq created'  BY <2>2, <3>1 DEF RunStep, TypeOK
    <3>4. idKnown' \in BOOLEAN  BY <2>2 DEF RunStep, TypeOK
    <3>5. /\ severities' \subseteq {"BLOCKER", "REVIEW"}
          /\ booked' \subseteq MismatchFamily \X {"BLOCKER", "REVIEW"}
      <4>1. PICK family \in StatusFamilies(s.op) :
              /\ severities' = severities \cup {m[2] : m \in Found(s.op, answer, check, family)}
              /\ booked' = booked \cup Found(s.op, answer, check, family)
        BY <2>2 DEF RunStep
      <4>2. Found(s.op, answer, check, family) \subseteq MismatchFamily \X {"BLOCKER", "REVIEW"}  BY FoundIs
      <4> QED  BY <4>1, <4>2 DEF TypeOK
    <3>6. sent' \subseteq Operation  BY <2>2, <3>1 DEF RunStep, TypeOK, StepType
    <3>7. step' \in Nat \ {0}  BY <2>2 DEF RunStep, TypeOK
    <3> QED  BY <2>2, <3>2, <3>3, <3>4, <3>5, <3>6, <3>7 DEF RunStep, TypeOK, reports
  <2>3. ASSUME NEW performed \in BOOLEAN, RaiseInStep(performed) PROVE TypeOK'
    <3> DEFINE s == current.steps[step]
    <3>1. s \in StepType /\ KeyOf(s) \in Keys  BY <2>3, CurrentStep DEF RaiseInStep
    <3>2. objects' \subseteq Keys /\ uploads' \subseteq Keys
      BY <2>3, <3>1 DEF RaiseInStep, Perform, TypeOK, target
    <3>3. sent' \subseteq Operation  BY <2>3, <3>1 DEF RaiseInStep, TypeOK, StepType
    <3> QED  BY <2>3, <3>2, <3>3 DEF RaiseInStep, TypeOK, reports
  <2>4. CASE FinishProbe
    <3>1. StatusOf(severities) \in Status  BY DEF StatusOf, Status
    <3>2. results' \in Seq(Status) /\ Len(results') <= Len(plan)
      BY <2>0, <2>4, <3>1, AppendProperties DEF FinishProbe, Probing, TypeOK
    <3>3. step' = 1 /\ severities' = {} /\ idKnown' = FALSE  BY <2>4 DEF FinishProbe
    <3>4. idKnown' \in BOOLEAN  BY <3>3
    <3>5. /\ UNCHANGED <<plan, opts, phase, created, objects, uploads, pending, cleanupOk>>
          /\ UNCHANGED <<manifest, written, unanswered, sent, booked>>
      BY <2>4 DEF FinishProbe, target, reports
    <3> QED  BY <3>2, <3>3, <3>4, <3>5 DEF TypeOK
  <2>5. CASE FinishPlan  BY <2>5 DEF FinishPlan, TypeOK, target
  <2>6. ASSUME NEW key \in pending, NEW status \in {"deleted", "refused", "none"},
               NEW performed \in BOOLEAN, CleanKey(key, status, performed)
        PROVE  TypeOK'
    BY <2>6 DEF CleanKey, TypeOK
  <2>7. CASE FinishCleanup  BY <2>7 DEF FinishCleanup, TypeOK, target
  <2>8. ASSUME NEW i \in DOMAIN Files, NEW ok \in BOOLEAN, WriteFile(i, ok) PROVE TypeOK'
    <3>1. i \in 1..3 /\ Files[i] \in {"results", "mismatches", "manifest"}  BY DEF Files
    <3>2. phase' \in {"writing", "done", "raised"}  BY <2>8 DEF WriteFile
    <3> QED  BY <2>8, <3>1, <3>2 DEF WriteFile, TypeOK, target
  <2>9. CASE UNCHANGED vars  BY <2>9 DEF vars, target, reports, TypeOK
  <2> QED  BY <2>1, <2>2, <2>3, <2>4, <2>5, <2>6, <2>7, <2>8, <2>9 DEF Next
<1> QED  BY <1>1, <1>2, PTL DEF Spec

-----------------------------------------------------------------------------
(* A step either leaves the bucket and the books alone, is a call to the     *)
(* target, or is a cleanup delete.                                           *)
LEMMA Steps3 ==
  ASSUME TypeOK, [Next]_vars
  PROVE  \/ \E answer \in {"expected", "other", "none"}, performed \in BOOLEAN, check \in Check \cup {"none"} :
              RunStep(answer, performed, check)
         \/ \E performed \in BOOLEAN : RaiseInStep(performed)
         \/ \E key \in pending, status \in {"deleted", "refused", "none"}, performed \in BOOLEAN :
              CleanKey(key, status, performed)
         \/ UNCHANGED <<plan, opts, created, objects, uploads, sent>>
<1>1. CASE Skip  BY <1>1 DEF Skip, target
<1>2. CASE FinishProbe  BY <1>2 DEF FinishProbe, target
<1>3. CASE FinishPlan  BY <1>3 DEF FinishPlan, target
<1>4. CASE FinishCleanup  BY <1>4 DEF FinishCleanup, target
<1>5. ASSUME NEW i \in DOMAIN Files, NEW ok \in BOOLEAN, WriteFile(i, ok)
      PROVE  UNCHANGED <<plan, opts, created, objects, uploads, sent>>
  BY <1>5 DEF WriteFile, target
<1>6. CASE UNCHANGED vars  BY <1>6 DEF vars, target
<1> QED  BY <1>1, <1>2, <1>3, <1>4, <1>5, <1>6 DEF Next

(* Whatever the target answers or does behind an error, the run tracks every *)
(* object and every upload it may have made, but for presigned PUTs.         *)
THEOREM TrackingHolds == Spec => []EveryObjectTracked
<1>1. Init => EveryObjectTracked  BY DEF Init, EveryObjectTracked
<1>2. TypeOK /\ EveryObjectTracked /\ [Next]_vars => EveryObjectTracked'
  <2> SUFFICES ASSUME TypeOK, EveryObjectTracked, [Next]_vars PROVE EveryObjectTracked'  OBVIOUS
  <2> DEFINE s == current.steps[step]
             k == KeyOf(s)
  <2>1. ASSUME Stepping, Possible(s), s.op \in StoreOps
        PROVE  k \in created \/ s.op \in Tracked \/ k \in Untracked
    <3>1. CASE s.op = "CompleteMultipartUpload"
      <4>1. k \in uploads  BY <2>1, <3>1 DEF Possible
      <4> QED  BY <4>1 DEF EveryObjectTracked
    <3>2. CASE s.op = "PresignedPut"
      <4>1. /\ Len(results) + 1 \in DOMAIN plan /\ current = plan[Len(results) + 1]
            /\ s \in StepType
        BY <2>1, CurrentProbe, CurrentStep
      <4>2. step \in DOMAIN plan[Len(results) + 1].steps /\ s.key \in {1, 2}
        BY <2>1, <4>1 DEF Stepping, StepType
      <4> QED  BY <3>2, <4>1, <4>2 DEF Untracked, KeyOf
    <3> QED  BY <2>1, <3>1, <3>2 DEF StoreOps, Tracked
  <2>2. ASSUME NEW answer \in {"expected", "other", "none"}, NEW performed \in BOOLEAN,
               NEW check \in Check \cup {"none"}, RunStep(answer, performed, check)
        PROVE  EveryObjectTracked'
    <3>1. UNCHANGED plan /\ Untracked' = Untracked  BY <2>2, SameKeys DEF RunStep
    <3>2. created \subseteq created' /\ (s.op \in Tracked => k \in created')  BY <2>2 DEF RunStep
    <3>3. CASE ~performed  BY <2>2, <3>1, <3>2, <3>3 DEF RunStep, target, EveryObjectTracked
    <3>4. CASE performed
      <4>1. Stepping /\ Possible(s) /\ Perform(s)  BY <2>2, <3>4 DEF RunStep
      <4>2. objects' \subseteq created' \cup Untracked
        BY <2>1, <3>2, <4>1 DEF Perform, EveryObjectTracked
      <4>3. uploads' \subseteq created'
        BY <3>2, <4>1 DEF Perform, EveryObjectTracked, Tracked
      <4> QED  BY <3>1, <4>2, <4>3 DEF EveryObjectTracked
    <3> QED  BY <3>3, <3>4
  <2>3. ASSUME NEW performed \in BOOLEAN, RaiseInStep(performed) PROVE EveryObjectTracked'
    <3>1. UNCHANGED <<plan, created>> /\ Untracked' = Untracked  BY <2>3, SameKeys DEF RaiseInStep
    <3>2. s.op \in MayRaise /\ Stepping  BY <2>3 DEF RaiseInStep
    <3>3. Possible(s) /\ s.op \notin Tracked /\ uploads' = uploads
      BY <2>3, <3>2 DEF MayRaise, Tracked, Possible, RaiseInStep, Perform, target
    <3>4. objects' \subseteq created \cup Untracked
      BY <2>1, <2>3, <3>2, <3>3 DEF RaiseInStep, Perform, target, EveryObjectTracked
    <3> QED  BY <3>1, <3>3, <3>4 DEF EveryObjectTracked
  <2>4. ASSUME NEW key \in pending, NEW status \in {"deleted", "refused", "none"},
               NEW performed \in BOOLEAN, CleanKey(key, status, performed)
        PROVE  EveryObjectTracked'
    <3>1. UNCHANGED <<plan, created, uploads>> /\ objects' \subseteq objects /\ Untracked' = Untracked
      BY <2>4, SameKeys DEF CleanKey
    <3> QED  BY <3>1 DEF EveryObjectTracked
  <2>5. CASE UNCHANGED <<plan, opts, created, objects, uploads, sent>>
    BY <2>5, SameKeys DEF EveryObjectTracked
  <2> QED  BY <2>2, <2>3, <2>4, <2>5, Steps3
<1> QED  BY <1>1, <1>2, TypeCorrect, PTL DEF Spec

(* No probe sends what its flag or the write permission does not allow, for  *)
(* every plan whose probes ask for the flags of their operations.            *)
THEOREM GatesHold == Spec => []FlagsGateOperations
<1>1. Init => FlagsGateOperations  BY DEF Init, FlagsGateOperations
<1>2. TypeOK /\ FlagsGateOperations /\ [Next]_vars => FlagsGateOperations'
  <2> SUFFICES ASSUME TypeOK, FlagsGateOperations, [Next]_vars PROVE FlagsGateOperations'  OBVIOUS
  <2> DEFINE s == current.steps[step]
  <2>1. ASSUME Stepping
        PROVE  /\ s.op \in DOMAIN Guarded => Guarded[s.op] \in opts.granted
               /\ EffectiveReadOnly => s.op \notin WriteOps
    <3>1. /\ Len(results) + 1 \in DOMAIN plan /\ current = plan[Len(results) + 1]
          /\ step \in DOMAIN current.steps /\ ~Unsafe(current)
      BY <2>1, CurrentProbe DEF Stepping
    <3>2. s.op \in DOMAIN Guarded => Guarded[s.op] \in current.needs
      BY <3>1, PlansAssumption DEF TypeOK
    <3>3. s.op \in WriteOps => NeedsWrite(current)  BY <3>1 DEF NeedsWrite
    <3> QED  BY <3>1, <3>2, <3>3 DEF Unsafe
  <2>2. ASSUME Stepping, sent' \in {sent, sent \cup {s.op}}, UNCHANGED opts PROVE FlagsGateOperations'
    BY <2>1, <2>2 DEF FlagsGateOperations, EffectiveReadOnly
  <2>3. ASSUME UNCHANGED <<opts, sent>> PROVE FlagsGateOperations'
    BY <2>3 DEF FlagsGateOperations, EffectiveReadOnly
  <2>4. ASSUME NEW answer \in {"expected", "other", "none"}, NEW performed \in BOOLEAN,
               NEW check \in Check \cup {"none"}, RunStep(answer, performed, check)
        PROVE  FlagsGateOperations'
    BY <2>2, <2>4 DEF RunStep
  <2>5. ASSUME NEW performed \in BOOLEAN, RaiseInStep(performed) PROVE FlagsGateOperations'
    BY <2>2, <2>5 DEF RaiseInStep
  <2>6. ASSUME NEW key \in pending, NEW status \in {"deleted", "refused", "none"},
               NEW performed \in BOOLEAN, CleanKey(key, status, performed)
        PROVE  FlagsGateOperations'
    BY <2>3, <2>6 DEF CleanKey
  <2> QED  BY <2>3, <2>4, <2>5, <2>6, Steps3
<1> QED  BY <1>1, <1>2, TypeCorrect, PTL DEF Spec

-----------------------------------------------------------------------------
(* What the books say of the bucket from the first cleanup delete on.        *)
Books ==
  /\ phase = "probing" => cleanupOk /\ written = {}
  /\ phase \in {"cleaning", "writing", "done"} /\ opts.cleanup /\ cleanupOk =>
       objects \cap created \subseteq pending \cup unanswered
  /\ phase \in {"writing", "done"} => pending = {} /\ (~cleanupOk => manifest = created)
  /\ phase = "done" /\ ~cleanupOk => "manifest" \in written

(* A finished run with cleanup leaves no tracked object unlisted, except one *)
(* whose delete got no answer - the case the code takes for success.         *)
THEOREM LeftoversHold == Spec => []LeftoversAreListed
<1>1. Init => Books  BY DEF Init, Books
<1>2. TypeOK /\ Books /\ [Next]_vars => Books'
  <2> SUFFICES ASSUME TypeOK, Books, [Next]_vars PROVE Books'  OBVIOUS
  <2>1. CASE Skip
    <3>1. phase = "probing" /\ phase' \in {"probing", "raised"}  BY <2>1 DEF Skip, Probing
    <3> QED  BY <2>1, <3>1 DEF Skip, Books, reports
  <2>2. ASSUME NEW answer \in {"expected", "other", "none"}, NEW performed \in BOOLEAN,
               NEW check \in Check \cup {"none"}, RunStep(answer, performed, check)
        PROVE  Books'
    <3>1. phase = "probing" /\ phase' = "probing"  BY <2>2 DEF RunStep, Stepping, Probing
    <3> QED  BY <2>2, <3>1 DEF RunStep, Books, reports
  <2>3. ASSUME NEW performed \in BOOLEAN, RaiseInStep(performed) PROVE Books'
    BY <2>3 DEF RaiseInStep, Books, reports
  <2>4. CASE FinishProbe
    <3>1. phase = "probing" /\ phase' = "probing"  BY <2>4 DEF FinishProbe, Probing
    <3> QED  BY <2>4, <3>1 DEF FinishProbe, Books, reports
  <2>5. CASE FinishPlan
    <3>1. CASE opts.cleanup
      <4>1. phase' = "cleaning" /\ pending' = created /\ UNCHANGED <<created, objects>>
        BY <2>5, <3>1 DEF FinishPlan, target
      <4> QED  BY <4>1 DEF Books
    <3>2. CASE ~opts.cleanup
      <4>1. /\ phase' = "writing" /\ pending' = {} /\ cleanupOk /\ cleanupOk' = cleanupOk
            /\ opts' = opts
        BY <2>5, <3>2 DEF FinishPlan, Books
      <4> QED  BY <3>2, <4>1 DEF Books
    <3> QED  BY <3>1, <3>2
  <2>6. ASSUME NEW key \in pending, NEW status \in {"deleted", "refused", "none"},
               NEW performed \in BOOLEAN, CleanKey(key, status, performed)
        PROVE  Books'
    <3>1. /\ phase = "cleaning" /\ phase' = "cleaning" /\ opts' = opts /\ created' = created
          /\ pending' = pending \ {key} /\ objects' \subseteq objects
          /\ unanswered \subseteq unanswered'
      BY <2>6 DEF CleanKey
    <3>2. CASE status = "refused"
      <4>1. ~cleanupOk'  BY <2>6, <3>2 DEF CleanKey
      <4> QED  BY <3>1, <4>1 DEF Books
    <3>3. CASE status = "none"
      <4>1. key \in unanswered' /\ (cleanupOk' => cleanupOk)  BY <2>6, <3>3 DEF CleanKey
      <4> QED  BY <3>1, <4>1 DEF Books
    <3>4. CASE status = "deleted"
      <4>1. key \notin objects' /\ (cleanupOk' => cleanupOk)  BY <2>6, <3>4 DEF CleanKey
      <4> QED  BY <3>1, <4>1 DEF Books
    <3> QED  BY <3>2, <3>3, <3>4
  <2>7. CASE FinishCleanup
    <3>1. /\ phase = "cleaning" /\ pending = {} /\ phase' = "writing"
          /\ (~cleanupOk => manifest' = created)
          /\ UNCHANGED <<opts, created, objects, pending, cleanupOk, unanswered>>
      BY <2>7 DEF FinishCleanup, target
    <3> QED  BY <3>1 DEF Books
  <2>8. ASSUME NEW i \in DOMAIN Files, NEW ok \in BOOLEAN, WriteFile(i, ok) PROVE Books'
    <3>1. /\ phase = "writing" /\ phase' \in {"writing", "done", "raised"}
          /\ UNCHANGED <<opts, created, objects, pending, cleanupOk, unanswered, manifest>>
      BY <2>8 DEF WriteFile, target
    <3>2. ASSUME phase' = "done", ~cleanupOk PROVE "manifest" \in written'
      <4>1. Files = <<"results", "mismatches", "manifest">> /\ ok /\ i = Len(Files)
        BY <2>8, <3>2 DEF Files, WriteFile
      <4>2. Files[i] = "manifest"  BY <4>1
      <4> QED  BY <2>8, <4>1, <4>2 DEF WriteFile
    <3> QED  BY <3>1, <3>2 DEF Books
  <2>9. CASE UNCHANGED vars  BY <2>9 DEF vars, target, reports, Books
  <2> QED  BY <2>1, <2>2, <2>3, <2>4, <2>5, <2>6, <2>7, <2>8, <2>9 DEF Next
<1>3. TypeOK /\ Books => LeftoversAreListed
  <2> SUFFICES ASSUME TypeOK, Books, phase = "done", opts.cleanup, NEW key \in objects \cap created
               PROVE  ("manifest" \in written /\ key \in manifest) \/ key \in unanswered
    BY DEF LeftoversAreListed
  <2>1. CASE cleanupOk  BY <2>1 DEF Books
  <2>2. CASE ~cleanupOk  BY <2>2 DEF Books
  <2> QED  BY <2>1, <2>2
<1> QED  BY <1>1, <1>2, <1>3, TypeCorrect, PTL DEF Spec

(* The advice of a finished run is to proceed only when every required probe *)
(* of its plan passed.                                                       *)
LEMMA ProceedNeedsPasses ==
  ASSUME NEW steps \in Seq(Probe), NEW outcomes \in Seq(Status), NEW base,
         Len(outcomes) = Len(steps),
         Recommendation(steps, outcomes, base) = "PROCEED_WITH_CAVEATS"
  PROVE  \A i \in DOMAIN steps : steps[i].required => outcomes[i] = "PASS"
<1>1. /\ outcomes # <<>>
      /\ TargetStatus(steps, outcomes) = "PASS"
  <2>1. TargetStatus(steps, outcomes) \in {"REVIEW", "FAIL", "PASS"}  BY DEF TargetStatus
  <2> QED  BY <2>1 DEF Recommendation
<1>2. ~Has(outcomes, "FAIL") /\ ~Has(outcomes, "REVIEW") /\ ~RequiredSkipped(steps, outcomes)
  BY <1>1 DEF TargetStatus
<1>3. DOMAIN outcomes = DOMAIN steps  BY LenProperties
<1> SUFFICES ASSUME NEW i \in DOMAIN steps, steps[i].required PROVE outcomes[i] = "PASS"
  OBVIOUS
<1>4. outcomes[i] \in Status  BY <1>3, ElementOfSeq, LenProperties
<1>5. outcomes[i] # "SKIP"  BY <1>2, <1>3 DEF RequiredSkipped, RequiredIn
<1> QED  BY <1>2, <1>3, <1>4, <1>5 DEF Has, Status

Through == phase \in {"cleaning", "writing", "done"} => Len(results) = Len(plan)

(* A run that reached its cleanup or its files went through its whole plan.  *)
LEMMA WentThrough == Spec => [](TypeOK /\ Through)
<1>1. Init => Through  BY DEF Init, Through
<1>2. TypeOK /\ Through /\ [Next]_vars => Through'
  <2> SUFFICES ASSUME TypeOK, Through, [Next]_vars PROVE Through'  OBVIOUS
  <2>1. CASE Skip
    <3>1. phase' \in {"probing", "raised"}  BY <2>1 DEF Skip, Probing
    <3> QED  BY <3>1 DEF Through
  <2>2. CASE FinishProbe
    <3>1. phase' = "probing"  BY <2>2 DEF FinishProbe, Probing
    <3> QED  BY <3>1 DEF Through
  <2>3. ASSUME NEW answer \in {"expected", "other", "none"}, NEW performed \in BOOLEAN,
               NEW check \in Check \cup {"none"}, RunStep(answer, performed, check)
        PROVE  Through'
    BY <2>3 DEF RunStep, Stepping, Probing, Through
  <2>4. ASSUME NEW performed \in BOOLEAN, RaiseInStep(performed) PROVE Through'
    BY <2>4 DEF RaiseInStep, Through
  <2>5. CASE FinishPlan  BY <2>5 DEF FinishPlan, Through
  <2>6. ASSUME NEW key \in pending, NEW status \in {"deleted", "refused", "none"},
               NEW performed \in BOOLEAN, CleanKey(key, status, performed)
        PROVE  Through'
    BY <2>6 DEF CleanKey, Through
  <2>7. CASE FinishCleanup  BY <2>7 DEF FinishCleanup, Through
  <2>8. ASSUME NEW i \in DOMAIN Files, NEW ok \in BOOLEAN, WriteFile(i, ok) PROVE Through'
    BY <2>8 DEF WriteFile, Through
  <2>9. CASE UNCHANGED vars  BY <2>9 DEF vars, Through
  <2> QED  BY <2>1, <2>2, <2>3, <2>4, <2>5, <2>6, <2>7, <2>8, <2>9 DEF Next
<1> QED  BY <1>1, <1>2, TypeCorrect, PTL DEF Spec

LEMMA DoneIsWhole ==
  ASSUME TypeOK, Through, phase = "done"
  PROVE  /\ plan \in Seq(Probe) /\ results \in Seq(Status) /\ Len(results) = Len(plan)
         /\ DOMAIN results = DOMAIN plan
<1>1. plan \in Seq(Probe) /\ results \in Seq(Status) /\ Len(results) = Len(plan)
  BY PlansAssumption DEF TypeOK, Through
<1> QED  BY <1>1, LenProperties

(* So its advice is never to proceed past a required probe that did not      *)
(* pass.                                                                     *)
THEOREM ProceedHolds == Spec => []ProceedMeansRequiredPassed
<1>1. TypeOK /\ Through => ProceedMeansRequiredPassed
  BY DoneIsWhole, ProceedNeedsPasses DEF ProceedMeansRequiredPassed
<1> QED  BY <1>1, WentThrough, PTL

-----------------------------------------------------------------------------
(* What is booked for the ledger, and what the statuses of the probes and    *)
(* the severities of the current one say, tell of the same mismatches.       *)
Booking ==
  /\ (\E b \in booked : b[2] = "BLOCKER") <=> Has(results, "FAIL") \/ "BLOCKER" \in severities
  /\ booked = {} <=> ~Has(results, "FAIL") /\ ~Has(results, "REVIEW") /\ severities = {}
  /\ step = 1 => severities = {}
  /\ Len(results) >= Len(plan) => severities = {}

LEMMA HasAppended ==
  ASSUME NEW outcomes \in Seq(Status), NEW status \in Status, NEW sought
  PROVE  Has(Append(outcomes, status), sought) <=> Has(outcomes, sought) \/ status = sought
<1>1. /\ Len(outcomes) \in Nat /\ DOMAIN outcomes = 1..Len(outcomes)
      /\ DOMAIN Append(outcomes, status) = 1..(Len(outcomes) + 1)
      /\ \A i \in 1..Len(outcomes) : Append(outcomes, status)[i] = outcomes[i]
      /\ Append(outcomes, status)[Len(outcomes) + 1] = status
  BY AppendProperties, LenProperties
<1> QED  BY <1>1 DEF Has

LEMMA WellBooked == Spec => [](TypeOK /\ Through /\ Booking)
<1>1. Init => Booking
  <2>1. ASSUME Init PROVE ~Has(results, "FAIL") /\ ~Has(results, "REVIEW")  BY <2>1 DEF Init, Has
  <2> QED  BY <2>1 DEF Init, Booking
<1>2. TypeOK /\ Booking /\ [Next]_vars => Booking'
  <2> SUFFICES ASSUME TypeOK, Booking, [Next]_vars PROVE Booking'  OBVIOUS
  <2>0. /\ results \in Seq(Status) /\ Len(results) \in Nat /\ Len(plan) \in Nat
    BY PlansAssumption, LenProperties DEF TypeOK
  <2>1. CASE Skip
    <3>1. step = 1 /\ severities = {} /\ UNCHANGED <<plan, step, severities, booked>>
      BY <2>1 DEF Skip, Booking
    <3>2. results' = results \/ results' = Append(results, "SKIP")  BY <2>1 DEF Skip
    <3>3. /\ Has(results, "FAIL")' <=> Has(results, "FAIL")
          /\ Has(results, "REVIEW")' <=> Has(results, "REVIEW")
      BY <2>0, <3>2, HasAppended DEF Status, Has
    <3> QED  BY <3>1, <3>3 DEF Booking
  <2>2. ASSUME NEW answer \in {"expected", "other", "none"}, NEW performed \in BOOLEAN,
               NEW check \in Check \cup {"none"}, RunStep(answer, performed, check)
        PROVE  Booking'
    <3> DEFINE op == current.steps[step].op
    <3>1. PICK family \in StatusFamilies(op) :
            /\ severities' = severities \cup {m[2] : m \in Found(op, answer, check, family)}
            /\ booked' = booked \cup Found(op, answer, check, family)
      BY <2>2 DEF RunStep
    <3> DEFINE found == Found(op, answer, check, family)
    <3>2. /\ (\E b \in booked' : b[2] = "BLOCKER") <=> (\E b \in booked : b[2] = "BLOCKER") \/ "BLOCKER" \in {m[2] : m \in found}
          /\ booked' = {} <=> booked = {} /\ found = {}
          /\ severities' = {} <=> severities = {} /\ found = {}
      <4> HIDE DEF found
      <4> QED  BY <3>1 DEF found
    <3>3. /\ UNCHANGED <<plan, results>> /\ step' = step + 1 /\ step \in Nat \ {0}
          /\ Len(results) < Len(plan)
      BY <2>2 DEF RunStep, Stepping, Probing, TypeOK
    <3>4. step' # 1 /\ ~(Len(results') >= Len(plan'))  BY <2>0, <3>3
    <3>5. UNCHANGED <<Has(results, "FAIL"), Has(results, "REVIEW")>>  BY <3>3 DEF Has
    <3> QED  BY <3>1, <3>2, <3>4, <3>5 DEF Booking
  <2>3. ASSUME UNCHANGED <<plan, results, step, severities, booked>> PROVE Booking'
    BY <2>3 DEF Booking, Has
  <2>4. ASSUME NEW performed \in BOOLEAN, RaiseInStep(performed) PROVE Booking'
    BY <2>3, <2>4 DEF RaiseInStep
  <2>5. CASE FinishProbe
    <3>1. results' = Append(results, StatusOf(severities)) /\ severities' = {} /\ booked' = booked
      BY <2>5 DEF FinishProbe
    <3>2. /\ StatusOf(severities) \in Status
          /\ StatusOf(severities) = "FAIL" <=> "BLOCKER" \in severities
          /\ StatusOf(severities) \in {"FAIL", "REVIEW"} <=> severities # {}
      BY DEF StatusOf, Status
    <3>3. /\ Has(results, "FAIL")' <=> Has(results, "FAIL") \/ "BLOCKER" \in severities
          /\ Has(results, "FAIL")' \/ Has(results, "REVIEW")' <=>
               Has(results, "FAIL") \/ Has(results, "REVIEW") \/ severities # {}
      <4>1. \A sought : Has(results, sought)' <=> Has(results, sought) \/ StatusOf(severities) = sought
        BY <2>0, <3>1, <3>2, HasAppended DEF Has
      <4> QED  BY <3>2, <4>1
    <3> QED  BY <3>1, <3>3 DEF Booking
  <2>6. CASE FinishPlan  BY <2>3, <2>6 DEF FinishPlan
  <2>7. ASSUME NEW key \in pending, NEW status \in {"deleted", "refused", "none"},
               NEW performed \in BOOLEAN, CleanKey(key, status, performed)
        PROVE  Booking'
    BY <2>3, <2>7 DEF CleanKey
  <2>8. CASE FinishCleanup  BY <2>3, <2>8 DEF FinishCleanup
  <2>9. ASSUME NEW i \in DOMAIN Files, NEW ok \in BOOLEAN, WriteFile(i, ok) PROVE Booking'
    BY <2>3, <2>9 DEF WriteFile
  <2>10. CASE UNCHANGED vars  BY <2>3, <2>10 DEF vars
  <2> QED  BY <2>1, <2>2, <2>4, <2>5, <2>6, <2>7, <2>8, <2>9, <2>10 DEF Next
<1> QED  BY <1>1, <1>2, WentThrough, PTL DEF Spec

(* The statuses in the ledger of a plan that was gone through: some row has  *)
(* failed when some probe has, no row needs review when no probe does, and   *)
(* not run are the rows without probes.                                      *)
LEMMA LedgerStatuses ==
  ASSUME NEW steps, NEW outcomes, NEW observed, NEW mismatches,
         DOMAIN outcomes = DOMAIN steps,
         \A i \in DOMAIN outcomes : outcomes[i] \in Status
  PROVE  LET rows == Ledger(steps, outcomes, observed, mismatches)
         IN  /\ (\E f \in DOMAIN rows : rows[f].status = "FAIL") <=> Has(outcomes, "FAIL")
             /\ ~Has(outcomes, "FAIL") /\ ~Has(outcomes, "REVIEW") =>
                  \A f \in DOMAIN rows : rows[f].status \in {"PASS", "SKIP", "NOT_RUN"}
             /\ \A f \in DOMAIN rows :
                  rows[f].status = "NOT_RUN" <=> \A i \in DOMAIN steps : steps[i].family # f
<1> DEFINE families == LedgerFamilies(steps, observed, mismatches)
           seen(f) == {IF i \in DOMAIN outcomes THEN outcomes[i] ELSE "NOT_RUN" :
                         i \in {j \in DOMAIN steps : steps[j].family = f}}
           rows == Ledger(steps, outcomes, observed, mismatches)
<1>1. DOMAIN rows = families /\ \A f \in families : rows[f].status = AggregateStatus(seen(f))
  BY DEF Ledger
<1>2. \A f, v : v \in seen(f) <=> \E i \in DOMAIN steps : steps[i].family = f /\ outcomes[i] = v  OBVIOUS
<1>3. \A f : seen(f) \subseteq Status  BY <1>2
<1>4. \A f : seen(f) = {} <=> \A i \in DOMAIN steps : steps[i].family # f  OBVIOUS
<1>5. \A i \in DOMAIN steps : steps[i].family \in families  BY DEF LedgerFamilies
<1> HIDE DEF seen, families, rows
<1>6. \A f : AggregateStatus(seen(f)) = "FAIL" <=> "FAIL" \in seen(f)  BY DEF AggregateStatus
<1>7. \A f : AggregateStatus(seen(f)) = "NOT_RUN" <=> seen(f) = {}
  <2> SUFFICES ASSUME NEW f PROVE AggregateStatus(seen(f)) = "NOT_RUN" <=> seen(f) = {}  OBVIOUS
  <2>1. CASE seen(f) \cap {"FAIL", "REVIEW", "SKIP"} # {}  BY <2>1 DEF AggregateStatus
  <2>2. CASE seen(f) = {}  BY <2>2 DEF AggregateStatus
  <2>3. CASE seen(f) \cap {"FAIL", "REVIEW", "SKIP"} = {} /\ seen(f) # {}
    <3>1. seen(f) = {"PASS"}  BY <1>3, <2>3 DEF Status
    <3> QED  BY <3>1 DEF AggregateStatus
  <2> QED  BY <2>1, <2>2, <2>3
<1>8. (\E f \in DOMAIN rows : rows[f].status = "FAIL") <=> Has(outcomes, "FAIL")
  <2>1. (\E f \in DOMAIN rows : rows[f].status = "FAIL") <=> \E f \in families : "FAIL" \in seen(f)
    BY <1>1, <1>6
  <2>2. (\E f \in families : "FAIL" \in seen(f)) <=> \E i \in DOMAIN steps : outcomes[i] = "FAIL"
    BY <1>2, <1>5
  <2> QED  BY <2>1, <2>2 DEF Has
<1>9. ASSUME ~Has(outcomes, "FAIL"), ~Has(outcomes, "REVIEW"), NEW f \in DOMAIN rows
      PROVE  rows[f].status \in {"PASS", "SKIP", "NOT_RUN"}
  <2>1. "FAIL" \notin seen(f) /\ "REVIEW" \notin seen(f)  BY <1>2, <1>9 DEF Has
  <2>2. AggregateStatus(seen(f)) \in {"PASS", "SKIP", "NOT_RUN"}  BY <2>1 DEF AggregateStatus
  <2> QED  BY <1>1, <1>9, <2>2
<1>10. \A f \in DOMAIN rows : rows[f].status = "NOT_RUN" <=> \A i \in DOMAIN steps : steps[i].family # f
  BY <1>1, <1>4, <1>7
<1> QED  BY <1>8, <1>9, <1>10 DEF rows

(* The severities in any ledger: every mismatch shows in some row.           *)
LEMMA LedgerSeverities ==
  ASSUME NEW steps, NEW outcomes, NEW observed, NEW mismatches
  PROVE  LET rows == Ledger(steps, outcomes, observed, mismatches)
         IN  /\ (\E f \in DOMAIN rows : rows[f].severity = "BLOCKER") <=>
                  \E b \in mismatches : b[2] = "BLOCKER"
             /\ mismatches = {} => \A f \in DOMAIN rows : rows[f].severity = "INFO"
<1> DEFINE families == LedgerFamilies(steps, observed, mismatches)
           severe(f) == {b[2] : b \in {c \in mismatches : c[1] = f}}
           rows == Ledger(steps, outcomes, observed, mismatches)
<1>1. DOMAIN rows = families /\ \A f \in families : rows[f].severity = Worst(severe(f))
  BY DEF Ledger
<1>2. \A b \in mismatches : b[1] \in families /\ b[2] \in severe(b[1])  BY DEF LedgerFamilies
<1>3. \A f, v : v \in severe(f) => \E b \in mismatches : b[2] = v  OBVIOUS
<1>4. mismatches = {} => \A f : severe(f) = {}  OBVIOUS
<1> HIDE DEF severe, families, rows
<1>5. \A f : Worst(severe(f)) = "BLOCKER" <=> "BLOCKER" \in severe(f)  BY DEF Worst
<1>6. Worst({}) = "INFO"  BY DEF Worst
<1>7. (\E f \in DOMAIN rows : rows[f].severity = "BLOCKER") <=> \E b \in mismatches : b[2] = "BLOCKER"
  BY <1>1, <1>2, <1>3, <1>5
<1>8. mismatches = {} => \A f \in DOMAIN rows : rows[f].severity = "INFO"  BY <1>1, <1>4, <1>6
<1> QED  BY <1>7, <1>8 DEF rows

(* The capability ledger and the recommendation of a finished run agree, on  *)
(* the statuses and on the mismatches, for every usage profile               *)
(* (decision.py: build_capability_ledger, report.py: build_summary).         *)
THEOREM LedgerHolds == Spec => []LedgerAgrees
<1>1. ASSUME TypeOK, Through, Booking, phase = "done",
             NEW observed \in Observations, NEW base \in Confidence
      PROVE  LET rows   == Ledger(plan, results, observed, booked)
                 advice == Recommendation(plan, results, base)
             IN  /\ advice = "BLOCK" <=> \E f \in DOMAIN rows : rows[f].status = "FAIL"
                 /\ advice = "BLOCK" <=> \E f \in DOMAIN rows : rows[f].severity = "BLOCKER"
                 /\ advice = "PROCEED_WITH_CAVEATS" =>
                      \A f \in DOMAIN rows :
                        rows[f].status \in {"PASS", "SKIP", "NOT_RUN"} /\ rows[f].severity = "INFO"
                 /\ \A f \in DOMAIN rows :
                      rows[f].status = "NOT_RUN" <=> \A i \in DOMAIN plan : plan[i].family # f
  <2> DEFINE rows   == Ledger(plan, results, observed, booked)
             advice == Recommendation(plan, results, base)
  <2>1. results \in Seq(Status) /\ DOMAIN results = DOMAIN plan  BY <1>1, DoneIsWhole
  <2>2. \A i \in DOMAIN results : results[i] \in Status  BY <2>1, ElementOfSeq, LenProperties
  <2>3. /\ (\E f \in DOMAIN rows : rows[f].status = "FAIL") <=> Has(results, "FAIL")
        /\ ~Has(results, "FAIL") /\ ~Has(results, "REVIEW") =>
             \A f \in DOMAIN rows : rows[f].status \in {"PASS", "SKIP", "NOT_RUN"}
        /\ \A f \in DOMAIN rows :
             rows[f].status = "NOT_RUN" <=> \A i \in DOMAIN plan : plan[i].family # f
    BY <2>1, <2>2, LedgerStatuses
  <2>4. /\ (\E f \in DOMAIN rows : rows[f].severity = "BLOCKER") <=> \E b \in booked : b[2] = "BLOCKER"
        /\ booked = {} => \A f \in DOMAIN rows : rows[f].severity = "INFO"
    BY LedgerSeverities
  <2> HIDE DEF rows
  <2>5. /\ (\E b \in booked : b[2] = "BLOCKER") <=> Has(results, "FAIL")
        /\ booked = {} <=> ~Has(results, "FAIL") /\ ~Has(results, "REVIEW")
    <3>1. Len(results) = Len(plan) /\ Len(plan) \in Nat  BY <1>1, DoneIsWhole, LenProperties
    <3>2. severities = {}  BY <1>1, <3>1 DEF Booking
    <3> QED  BY <1>1, <3>2 DEF Booking
  <2>6. results = <<>> => ~Has(results, "FAIL")  BY DEF Has
  <2>7. /\ TargetStatus(plan, results) = "FAIL" <=> results # <<>> /\ Has(results, "FAIL")
        /\ TargetStatus(plan, results) \in {"REVIEW", "FAIL", "PASS"}
    BY DEF TargetStatus
  <2>8. TargetStatus(plan, results) = "PASS" => ~Has(results, "FAIL") /\ ~Has(results, "REVIEW")
    BY <2>6 DEF TargetStatus
  <2>9. /\ advice = "BLOCK" <=> results # <<>> /\ TargetStatus(plan, results) = "FAIL"
        /\ advice = "PROCEED_WITH_CAVEATS" => TargetStatus(plan, results) = "PASS"
    BY <2>7 DEF Recommendation
  <2> HIDE DEF advice
  <2>10. advice = "BLOCK" <=> Has(results, "FAIL")  BY <2>6, <2>7, <2>9
  <2>11. advice = "PROCEED_WITH_CAVEATS" => ~Has(results, "FAIL") /\ ~Has(results, "REVIEW")
    BY <2>8, <2>9
  <2> QED  BY <2>3, <2>4, <2>5, <2>10, <2>11 DEF rows, advice
<1>2. TypeOK /\ Through /\ Booking => LedgerAgrees  BY <1>1 DEF LedgerAgrees
<1> QED  BY <1>2, WellBooked, PTL

-----------------------------------------------------------------------------
(* The captures.  A set of numbers that is not empty has a least element.    *)
LEMMA LeastNat ==
  ASSUME NEW T \in SUBSET Nat, T # {}
  PROVE  \E n \in T : \A m \in T : n <= m
<1> DEFINE R == {ss \in Nat \X Nat : ss[1] < ss[2]}
<1>1. R = OpToRel(<, Nat)  BY Zenon DEF OpToRel
<1>2. IsWellFoundedOn(R, Nat)  BY Zenon, <1>1, NatLessThanWellFounded
<1> HIDE DEF R
<1>3. PICK n \in T : \A m \in T : <<m, n>> \notin R  BY <1>2, WFMin
<1>4. \A m \in T : ~(m < n)  BY <1>3 DEF R
<1> QED  BY <1>4

(* Induction up to a bound, over a set.                                      *)
LEMMA UpTo ==
  ASSUME NEW last \in Nat, NEW G, 0 \in G, \A n \in 1..last : n - 1 \in G => n \in G
  PROVE  \A n \in 0..last : n \in G
<1> DEFINE Out == {n \in 0..last : n \notin G}
<1> SUFFICES ASSUME Out # {} PROVE FALSE  OBVIOUS
<1>1. PICK n \in Out : \A m \in Out : n <= m
  <2>1. Out \in SUBSET Nat  OBVIOUS
  <2> HIDE DEF Out
  <2> QED  BY <2>1, LeastNat
<1>2. n \in 1..last /\ n - 1 \in 0..last /\ ~(n <= n - 1)  OBVIOUS
<1>3. n - 1 \in G  BY <1>1, <1>2
<1> QED  BY <1>2, <1>3

Follows(f, last, start, take) ==
  \A n \in 0..last : f[n] = IF n = 0 THEN start ELSE take[n][f[n - 1]]

(* A function defined by recursion on the numbers up to a bound exists.      *)
LEMMA Recursion ==
  ASSUME NEW S, NEW last \in Nat, NEW start \in S, NEW take \in [1..last -> [S -> S]]
  PROVE  \E f \in [0..last -> S] : Follows(f, last, start, take)
<1> DEFINE Defined(m) ==
             \E f \in [0..m -> S] : \A n \in 0..m : f[n] = IF n = 0 THEN start ELSE take[n][f[n - 1]]
           G == {m \in 0..last : Defined(m)}
<1>1. 0 \in G
  <2> DEFINE f == [n \in 0..0 |-> start]
  <2>1. f \in [0..0 -> S] /\ \A n \in 0..0 : f[n] = IF n = 0 THEN start ELSE take[n][f[n - 1]]  OBVIOUS
  <2> HIDE DEF f
  <2>2. Defined(0)  BY <2>1
  <2> QED  BY <2>2
<1>2. ASSUME NEW m \in 1..last, m - 1 \in G PROVE m \in G
  <2>1. PICK f \in [0..(m - 1) -> S] :
          \A n \in 0..(m - 1) : f[n] = IF n = 0 THEN start ELSE take[n][f[n - 1]]
    BY <1>2
  <2> DEFINE g == [n \in 0..m |-> IF n = m THEN take[m][f[m - 1]] ELSE f[n]]
  <2>2. f[m - 1] \in S /\ take[m][f[m - 1]] \in S  OBVIOUS
  <2>3. g \in [0..m -> S]  BY <2>2
  <2>4. ASSUME NEW n \in 0..m PROVE g[n] = IF n = 0 THEN start ELSE take[n][g[n - 1]]
    <3>1. CASE n = m
      <4>1. m # 0 /\ m - 1 \in 0..m /\ m - 1 # m  OBVIOUS
      <4> QED  BY <3>1, <4>1
    <3>2. CASE n # m
      <4>1. n \in 0..(m - 1) /\ (n # 0 => n - 1 \in 0..m /\ n - 1 # m)  BY <3>2
      <4>2. f[n] = IF n = 0 THEN start ELSE take[n][f[n - 1]]
        <5> HIDE DEF g
        <5> QED  BY <2>1, <4>1
      <4> QED  BY <3>2, <4>1, <4>2
    <3> QED  BY <3>1, <3>2
  <2> HIDE DEF g
  <2>5. Defined(m)  BY <2>3, <2>4
  <2> QED  BY <2>5
<1> HIDE DEF G
<1>3. \A m \in 0..last : m \in G  BY <1>1, <1>2, UpTo
<1>4. last \in G  BY <1>3
<1>5. Defined(last)  BY <1>4 DEF G
<1> QED  BY <1>5 DEF Follows

Obeys(c, S, last, start, take) ==
  c[0] = start /\ \A n \in 1..last : c[n - 1] \in S => c[n] = take[n][c[n - 1]]

(* What follows the same steps is the same function.                         *)
LEMMA SameSteps ==
  ASSUME NEW S, NEW last \in Nat, NEW start \in S, NEW take \in [1..last -> [S -> S]],
         NEW f \in [0..last -> S], Follows(f, last, start, take),
         NEW c, Obeys(c, S, last, start, take)
  PROVE  c[last] = f[last]
<1> DEFINE G == {n \in 0..last : c[n] = f[n]}
<1>1. 0 \in G  BY DEF Follows, Obeys
<1>2. ASSUME NEW n \in 1..last, n - 1 \in G PROVE n \in G
  <2>1. n \in 0..last /\ n # 0 /\ n - 1 \in 0..last  OBVIOUS
  <2>2. c[n - 1] = f[n - 1] /\ f[n - 1] \in S  BY <1>2, <2>1
  <2>3. c[n] = take[n][f[n - 1]]  BY <2>2 DEF Obeys
  <2>4. f[n] = take[n][f[n - 1]]
    <3> HIDE DEF G
    <3> QED  BY <2>1 DEF Follows
  <2> QED  BY <2>1, <2>3, <2>4
<1> HIDE DEF G
<1>3. \A n \in 0..last : n \in G  BY <1>1, <1>2, UpTo
<1>4. last \in G  BY <1>3
<1> QED  BY <1>4 DEF G

(* What putting lists together gives, list by list.                          *)
LEMMA FlattenUnfolds ==
  ASSUME NEW T, NEW ss \in Seq(Seq(T))
  PROVE  \E f \in [0..Len(ss) -> Seq(T)] :
           /\ FlattenSeq(ss) = f[Len(ss)] /\ f[0] = <<>>
           /\ \A n \in 1..Len(ss) : f[n] = f[n - 1] \o ss[n]
<1> DEFINE size == Len(ss)
           S == Seq(T)
           nil == <<>>
           take == [n \in 1..size |-> [x \in S |-> IF n = 1 THEN ss[n] ELSE x \o ss[n]]]
           c == CHOOSE g : g = [i \in 1..size |-> IF i = 1 THEN ss[i] ELSE g[i - 1] \o ss[i]]
<1>1. size \in Nat /\ nil \in S /\ \A n \in 1..size : ss[n] \in S  OBVIOUS
<1>2. take \in [1..size -> [S -> S]]
  <2> SUFFICES ASSUME NEW n \in 1..size, NEW x \in S PROVE (IF n = 1 THEN ss[n] ELSE x \o ss[n]) \in S
    OBVIOUS
  <2> QED  BY <1>1
<1>3. FlattenSeq(ss) = IF size = 0 THEN ss ELSE c[size]  BY DEF FlattenSeq
<1>4. PICK f \in [0..size -> S] : Follows(f, size, nil, take)
  <2> HIDE DEF size, take, S, nil
  <2> QED  BY <1>1, <1>2, Recursion
<1>5. f[0] = <<>> /\ \A n \in 1..size : f[n - 1] \in S /\ f[n] = take[n][f[n - 1]]
  <2> HIDE DEF take, size, S
  <2>1. \A n \in 1..size : n \in 0..size /\ n # 0 /\ n - 1 \in 0..size  BY <1>1
  <2> QED  BY <1>1, <1>4, <2>1 DEF Follows
<1>6. ASSUME NEW n \in 1..size, NEW x \in S PROVE take[n][x] = IF n = 1 THEN ss[n] ELSE x \o ss[n]
  OBVIOUS
<1>7. \A n \in 1..size : f[n] = IF n = 1 THEN ss[n] ELSE f[n - 1] \o ss[n]
  <2> HIDE DEF take, size, S
  <2> QED  BY <1>5, <1>6
<1>8. \A n \in 1..size : f[n] = f[n - 1] \o ss[n]
  <2> SUFFICES ASSUME NEW n \in 1..size PROVE f[n] = f[n - 1] \o ss[n]  OBVIOUS
  <2>1. n = 1 => f[n - 1] = <<>>  BY <1>5
  <2>2. ss[n] \in Seq(T)  BY <1>1
  <2>3. <<>> \o ss[n] = ss[n]  BY <2>2, ConcatEmptySeq
  <2> QED  BY <1>7, <2>1, <2>3
<1>9. ASSUME size = 0 PROVE FlattenSeq(ss) = f[size]
  <2>1. ss = <<>>  BY <1>9
  <2> HIDE DEF size, c
  <2> QED  BY <1>3, <1>5, <1>9, <2>1
<1>10. ASSUME size # 0 PROVE FlattenSeq(ss) = f[size]
  <2> DEFINE rest == [i \in 1..size |-> f[i]]
  <2>1. \A i \in 1..size : i # 1 => i - 1 \in 1..size  BY <1>1
  <2>2. rest = [i \in 1..size |-> IF i = 1 THEN ss[i] ELSE rest[i - 1] \o ss[i]]
    <3> HIDE DEF size, take, S, c
    <3> QED  BY <1>7, <2>1
  <2> HIDE DEF rest
  <2>3. c = [i \in 1..size |-> IF i = 1 THEN ss[i] ELSE c[i - 1] \o ss[i]]
    <3> HIDE DEF size, take, S
    <3> QED  BY <2>2
  <2> HIDE DEF c
  <2> DEFINE d == [i \in 0..size |-> IF i = 0 THEN nil ELSE c[i]]
  <2>4. d[0] = nil /\ d[size] = c[size]  BY <1>1, <1>10
  <2>5. ASSUME NEW n \in 1..size, d[n - 1] \in S PROVE d[n] = take[n][d[n - 1]]
    <3>1. n \in 0..size /\ n # 0 /\ n - 1 \in 0..size /\ (n # 1 => n - 1 # 0)  BY <1>1
    <3>2. d[n] = c[n] /\ (n # 1 => d[n - 1] = c[n - 1])  BY <3>1
    <3> HIDE DEF take, size, S, d
    <3>3. c[n] = IF n = 1 THEN ss[n] ELSE c[n - 1] \o ss[n]  BY <2>3
    <3> QED  BY <2>5, <3>2, <3>3, <1>6
  <2> HIDE DEF d
  <2>6. d[size] = f[size]
    <3> HIDE DEF size, take, S, nil
    <3>1. Obeys(d, S, size, nil, take)  BY <2>4, <2>5 DEF Obeys
    <3>2. size \in Nat /\ nil \in S /\ take \in [1..size -> [S -> S]] /\ f \in [0..size -> S]  BY <1>1, <1>2
    <3> QED  BY <1>4, <3>1, <3>2, SameSteps
  <2> HIDE DEF size
  <2> QED  BY <1>3, <1>10, <2>4, <2>6
<1>11. FlattenSeq(ss) = f[Len(ss)] /\ f[0] = <<>>
  <2> HIDE DEF take, c
  <2> QED  BY <1>5, <1>9, <1>10
<1>12. f \in [0..Len(ss) -> Seq(T)]  OBVIOUS
<1>13. \A n \in 1..Len(ss) : f[n] = f[n - 1] \o ss[n]  BY <1>8
<1> HIDE DEF take, c
<1> QED  BY <1>11, <1>12, <1>13

-----------------------------------------------------------------------------
(* Numbers in their order.  The rank of a number among some.                 *)
RankOf(S, n) == Cardinality({m \in S : m <= n})

(* A finite set of numbers has a bound.                                      *)
LEMMA Bounded ==
  ASSUME NEW S \in SUBSET Nat, IsFiniteSet(S)
  PROVE  \E b \in Nat : \A n \in S : n <= b
<1> DEFINE size == Cardinality(S)
           G == {k \in 0..size : \A T \in SUBSET Nat : IsFiniteSet(T) /\ Cardinality(T) = k => \E b \in Nat : \A n \in T : n <= b}
<1>1. size \in Nat  BY FS_CardinalityType
<1>2. 0 \in G
  <2>1. \A T \in SUBSET Nat : IsFiniteSet(T) /\ Cardinality(T) = 0 => T = {}  BY FS_EmptySet
  <2>2. 0 \in Nat /\ \A n \in {} : n <= 0  OBVIOUS
  <2> HIDE DEF size
  <2> QED  BY <1>1, <2>1, <2>2
<1>3. ASSUME NEW k \in 1..size, k - 1 \in G PROVE k \in G
  <2>1. k \in 0..size /\ k # 0 /\ k \in Nat  BY <1>1
  <2>2. ASSUME NEW T \in SUBSET Nat, IsFiniteSet(T), Cardinality(T) = k PROVE \E b \in Nat : \A n \in T : n <= b
    <3>1. PICK x : x \in T  BY <2>1, <2>2, FS_EmptySet
    <3>2. IsFiniteSet(T \ {x}) /\ Cardinality(T \ {x}) = k - 1  BY <2>2, <3>1, FS_RemoveElement
    <3>3. PICK b \in Nat : \A n \in T \ {x} : n <= b
      <4>1. T \ {x} \in SUBSET Nat  OBVIOUS
      <4> HIDE DEF size
      <4> QED  BY <1>3, <3>2, <4>1
    <3>4. b + x \in Nat /\ \A n \in T : n <= b + x  BY <3>1, <3>3
    <3> QED  BY <3>4
  <2> HIDE DEF size
  <2> QED  BY <2>1, <2>2
<1> HIDE DEF G
<1>4. \A k \in 0..size : k \in G
  <2> HIDE DEF size
  <2> QED  BY <1>1, <1>2, <1>3, UpTo
<1>5. size \in G  BY <1>1, <1>4
<1> QED  BY <1>5 DEF G

LEMMA RankType ==
  ASSUME NEW S \in SUBSET Nat, IsFiniteSet(S), NEW n
  PROVE  IsFiniteSet({m \in S : m <= n}) /\ RankOf(S, n) \in Nat /\ RankOf(S, n) <= Cardinality(S) /\ Cardinality(S) \in Nat
<1>1. {m \in S : m <= n} \in SUBSET S  OBVIOUS
<1> QED  BY <1>1, FS_Subset, FS_CardinalityType DEF RankOf

(* A greater member has a greater rank.                                      *)
LEMMA RankGrows ==
  ASSUME NEW S \in SUBSET Nat, IsFiniteSet(S), NEW m \in S, NEW n \in S, m < n
  PROVE  RankOf(S, m) < RankOf(S, n)
<1> DEFINE A == {k \in S : k <= m}
           B == {k \in S : k <= n}
<1>0. m \in Nat /\ n \in Nat /\ ~(n <= m) /\ \A k \in Nat : k <= m => k <= n  OBVIOUS
<1>1. A \in SUBSET B /\ n \in B /\ n \notin A
  <2>1. \A k \in S : k <= m => k <= n  BY <1>0
  <2>2. n <= n  BY <1>0
  <2> QED  BY <1>0, <2>1, <2>2
<1>2. IsFiniteSet(B) /\ Cardinality(A) \in Nat /\ Cardinality(B) \in Nat  BY RankType DEF RankOf
<1> HIDE DEF A, B
<1>3. Cardinality(A) <= Cardinality(B) /\ Cardinality(A) # Cardinality(B)
  <2>1. A # B  BY <1>1
  <2> QED  BY <1>1, <1>2, <2>1, FS_Subset
<1>4. Cardinality(A) < Cardinality(B)  BY <1>2, <1>3
<1> QED  BY <1>4 DEF A, B, RankOf

LEMMA RankInjects ==
  ASSUME NEW S \in SUBSET Nat, IsFiniteSet(S), NEW m \in S, NEW n \in S, RankOf(S, m) = RankOf(S, n)
  PROVE  m = n
<1>1. RankOf(S, m) \in Nat /\ RankOf(S, n) \in Nat  BY RankType
<1>2. CASE m < n  BY <1>1, <1>2, RankGrows
<1>3. CASE n < m  BY <1>1, <1>3, RankGrows
<1> QED  BY <1>2, <1>3

(* Every rank is taken.                                                      *)
LEMMA RankTaken ==
  ASSUME NEW S \in SUBSET Nat, IsFiniteSet(S), NEW k \in 1..Cardinality(S)
  PROVE  \E n \in S : RankOf(S, n) = k
<1> DEFINE T == {n \in Nat : k <= RankOf(S, n)}
<1>1. Cardinality(S) \in Nat /\ k \in Nat /\ 1 <= k  BY FS_CardinalityType
<1>2. T # {}
  <2>1. PICK b \in Nat : \A n \in S : n <= b  BY Bounded
  <2>2. {m \in S : m <= b} = S  BY <2>1
  <2>3. RankOf(S, b) = Cardinality(S)  BY <2>2 DEF RankOf
  <2>4. k <= RankOf(S, b)  BY <1>1, <2>3
  <2> QED  BY <2>1, <2>4
<1>3. PICK n \in T : \A m \in T : n <= m
  <2>1. T \in SUBSET Nat  OBVIOUS
  <2> HIDE DEF T
  <2> QED  BY <1>2, <2>1, LeastNat
<1>4. n \in Nat /\ k <= RankOf(S, n) /\ RankOf(S, n) \in Nat  BY <1>3, RankType
<1>5. CASE n = 0
  <2>0. \A m \in Nat : m <= 0 => m = 0  OBVIOUS
  <2>1. {m \in S : m <= 0} \in SUBSET {0}  BY <2>0
  <2>2. IsFiniteSet({0}) /\ Cardinality({0}) = 1  BY FS_Singleton
  <2>3. RankOf(S, 0) <= 1  BY <2>1, <2>2, FS_Subset DEF RankOf
  <2>4. RankOf(S, 0) = 1 /\ k = 1  BY <1>1, <1>4, <1>5, <2>3
  <2>5. {m \in S : m <= 0} # {}  BY <2>4, FS_EmptySet DEF RankOf
  <2>6. 0 \in S  BY <2>1, <2>5
  <2> QED  BY <2>4, <2>6
<1>6. CASE n # 0
  <2> DEFINE A == {m \in S : m <= n - 1}
             B == {m \in S : m <= n}
  <2>1. n - 1 \in Nat /\ ~(n <= n - 1)  BY <1>4, <1>6
  <2>2. ~(k <= RankOf(S, n - 1)) /\ RankOf(S, n - 1) \in Nat
    <3>1. n - 1 \notin T  BY <1>3, <2>1
    <3> QED  BY <2>1, <3>1, RankType
  <2>3. B = IF n \in S THEN A \cup {n} ELSE A
    <3>1. \A m \in Nat : m <= n <=> (m <= n - 1 \/ m = n)  BY <1>4
    <3> QED  BY <3>1
  <2>4. IsFiniteSet(A)  BY RankType
  <2>5. Cardinality(B) = IF n \in S /\ n \notin A THEN Cardinality(A) + 1 ELSE Cardinality(A)
    <3> HIDE DEF A, B
    <3> QED  BY <2>3, <2>4, FS_AddElement
  <2>6. RankOf(S, n) = IF n \in S /\ n \notin A THEN RankOf(S, n - 1) + 1 ELSE RankOf(S, n - 1)
    BY <2>5 DEF RankOf
  <2>7. n \in S /\ RankOf(S, n) = k
    <3> HIDE DEF A, B, T
    <3> QED  BY <1>1, <1>4, <2>2, <2>6
  <2> QED  BY <2>7
<1> QED  BY <1>5, <1>6

(* What has a number at each rank.                                           *)
Ordered(s, S) ==
  /\ s \in Seq(S) /\ Len(s) = Cardinality(S) /\ Cardinality(S) \in Nat /\ DOMAIN s = 1..Len(s)
  /\ \A k \in 1..Len(s) : s[k] \in S /\ RankOf(S, s[k]) = k
  /\ \A n \in S : RankOf(S, n) \in 1..Len(s) /\ s[RankOf(S, n)] = n
  /\ \A j, k \in 1..Len(s) : j < k => s[j] < s[k]

LEMMA InOrderIs ==
  ASSUME NEW S \in SUBSET Nat, IsFiniteSet(S)
  PROVE  Ordered(InOrder(S), S)
<1> DEFINE size == Cardinality(S)
           s == InOrder(S)
<1>1. size \in Nat  BY FS_CardinalityType
<1>2. s = [k \in 1..size |-> CHOOSE n \in S : RankOf(S, n) = k]  BY DEF InOrder, RankOf
<1>3. \A k \in 1..size : s[k] \in S /\ RankOf(S, s[k]) = k
  <2> SUFFICES ASSUME NEW k \in 1..size PROVE s[k] \in S /\ RankOf(S, s[k]) = k  OBVIOUS
  <2>1. \E n \in S : RankOf(S, n) = k  BY RankTaken
  <2> HIDE DEF s, size
  <2> QED  BY <1>2, <2>1
<1>4. s \in [1..size -> S]
  <2> HIDE DEF s, size
  <2> QED  BY <1>2, <1>3
<1>5. s \in Seq(S) /\ Len(s) = size /\ DOMAIN s = 1..size
  <2> HIDE DEF s, size
  <2> QED  BY <1>1, <1>4
<1>6. \A n \in S : RankOf(S, n) \in 1..size /\ s[RankOf(S, n)] = n
  <2> SUFFICES ASSUME NEW n \in S PROVE RankOf(S, n) \in 1..size /\ s[RankOf(S, n)] = n  OBVIOUS
  <2>1. RankOf(S, n) \in Nat /\ RankOf(S, n) <= size  BY RankType
  <2>2. n \in {m \in S : m <= n} /\ IsFiniteSet({m \in S : m <= n})  BY RankType
  <2>3. RankOf(S, n) # 0  BY <2>2, FS_EmptySet DEF RankOf
  <2>4. RankOf(S, n) \in 1..size
    <3> HIDE DEF size
    <3> QED  BY <1>1, <2>1, <2>3
  <2> DEFINE k == RankOf(S, n)
  <2> HIDE DEF s, size
  <2>5. k \in 1..size /\ s[k] \in S /\ RankOf(S, s[k]) = RankOf(S, n)  BY <1>3, <2>4
  <2> HIDE DEF k
  <2>6. s[k] = n
    <3> DEFINE m == s[k]
    <3>1. m \in S /\ RankOf(S, m) = RankOf(S, n)  BY <2>5
    <3> HIDE DEF m
    <3>2. m = n  BY <3>1, RankInjects
    <3> QED  BY <3>2 DEF m
  <2> USE DEF k
  <2> QED  BY <2>4, <2>6
<1>7. \A j, k \in 1..size : j < k => s[j] < s[k]
  <2> SUFFICES ASSUME NEW j \in 1..size, NEW k \in 1..size, j < k PROVE s[j] < s[k]  OBVIOUS
  <2> HIDE DEF s, size
  <2>1. s[j] \in S /\ s[k] \in S /\ RankOf(S, s[j]) = j /\ RankOf(S, s[k]) = k  BY <1>3
  <2>2. s[j] \in Nat /\ s[k] \in Nat  BY <2>1
  <2>3. CASE s[k] < s[j]
    <3>1. k < j  BY <2>1, <2>3, RankGrows
    <3> QED  BY <1>1, <3>1
  <2>4. CASE s[k] = s[j]  BY <1>1, <2>1, <2>4
  <2> QED  BY <2>2, <2>3, <2>4
<1> HIDE DEF s, size
<1>8. Ordered(s, S)  BY <1>1, <1>3, <1>5, <1>6, <1>7 DEF Ordered, size
<1> QED  BY <1>8 DEF s

(* What is taken of a sequence is what it has at these places.               *)
LEMMA ThoseIs ==
  ASSUME NEW T, NEW s \in Seq(T), NEW places \in SUBSET (DOMAIN s)
  PROVE  /\ Those(s, places) \in Seq(T)
         /\ \A k \in DOMAIN Those(s, places) : \E p \in places : Those(s, places)[k] = s[p]
         /\ \A p \in places : \E k \in DOMAIN Those(s, places) : Those(s, places)[k] = s[p]
         /\ Len(Those(s, places)) = Cardinality(places)
<1> DEFINE o == InOrder(places)
           t == Those(s, places)
<1>1. Len(s) \in Nat /\ DOMAIN s = 1..Len(s) /\ places \in SUBSET Nat /\ \A p \in places : s[p] \in T /\ p <= Len(s)
  OBVIOUS
<1>2. IsFiniteSet(places)  BY <1>1, FS_BoundedSetOfNaturals
<1>3. Ordered(o, places)  BY <1>1, <1>2, InOrderIs
<1>4. t = [k \in DOMAIN o |-> s[o[k]]]  BY DEF Those
<1> HIDE DEF o, t
<1>5. Len(o) \in Nat /\ DOMAIN o = 1..Len(o) /\ \A k \in 1..Len(o) : o[k] \in places  BY <1>3 DEF Ordered
<1>6. DOMAIN t = 1..Len(o) /\ \A k \in 1..Len(o) : t[k] = s[o[k]] /\ t[k] \in T  BY <1>1, <1>4, <1>5
<1>7. t \in [1..Len(o) -> T]  BY <1>4, <1>5, <1>6
<1>8. t \in Seq(T) /\ Len(t) = Len(o)  BY <1>5, <1>7
<1>9. \A p \in places : \E k \in 1..Len(o) : o[k] = p  BY <1>3 DEF Ordered
<1>10. Len(o) = Cardinality(places)  BY <1>3 DEF Ordered
<1>11. \A k \in DOMAIN t : \E p \in places : t[k] = s[p]  BY <1>5, <1>6
<1>12. \A p \in places : \E k \in DOMAIN t : t[k] = s[p]  BY <1>6, <1>9
<1> QED  BY <1>8, <1>10, <1>11, <1>12 DEF t

(* What a concatenation has, one of the sequences has.                       *)
LEMMA FlattenHas ==
  ASSUME NEW T, NEW ss \in Seq(Seq(T))
  PROVE  /\ FlattenSeq(ss) \in Seq(T)
         /\ \A k \in DOMAIN FlattenSeq(ss) : \E n \in DOMAIN ss : \E j \in DOMAIN ss[n] : FlattenSeq(ss)[k] = ss[n][j]
<1>1. PICK f \in [0..Len(ss) -> Seq(T)] :
        /\ FlattenSeq(ss) = f[Len(ss)] /\ f[0] = <<>>
        /\ \A n \in 1..Len(ss) : f[n] = f[n - 1] \o ss[n]
  BY FlattenUnfolds
<1> DEFINE Of(x) == \A k \in DOMAIN x : \E n \in DOMAIN ss : \E j \in DOMAIN ss[n] : x[k] = ss[n][j]
           G == {n \in 0..Len(ss) : Of(f[n])}
<1>2. Len(ss) \in Nat /\ DOMAIN ss = 1..Len(ss)  OBVIOUS
<1>3. 0 \in G  BY <1>1, <1>2
<1>4. ASSUME NEW n \in 1..Len(ss), n - 1 \in G PROVE n \in G
  <2>1. n - 1 \in 0..Len(ss) /\ n \in 0..Len(ss) /\ ss[n] \in Seq(T) /\ n \in DOMAIN ss  BY <1>2
  <2>2. f[n - 1] \in Seq(T) /\ Of(f[n - 1])  BY <1>4, <2>1
  <2>3. f[n] = f[n - 1] \o ss[n]
    <3> HIDE DEF G
    <3> QED  BY <1>1
  <2>4. ASSUME NEW k \in DOMAIN f[n]
        PROVE  \E m \in DOMAIN ss : \E j \in DOMAIN ss[m] : f[n][k] = ss[m][j]
    <3> DEFINE x == f[n - 1]
               y == ss[n]
               z == f[n]
    <3>1. x \in Seq(T) /\ y \in Seq(T) /\ z = x \o y /\ k \in DOMAIN z  BY <2>1, <2>2, <2>3
    <3> HIDE DEF x, y, z
    <3>2. \/ k \in DOMAIN x /\ z[k] = x[k]
          \/ k - Len(x) \in DOMAIN y /\ z[k] = y[k - Len(x)]
      BY <3>1
    <3>3. CASE k \in DOMAIN x /\ z[k] = x[k]  BY <2>2, <3>3 DEF x, z
    <3>4. CASE k - Len(x) \in DOMAIN y /\ z[k] = y[k - Len(x)]  BY <2>1, <3>4 DEF y, z
    <3> QED  BY <3>2, <3>3, <3>4
  <2> QED  BY <2>1, <2>4
<1> HIDE DEF G
<1>5. \A n \in 0..Len(ss) : n \in G  BY <1>2, <1>3, <1>4, UpTo
<1>6. Len(ss) \in 0..Len(ss)  BY <1>2
<1>7. Of(f[Len(ss)]) /\ f[Len(ss)] \in Seq(T)  BY <1>5, <1>6 DEF G
<1> QED  BY <1>1, <1>7

-----------------------------------------------------------------------------
(* The least and the greatest of some numbers.                               *)
LEMMA LeastIs ==
  ASSUME NEW S \in SUBSET Nat, S # {}
  PROVE  Min(S) \in S /\ \A n \in S : Min(S) <= n
BY LeastNat DEF Min

LEMMA GreatestIs ==
  ASSUME NEW S \in SUBSET Nat, IsFiniteSet(S), S # {}
  PROVE  Max(S) \in S /\ \A n \in S : n <= Max(S)
<1>1. Cardinality(S) \in Nat /\ Cardinality(S) # 0  BY FS_CardinalityType, FS_EmptySet
<1>2. Cardinality(S) \in 1..Cardinality(S)  BY <1>1
<1>3. PICK n \in S : RankOf(S, n) = Cardinality(S)  BY <1>2, RankTaken
<1>4. {m \in S : m <= n} \in SUBSET S  OBVIOUS
<1>5. {m \in S : m <= n} = S  BY <1>3, <1>4, FS_Subset DEF RankOf
<1>6. \A m \in S : m \in Nat /\ n \in Nat /\ m <= n  BY <1>5
<1>7. \E x \in S : \A y \in S : x >= y  BY <1>6
<1>8. Max(S) \in S /\ \A y \in S : Max(S) >= y  BY <1>7 DEF Max
<1>9. \A y \in S : y \in Nat /\ Max(S) \in Nat  BY <1>8
<1> QED  BY <1>8, <1>9

-----------------------------------------------------------------------------
(* Sequences, whatever they are of.                                          *)
Listed(s) == s \in Seq(ToSet(s))

LEMMA ListedIs ==
  ASSUME NEW T, NEW s \in Seq(T)
  PROVE  Listed(s) /\ ToSet(s) \subseteq T
<1>1. Len(s) \in Nat /\ DOMAIN s = 1..Len(s) /\ s \in [1..Len(s) -> T]  OBVIOUS
<1>2. s \in [1..Len(s) -> ToSet(s)]  BY <1>1 DEF ToSet
<1>3. s \in Seq(ToSet(s))
  <2> DEFINE U == ToSet(s)
             n == Len(s)
  <2>1. n \in Nat /\ s \in [1..n -> U]  BY <1>1, <1>2
  <2> HIDE DEF U, n
  <2>2. s \in Seq(U)  BY <2>1
  <2> QED  BY <2>2 DEF U
<1> QED  BY <1>1, <1>3 DEF Listed, ToSet

LEMMA ListedMap ==
  ASSUME NEW n \in Nat, NEW s, DOMAIN s = 1..n, s = [k \in DOMAIN s |-> s[k]]
  PROVE  Listed(s) /\ Len(s) = n
<1> DEFINE T == {s[k] : k \in 1..n}
<1>1. s \in [1..n -> T]  OBVIOUS
<1> HIDE DEF T
<1>2. s \in Seq(T)  BY <1>1
<1>3. Len(s) = n  BY <1>1, <1>2
<1> QED  BY <1>2, <1>3, ListedIs

LEMMA ListedFlat ==
  ASSUME NEW ss, Listed(ss), \A n \in DOMAIN ss : Listed(ss[n])
  PROVE  /\ Listed(FlattenSeq(ss))
         /\ \A k \in DOMAIN FlattenSeq(ss) : \E n \in DOMAIN ss : \E j \in DOMAIN ss[n] : FlattenSeq(ss)[k] = ss[n][j]
<1> DEFINE T == UNION {ToSet(ss[n]) : n \in DOMAIN ss}
           U == ToSet(ss)
<1>1. \A n \in DOMAIN ss : ss[n] \in Seq(T)
  <2> SUFFICES ASSUME NEW n \in DOMAIN ss PROVE ss[n] \in Seq(T)  OBVIOUS
  <2> DEFINE s == ss[n]
             V == ToSet(s)
  <2>1. s \in Seq(V) /\ V \subseteq T  BY DEF Listed
  <2> HIDE DEF s, V, T
  <2>2. s \in Seq(T)  BY <2>1
  <2> QED  BY <2>2 DEF s
<1>2. ss \in Seq(U)  BY DEF Listed
<1> HIDE DEF T, U
<1>3. DOMAIN ss = 1..Len(ss) /\ Len(ss) \in Nat /\ ss = [n \in 1..Len(ss) |-> ss[n]]  BY <1>2
<1>4. ss \in [1..Len(ss) -> Seq(T)]  BY <1>1, <1>3
<1>5. ss \in Seq(Seq(T))  BY <1>3, <1>4
<1>6. FlattenSeq(ss) \in Seq(T)  BY <1>5, FlattenHas
<1> QED  BY <1>5, <1>6, FlattenHas, ListedIs

LEMMA ListedThose ==
  ASSUME NEW s, Listed(s), NEW places \in SUBSET (DOMAIN s)
  PROVE  /\ Listed(Those(s, places))
         /\ \A k \in DOMAIN Those(s, places) : \E p \in places : Those(s, places)[k] = s[p]
         /\ \A p \in places : \E k \in DOMAIN Those(s, places) : Those(s, places)[k] = s[p]
<1> DEFINE T == ToSet(s)
<1>1. s \in Seq(T)  BY DEF Listed
<1> HIDE DEF T
<1> QED  BY <1>1, ThoseIs, ListedIs

LEMMA ListedDomain ==
  ASSUME NEW s, Listed(s)
  PROVE  /\ Len(s) \in Nat /\ DOMAIN s = 1..Len(s) /\ s = [k \in DOMAIN s |-> s[k]]
         /\ DOMAIN s \in SUBSET Nat /\ IsFiniteSet(DOMAIN s)
<1> DEFINE T == ToSet(s)
<1>1. s \in Seq(T)  BY DEF Listed
<1> HIDE DEF T
<1>2. Len(s) \in Nat /\ DOMAIN s = 1..Len(s) /\ s = [k \in DOMAIN s |-> s[k]]  BY <1>1
<1>3. IsFiniteSet(1..Len(s))  BY <1>2, FS_Interval
<1> QED  BY <1>2, <1>3

(* Every field is kept by name, place and screen, and none is added.         *)
LEMMA DedupedIs ==
  ASSUME NEW s, Listed(s)
  PROVE  /\ Listed(Deduped(s))
         /\ \A k \in DOMAIN Deduped(s) : \E p \in DOMAIN s : Deduped(s)[k] = s[p]
         /\ \A p \in DOMAIN s : \E k \in DOMAIN Deduped(s) : SameField(Deduped(s)[k], s[p])
<1> DEFINE P == {k \in DOMAIN s : \A j \in 1..(k - 1) : ~SameField(s[j], s[k])}
<1>1. DOMAIN s = 1..Len(s) /\ Len(s) \in Nat /\ DOMAIN s \in SUBSET Nat  BY ListedDomain
<1>2. Deduped(s) = Those(s, P)  BY DEF Deduped
<1>3. P \in SUBSET (DOMAIN s)  OBVIOUS
<1>4. ASSUME NEW p \in DOMAIN s PROVE \E q \in P : SameField(s[q], s[p])
  <2> DEFINE Q == {k \in DOMAIN s : SameField(s[k], s[p])}
  <2>1. p \in Q /\ Q \in SUBSET Nat  BY <1>1 DEF SameField
  <2>2. PICK q \in Q : \A k \in Q : q <= k
    <3> HIDE DEF Q
    <3> QED  BY <2>1, LeastNat
  <2>3. q \in DOMAIN s /\ q \in Nat /\ SameField(s[q], s[p])  BY <1>1, <2>2
  <2>4. ASSUME NEW j \in 1..(q - 1), SameField(s[j], s[q]) PROVE FALSE
    <3>1. j \in DOMAIN s /\ ~(q <= j)  BY <1>1, <2>3
    <3>2. SameField(s[j], s[p])  BY <2>3, <2>4 DEF SameField
    <3> QED  BY <2>2, <3>1, <3>2
  <2>5. q \in P  BY <2>3, <2>4
  <2> QED  BY <2>3, <2>5
<1> HIDE DEF P
<1>5. /\ Listed(Those(s, P))
      /\ \A k \in DOMAIN Those(s, P) : \E p \in P : Those(s, P)[k] = s[p]
      /\ \A p \in P : \E k \in DOMAIN Those(s, P) : Those(s, P)[k] = s[p]
  BY <1>3, ListedThose
<1>6. ASSUME NEW p \in DOMAIN s PROVE \E k \in DOMAIN Those(s, P) : SameField(Those(s, P)[k], s[p])
  <2>1. PICK q \in P : SameField(s[q], s[p])  BY <1>4
  <2>2. PICK k \in DOMAIN Those(s, P) : Those(s, P)[k] = s[q]  BY <1>5
  <2> QED  BY <2>1, <2>2
<1>7. \A k \in DOMAIN Those(s, P) : \E p \in DOMAIN s : Those(s, P)[k] = s[p]  BY <1>3, <1>5
<1> QED  BY <1>2, <1>5, <1>6, <1>7

(* A finite set has a list of its members.                                   *)
LEMMA SetToSeqIs ==
  ASSUME NEW S, IsFiniteSet(S)
  PROVE  Listed(SetToSeq(S)) /\ \A k \in DOMAIN SetToSeq(S) : SetToSeq(S)[k] \in S
<1> DEFINE n == Cardinality(S)
<1>1. n \in Nat /\ ExistsBijection(1..n, S)  BY FS_CardinalityType
<1>2. PICK f \in Bijection(1..n, S) : TRUE  BY <1>1 DEF ExistsBijection
<1>3. f \in [1..n -> S] /\ IsInjective(f)  BY <1>2 DEF Bijection, Injection, IsInjective
<1>4. SetToSeq(S) \in [1..n -> S]  BY <1>3 DEF SetToSeq
<1> HIDE DEF n
<1>5. SetToSeq(S) \in Seq(S)  BY <1>1, <1>4
<1> QED  BY <1>4, <1>5, ListedIs

-----------------------------------------------------------------------------
(* Traces and field maps of the types the code reads.                        *)
IsTrace(t) == t \in Seq(EventSet)

IsMap(m) ==
  /\ "entries" \in DOMAIN m /\ Listed(m.entries)
  /\ \A k \in DOMAIN m.entries : m.entries[k].at \in Nat /\ m.entries[k].size \in Nat

LEMMA EventIs ==
  ASSUME NEW t, IsTrace(t)
  PROVE  /\ Len(t) \in Nat /\ DOMAIN t = 1..Len(t)
         /\ Screens(t) \in SUBSET (1..Len(t)) /\ Actions(t) \in SUBSET (1..Len(t))
         /\ Screens(t) \in SUBSET Nat /\ IsFiniteSet(Screens(t))
         /\ Actions(t) \in SUBSET Nat /\ IsFiniteSet(Actions(t))
         /\ \A s \in Screens(t) : t[s].fields \in Seq(TraceField)
         /\ \A i \in Actions(t) : t[i].inputs \in Seq(ActionInput)
         /\ \A k \in DOMAIN t : t[k].type \in {"screen", "action", "note"}
<1>1. Len(t) \in Nat /\ DOMAIN t = 1..Len(t) /\ \A k \in DOMAIN t : t[k] \in EventSet  BY DEF IsTrace
<1>2. \A k \in DOMAIN t : IsEvent(t[k])  BY <1>1, EventsAssumption
<1>3. Screens(t) \in SUBSET (1..Len(t)) /\ Actions(t) \in SUBSET (1..Len(t))  BY <1>1 DEF Screens, Actions
<1>4. IsFiniteSet(1..Len(t)) /\ 1..Len(t) \in SUBSET Nat  BY <1>1, FS_Interval
<1>5. IsFiniteSet(Screens(t)) /\ IsFiniteSet(Actions(t))  BY <1>3, <1>4, FS_Subset
<1>6. Screens(t) \in SUBSET Nat /\ Actions(t) \in SUBSET Nat  BY <1>3, <1>4
<1>7. \A s \in Screens(t) : t[s].fields \in Seq(TraceField)  BY <1>2 DEF Screens, IsEvent
<1>8. \A i \in Actions(t) : t[i].inputs \in Seq(ActionInput)  BY <1>2 DEF Actions, IsEvent
<1>9. \A k \in DOMAIN t : t[k].type \in {"screen", "action", "note"}  BY <1>2 DEF IsEvent
<1> QED  BY <1>1, <1>3, <1>5, <1>6, <1>7, <1>8, <1>9

LEMMA ForCaseIs ==
  ASSUME NEW m \in Maps, NEW case
  PROVE  IsMap(ForCase(m, case))
<1> DEFINE old == m.entries
           P == {k \in DOMAIN old : old[k].cases = {} \/ case \in old[k].cases}
<1>1. old \in Seq(FieldMapEntry) /\ "entries" \in DOMAIN m  BY MapsAssumption
<1>2. P \in SUBSET (DOMAIN old)  OBVIOUS
<1>3. ForCase(m, case).entries = Those(old, P) /\ "entries" \in DOMAIN ForCase(m, case)  BY <1>1 DEF ForCase
<1> HIDE DEF P, old
<1>4. ForCase(m, case).entries \in Seq(FieldMapEntry)  BY <1>1, <1>2, <1>3, ThoseIs
<1> DEFINE s == ForCase(m, case).entries
<1>5. Listed(s) /\ \A k \in DOMAIN s : s[k] \in FieldMapEntry
  <2>1. s \in Seq(FieldMapEntry)  BY <1>4
  <2> HIDE DEF s
  <2> QED  BY <2>1, ListedIs
<1>6. \A e \in FieldMapEntry : e.at \in Nat /\ e.size \in Nat  BY DEF FieldMapEntry
<1> QED  BY <1>3, <1>5, <1>6 DEF IsMap

LEMMA FiniteImage ==
  ASSUME NEW S, IsFiniteSet(S), NEW f, DOMAIN f = S
  PROVE  IsFiniteSet({f[x] : x \in S})
<1> DEFINE T == {f[x] : x \in S}
           g == [x \in S |-> f[x]]
<1>1. g \in Surjection(S, T)  BY DEF Surjection
<1> HIDE DEF T, g
<1>2. IsFiniteSet(T)  BY <1>1, FS_Surjection
<1> QED  BY <1>2 DEF T

LEMMA SetOfFinite ==
  ASSUME NEW s, Listed(s)
  PROVE  IsFiniteSet(ToSet(s))
<1>1. IsFiniteSet(DOMAIN s)  BY ListedDomain
<1> QED  BY <1>1, FiniteImage DEF ToSet

-----------------------------------------------------------------------------
(* The fields of a screen.                                                   *)
LEMMA TraceFieldIs ==
  ASSUME NEW f \in TraceField
  PROVE  f.at \in Nat /\ f.at # 0 /\ f.size \in Nat /\ f.size # 0 /\ f.id # NotGiven
BY DEF TraceField

LEMMA FieldsForIs ==
  ASSUME NEW screen, screen.fields \in Seq(TraceField), NEW m, IsMap(m), NEW ref
  PROVE  /\ IsFiniteSet(FieldsFor(screen, m, ref))
         /\ \A f \in FieldsFor(screen, m, ref) :
              /\ f.at \in Nat /\ f.at # 0 /\ f.size \in Nat /\ f.size # 0
              /\ f.value = ShownAt(screen, f.at)
<1> DEFINE own == ToSet(screen.fields)
           entries == {m.entries[k] : k \in EntriesFor(m, ref)}
           added == MapOnly(screen, m, ref)
           F == [f \in own |-> [id |-> f.id, at |-> f.at, size |-> f.size, label |-> f.label, input |-> f.input,
                                value |-> ShownAt(screen, f.at)]]
           G == [e \in added |-> [id |-> e.id, at |-> e.at, size |-> e.size, label |-> e.name, input |-> IsInput(e),
                                  value |-> ShownAt(screen, e.at)]]
           A == {F[f] : f \in own}
           B == {G[e] : e \in added}
<1>1. FieldsFor(screen, m, ref) = A \cup B  BY DEF FieldsFor
<1>2. own \subseteq TraceField /\ IsFiniteSet(own)  BY ListedIs, SetOfFinite
<1>3. /\ entries \subseteq ToSet(m.entries) /\ IsFiniteSet(ToSet(m.entries))
      /\ \A e \in ToSet(m.entries) : e.at \in Nat /\ e.size \in Nat
  BY SetOfFinite DEF IsMap, EntriesFor, ToSet
<1>4. added \in SUBSET ToSet(m.entries) /\ \A e \in added : Sized(e) /\ e.at \in Nat /\ e.size \in Nat
  BY <1>3 DEF MapOnly, SizedEntries
<1>5. IsFiniteSet(added)
  <2> HIDE DEF added
  <2> QED  BY <1>3, <1>4, FS_Subset
<1>6. IsFiniteSet(A) /\ IsFiniteSet(B)
  <2>1. DOMAIN F = own /\ DOMAIN G = added  OBVIOUS
  <2> HIDE DEF F, G, own, added
  <2> QED  BY <1>2, <1>5, <2>1, FiniteImage
<1>7. \A f \in own : F[f].at \in Nat /\ F[f].at # 0 /\ F[f].size \in Nat /\ F[f].size # 0 /\ F[f].value = ShownAt(screen, F[f].at)
  <2> SUFFICES ASSUME NEW f \in own
               PROVE F[f].at \in Nat /\ F[f].at # 0 /\ F[f].size \in Nat /\ F[f].size # 0 /\ F[f].value = ShownAt(screen, F[f].at)
    OBVIOUS
  <2>1. f \in TraceField  BY <1>2
  <2>2. F[f].at = f.at /\ F[f].size = f.size /\ F[f].value = ShownAt(screen, f.at)  OBVIOUS
  <2> HIDE DEF F
  <2>3. f.at \in Nat /\ f.at # 0 /\ f.size \in Nat /\ f.size # 0  BY <2>1, TraceFieldIs
  <2> QED  BY <2>2, <2>3
<1>8. \A e \in added : G[e].at \in Nat /\ G[e].at # 0 /\ G[e].size \in Nat /\ G[e].size # 0 /\ G[e].value = ShownAt(screen, G[e].at)
  <2> SUFFICES ASSUME NEW e \in added
               PROVE G[e].at \in Nat /\ G[e].at # 0 /\ G[e].size \in Nat /\ G[e].size # 0 /\ G[e].value = ShownAt(screen, G[e].at)
    OBVIOUS
  <2>1. e.at \in Nat /\ e.size \in Nat /\ Sized(e)  BY <1>4
  <2>2. G[e].at = e.at /\ G[e].size = e.size /\ G[e].value = ShownAt(screen, e.at)  OBVIOUS
  <2> HIDE DEF G
  <2> QED  BY <2>1, <2>2 DEF Sized
<1>9. IsFiniteSet(A \cup B)
  <2> HIDE DEF A, B
  <2> QED  BY <1>6, FS_Union
<1>10. \A f \in A \cup B : f.at \in Nat /\ f.at # 0 /\ f.size \in Nat /\ f.size # 0 /\ f.value = ShownAt(screen, f.at)
  <2> HIDE DEF F, G, own, added
  <2> QED  BY <1>7, <1>8
<1> HIDE DEF A, B
<1> QED  BY <1>1, <1>9, <1>10

LEMMA ByPositionIs ==
  ASSUME NEW fields, IsFiniteSet(fields), \A f \in fields : f.at \in Nat
  PROVE  Listed(ByPosition(fields)) /\ \A k \in DOMAIN ByPosition(fields) : ByPosition(fields)[k] \in fields
<1> DEFINE S == {f.at : f \in fields}
           places == InOrder(S)
           At(k) == {f \in fields : f.at = places[k]}
           ss == [k \in DOMAIN places |-> SetToSeq(At(k))]
<1>1. IsFiniteSet(S)
  <2> DEFINE at == [f \in fields |-> f.at]
  <2>1. DOMAIN at = fields /\ \A f \in fields : at[f] = f.at  OBVIOUS
  <2> HIDE DEF at
  <2>2. IsFiniteSet({at[f] : f \in fields})  BY <2>1, FiniteImage
  <2>3. {at[f] : f \in fields} = S  BY <2>1
  <2> QED  BY <2>2, <2>3
<1>2. S \in SUBSET Nat  OBVIOUS
<1> HIDE DEF S
<1>3. Ordered(places, S)  BY <1>1, <1>2, InOrderIs
<1>4. Len(places) \in Nat /\ DOMAIN places = 1..Len(places)  BY <1>3 DEF Ordered
<1>5. \A k \in DOMAIN places : Listed(ss[k]) /\ \A j \in DOMAIN ss[k] : ss[k][j] \in fields
  <2> SUFFICES ASSUME NEW k \in DOMAIN places PROVE Listed(ss[k]) /\ \A j \in DOMAIN ss[k] : ss[k][j] \in fields
    OBVIOUS
  <2> HIDE DEF places
  <2>1. ss[k] = SetToSeq(At(k)) /\ At(k) \in SUBSET fields  OBVIOUS
  <2> HIDE DEF ss, At
  <2>2. IsFiniteSet(At(k))  BY <2>1, FS_Subset
  <2> QED  BY <2>1, <2>2, SetToSeqIs
<1>6. DOMAIN ss = DOMAIN places  OBVIOUS
<1>7. Listed(ss)
  <2>1. ss = [k \in DOMAIN ss |-> ss[k]]  OBVIOUS
  <2> HIDE DEF ss, places
  <2> QED  BY <1>4, <1>6, <2>1, ListedMap
<1>8. ByPosition(fields) = FlattenSeq(ss)  BY DEF ByPosition, S
<1> HIDE DEF ss, places
<1>9. /\ Listed(FlattenSeq(ss))
      /\ \A k \in DOMAIN FlattenSeq(ss) : \E n \in DOMAIN ss : \E j \in DOMAIN ss[n] : FlattenSeq(ss)[k] = ss[n][j]
  BY <1>5, <1>6, <1>7, ListedFlat
<1>10. \A k \in DOMAIN FlattenSeq(ss) : FlattenSeq(ss)[k] \in fields
  <2> SUFFICES ASSUME NEW k \in DOMAIN FlattenSeq(ss) PROVE FlattenSeq(ss)[k] \in fields  OBVIOUS
  <2>1. PICK n \in DOMAIN ss : \E j \in DOMAIN ss[n] : FlattenSeq(ss)[k] = ss[n][j]  BY <1>9
  <2>2. PICK j \in DOMAIN ss[n] : FlattenSeq(ss)[k] = ss[n][j]  BY <2>1
  <2> QED  BY <1>5, <1>6, <2>2
<1> QED  BY <1>8, <1>9, <1>10

(* A field of the screen, or one made up where none is named so.             *)
Located(x, screen, m, ref) ==
  /\ x.at \in Nat /\ x.at # 0 /\ x.size \in Nat /\ x.size # 0
  /\ \/ x \in FieldsFor(screen, m, ref)
     \/ \A g \in FieldsFor(screen, m, ref) : ~Names(g, x.id, x.at)

FirstAt(x, found) == x \in found /\ \A g \in found : x.at <= g.at

FoundAs(s, screen, m, ref, id, at, fallback) ==
  LET found == {f \in FieldsFor(screen, m, ref) : Names(f, id, at)}
  IN  /\ Listed(s)
      /\ \A k \in DOMAIN s : k = 1 /\ Located(s[k], screen, m, ref)
      /\ found # {} => s = <<s[1]>> /\ FirstAt(s[1], found)
      /\ found = {} /\ at # 0 => s = <<s[1]>> /\ s[1].value = fallback

LEMMA FindFieldIs ==
  ASSUME NEW screen, screen.fields \in Seq(TraceField), NEW m, IsMap(m), NEW ref, NEW id, NEW at \in Nat, NEW fallback
  PROVE  FoundAs(FindField(screen, m, ref, id, at, fallback), screen, m, ref, id, at, fallback)
<1> DEFINE s == FindField(screen, m, ref, id, at, fallback)
           found == {f \in FieldsFor(screen, m, ref) : Names(f, id, at)}
           new == [id |-> id, at |-> at, size |-> 1, label |-> "made_up", input |-> TRUE, value |-> fallback]
           Good(t) == /\ Listed(t)
                      /\ \A k \in DOMAIN t : k = 1 /\ Located(t[k], screen, m, ref)
                      /\ found # {} => t = <<t[1]>> /\ FirstAt(t[1], found)
                      /\ found = {} /\ at # 0 => t = <<t[1]>> /\ t[1].value = fallback
<1> SUFFICES Good(s)  BY DEF FoundAs
<1>1. s = IF found # {} THEN <<CHOOSE f \in found : \A g \in found : f.at <= g.at>>
          ELSE IF at # 0 THEN <<new>> ELSE <<>>
  BY DEF FindField
<1>2. \A f \in FieldsFor(screen, m, ref) : f.at \in Nat /\ f.at # 0 /\ f.size \in Nat /\ f.size # 0  BY FieldsForIs
<1> HIDE DEF s
<1>3. CASE found # {}
  <2> DEFINE S == {f.at : f \in found}
             x == CHOOSE f \in found : \A g \in found : f.at <= g.at
  <2>1. S \in SUBSET Nat /\ S # {}  BY <1>2, <1>3
  <2>2. PICK n \in S : \A k \in S : n <= k
    <3> HIDE DEF S
    <3> QED  BY <2>1, LeastNat
  <2>3. PICK f \in found : f.at = n  BY <2>2
  <2>4. \A g \in found : f.at <= g.at  BY <2>2, <2>3
  <2>5. FirstAt(x, found)  BY <2>4 DEF FirstAt
  <2>6. s = <<x>>  BY <1>1, <1>3
  <2>7. x \in FieldsFor(screen, m, ref)  BY <2>5 DEF FirstAt
  <2> HIDE DEF x
  <2>8. Located(x, screen, m, ref)  BY <1>2, <2>7 DEF Located
  <2>9. <<x>> \in Seq({x}) /\ DOMAIN <<x>> = {1}  OBVIOUS
  <2> HIDE DEF found
  <2>10. Listed(s)  BY <2>6, <2>9, ListedIs
  <2>11. s[1] = x /\ \A k \in DOMAIN s : k = 1  BY <2>6, <2>9
  <2> QED  BY <1>3, <2>5, <2>6, <2>8, <2>10, <2>11
<1>4. CASE found = {} /\ at # 0
  <2>1. s = <<new>>  BY <1>1, <1>4
  <2>2. new.at = at /\ new.id = id /\ new.size = 1 /\ new.value = fallback  OBVIOUS
  <2>3. \A g \in FieldsFor(screen, m, ref) : ~Names(g, id, at)  BY <1>4
  <2> HIDE DEF new
  <2>4. Located(new, screen, m, ref)  BY <1>4, <2>2, <2>3 DEF Located
  <2>5. <<new>> \in Seq({new}) /\ DOMAIN <<new>> = {1}  OBVIOUS
  <2> HIDE DEF found
  <2>6. Listed(s)  BY <2>1, <2>5, ListedIs
  <2>7. s[1] = new /\ \A k \in DOMAIN s : k = 1  BY <2>1, <2>5
  <2> QED  BY <1>4, <2>1, <2>2, <2>4, <2>6, <2>7
<1>5. CASE found = {} /\ at = 0
  <2>1. s = <<>>  BY <1>1, <1>5
  <2>2. <<>> \in Seq({}) /\ DOMAIN <<>> = {}  OBVIOUS
  <2> HIDE DEF found
  <2>3. Listed(s)  BY <2>1, <2>2, ListedIs
  <2> QED  BY <1>5, <2>1, <2>2, <2>3
<1> QED  BY <1>3, <1>4, <1>5

-----------------------------------------------------------------------------
(* Fields of a contract.                                                     *)
Placed(f) == f.ref \in Nat /\ f.ref # 0 /\ f.at \in Nat /\ f.at # 0 /\ f.size \in Nat /\ f.size # 0

(* A field of a contract stands on its screen as the trace and the map have  *)
(* it, or nothing there is named as it is.                                   *)
Standing(f, t, m) ==
  /\ Placed(f) /\ f.ref \in Screens(t)
  /\ \/ \E g \in FieldsFor(t[f.ref], m, f.ref) : g.id = f.id /\ g.at = f.at /\ g.size = f.size
     \/ \A g \in FieldsFor(t[f.ref], m, f.ref) : ~Names(g, f.id, f.at)

LEMMA ContractFieldStands ==
  ASSUME NEW t, IsTrace(t), NEW m, NEW ref \in Screens(t), NEW x, Located(x, t[ref], m, ref)
  PROVE  Standing(ContractField(x, m, ref), t, m)
<1> DEFINE f == ContractField(x, m, ref)
<1>1. f.ref = ref /\ f.id = x.id /\ f.at = x.at /\ f.size = x.size  BY DEF ContractField
<1>2. ref \in Nat /\ ref # 0  BY EventIs
<1> HIDE DEF f
<1>3. Standing(f, t, m)  BY <1>1, <1>2 DEF Standing, Placed, Located
<1> QED  BY <1>3 DEF f

(* The screen before an action that has one, and the one after.              *)
LEMMA PreviousIs ==
  ASSUME NEW t, IsTrace(t), NEW i \in Nat, \E s \in Screens(t) : s < i
  PROVE  /\ PreviousScreen(t, i) \in Screens(t) /\ PreviousScreen(t, i) < i
         /\ \A s \in Screens(t) : s < i => s <= PreviousScreen(t, i)
<1> DEFINE S == {s \in Screens(t) : s < i}
<1>1. S \in SUBSET Nat /\ S \in SUBSET Screens(t) /\ S # {} /\ IsFiniteSet(Screens(t))  BY EventIs
<1>2. PreviousScreen(t, i) = Max(S)  BY DEF PreviousScreen
<1>3. \A s : s \in S <=> s \in Screens(t) /\ s < i  OBVIOUS
<1> HIDE DEF S
<1>4. Max(S) \in S /\ \A s \in S : s <= Max(S)  BY <1>1, FS_Subset, GreatestIs
<1> QED  BY <1>2, <1>3, <1>4

LEMMA AfterIs ==
  ASSUME NEW t, IsTrace(t), NEW i \in Nat, HasScreenAfter(t, i)
  PROVE  /\ ScreenAfter(t, i) \in Screens(t) /\ ScreenAfter(t, i) > i
         /\ \A s \in Screens(t) : s > i => ScreenAfter(t, i) <= s
<1> DEFINE S == {s \in Screens(t) : s > i}
<1>1. S \in SUBSET Nat /\ S # {}  BY EventIs DEF HasScreenAfter
<1>2. ScreenAfter(t, i) = Min(S)  BY DEF ScreenAfter
<1>3. \A s : s \in S <=> s \in Screens(t) /\ s > i  OBVIOUS
<1> HIDE DEF S
<1>4. Min(S) \in S /\ \A s \in S : Min(S) <= s  BY <1>1, LeastIs
<1> QED  BY <1>2, <1>3, <1>4

LEMMA RecordedIs ==
  ASSUME NEW t, IsTrace(t)
  PROVE  /\ Recorded(t) \in SUBSET Actions(t) /\ Recorded(t) \in SUBSET Nat /\ IsFiniteSet(Recorded(t))
         /\ Ordered(RecordedActions(t), Recorded(t))
<1>1. Recorded(t) \in SUBSET Actions(t)  BY DEF Recorded
<1>2. Actions(t) \in SUBSET Nat /\ IsFiniteSet(Actions(t))  BY EventIs
<1>3. Recorded(t) \in SUBSET Nat /\ IsFiniteSet(Recorded(t))  BY <1>1, <1>2, FS_Subset
<1> QED  BY <1>1, <1>3, InOrderIs DEF RecordedActions

(* A list of fields found for a place, as fields of the contract.            *)
LEMMA FoundStand ==
  ASSUME NEW t, IsTrace(t), NEW m, NEW ref \in Screens(t),
         NEW s, Listed(s), \A k \in DOMAIN s : Located(s[k], t[ref], m, ref),
         NEW z, z = [n \in DOMAIN s |-> ContractField(s[n], m, ref)]
  PROVE  Listed(z) /\ \A k \in DOMAIN z : Standing(z[k], t, m)
<1>1. Len(s) \in Nat /\ DOMAIN s = 1..Len(s)  BY ListedDomain
<1>2. DOMAIN z = 1..Len(s) /\ z = [n \in DOMAIN z |-> z[n]]  BY <1>1
<1>3. Listed(z)  BY <1>1, <1>2, ListedMap
<1>4. \A k \in DOMAIN z : z[k] = ContractField(s[k], m, ref) /\ k \in DOMAIN s  OBVIOUS
<1> QED  BY <1>3, <1>4, ContractFieldStands

(* A concatenation of lists of standing fields.                              *)
LEMMA FlatStand ==
  ASSUME NEW t, NEW m, NEW ss, NEW n \in Nat, DOMAIN ss = 1..n, ss = [k \in DOMAIN ss |-> ss[k]],
         \A k \in DOMAIN ss : Listed(ss[k]) /\ \A j \in DOMAIN ss[k] : Standing(ss[k][j], t, m)
  PROVE  Listed(FlattenSeq(ss)) /\ \A k \in DOMAIN FlattenSeq(ss) : Standing(FlattenSeq(ss)[k], t, m)
<1>1. Listed(ss)  BY ListedMap
<1>2. /\ Listed(FlattenSeq(ss))
      /\ \A k \in DOMAIN FlattenSeq(ss) : \E i \in DOMAIN ss : \E j \in DOMAIN ss[i] : FlattenSeq(ss)[k] = ss[i][j]
  BY <1>1, ListedFlat
<1>3. \A k \in DOMAIN FlattenSeq(ss) : Standing(FlattenSeq(ss)[k], t, m)
  <2> SUFFICES ASSUME NEW k \in DOMAIN FlattenSeq(ss) PROVE Standing(FlattenSeq(ss)[k], t, m)  OBVIOUS
  <2>1. PICK i \in DOMAIN ss : \E j \in DOMAIN ss[i] : FlattenSeq(ss)[k] = ss[i][j]  BY <1>2
  <2>2. PICK j \in DOMAIN ss[i] : FlattenSeq(ss)[k] = ss[i][j]  BY <2>1
  <2> QED  BY <2>2
<1> QED  BY <1>2, <1>3

LEMMA DedupedStand ==
  ASSUME NEW t, NEW m, NEW s, Listed(s), \A k \in DOMAIN s : Standing(s[k], t, m)
  PROVE  Listed(Deduped(s)) /\ \A k \in DOMAIN Deduped(s) : Standing(Deduped(s)[k], t, m)
<1>1. Listed(Deduped(s)) /\ \A k \in DOMAIN Deduped(s) : \E p \in DOMAIN s : Deduped(s)[k] = s[p]  BY DedupedIs
<1> QED  BY <1>1

LEMMA RequestStands ==
  ASSUME NEW t, IsTrace(t), NEW m, IsMap(m)
  PROVE  Listed(RequestFields(t, m)) /\ \A k \in DOMAIN RequestFields(t, m) : Standing(RequestFields(t, m)[k], t, m)
<1> DEFINE recorded == RecordedActions(t)
           FieldOf(i, typed) ==
             FindField(t[PreviousScreen(t, i)], m, PreviousScreen(t, i), typed.id, typed.at, typed.value)
           Fields(i, j) == [n \in DOMAIN FieldOf(i, t[i].inputs[j]) |->
                              ContractField(FieldOf(i, t[i].inputs[j])[n], m, PreviousScreen(t, i))]
           Lists(i) == [j \in DOMAIN t[i].inputs |-> Fields(i, j)]
           all == [k \in DOMAIN recorded |-> FlattenSeq(Lists(recorded[k]))]
<1>1. RequestFields(t, m) = Deduped(FlattenSeq(all))  BY DEF RequestFields
<1>2. Ordered(recorded, Recorded(t)) /\ Recorded(t) \in SUBSET Actions(t) /\ Recorded(t) \in SUBSET Nat  BY RecordedIs
<1>3. Len(recorded) \in Nat /\ DOMAIN recorded = 1..Len(recorded) /\ \A k \in DOMAIN recorded : recorded[k] \in Recorded(t)
  BY <1>2 DEF Ordered
<1>4. ASSUME NEW i \in Recorded(t)
      PROVE  Listed(FlattenSeq(Lists(i))) /\ \A k \in DOMAIN FlattenSeq(Lists(i)) : Standing(FlattenSeq(Lists(i))[k], t, m)
  <2> DEFINE inputs == t[i].inputs
             ref == PreviousScreen(t, i)
  <2>1. i \in Actions(t) /\ i \in Nat /\ \E s \in Screens(t) : s < i  BY <1>2 DEF Recorded
  <2>2. inputs \in Seq(ActionInput)  BY <2>1, EventIs
  <2>3. Len(inputs) \in Nat /\ DOMAIN inputs = 1..Len(inputs) /\ \A j \in DOMAIN inputs : inputs[j].at \in Nat
    <3> HIDE DEF inputs
    <3>1. \A x \in ActionInput : x.at \in Nat  BY DEF ActionInput
    <3> QED  BY <2>2, <3>1
  <2>4. ref \in Screens(t)  BY <2>1, PreviousIs
  <2>5. t[ref].fields \in Seq(TraceField)  BY <2>4, EventIs
  <2>6. \A j \in DOMAIN inputs : Listed(Fields(i, j)) /\ \A k \in DOMAIN Fields(i, j) : Standing(Fields(i, j)[k], t, m)
    <3> SUFFICES ASSUME NEW j \in DOMAIN inputs
                 PROVE Listed(Fields(i, j)) /\ \A k \in DOMAIN Fields(i, j) : Standing(Fields(i, j)[k], t, m)
      OBVIOUS
    <3> DEFINE s == FieldOf(i, inputs[j])
               z == Fields(i, j)
    <3>1. s = FindField(t[ref], m, ref, inputs[j].id, inputs[j].at, inputs[j].value)  OBVIOUS
    <3>2. z = [n \in DOMAIN s |-> ContractField(s[n], m, ref)]  OBVIOUS
    <3>3. inputs[j].at \in Nat  BY <2>3
    <3> HIDE DEF s, z, ref, inputs
    <3>4. Listed(s) /\ \A k \in DOMAIN s : Located(s[k], t[ref], m, ref)  BY <2>5, <3>1, <3>3, FindFieldIs DEF FoundAs
    <3>5. Listed(z) /\ \A k \in DOMAIN z : Standing(z[k], t, m)  BY <2>4, <3>2, <3>4, FoundStand
    <3> QED  BY <3>5 DEF z
  <2> DEFINE ss == Lists(i)
  <2>7. DOMAIN ss = DOMAIN inputs /\ ss = [k \in DOMAIN ss |-> ss[k]]  OBVIOUS
  <2>8. \A j \in DOMAIN inputs : ss[j] = Fields(i, j)  OBVIOUS
  <2> HIDE DEF ss, inputs, Fields, FieldOf, ref
  <2>9. \A k \in DOMAIN ss : Listed(ss[k]) /\ \A j \in DOMAIN ss[k] : Standing(ss[k][j], t, m)  BY <2>6, <2>7, <2>8
  <2>10. Listed(FlattenSeq(ss)) /\ \A k \in DOMAIN FlattenSeq(ss) : Standing(FlattenSeq(ss)[k], t, m)
    BY <2>3, <2>7, <2>9, FlatStand
  <2> QED  BY <2>10 DEF ss
<1>5. DOMAIN all = 1..Len(recorded) /\ all = [k \in DOMAIN all |-> all[k]]  BY <1>3
<1>6. \A k \in DOMAIN recorded : all[k] = FlattenSeq(Lists(recorded[k]))  OBVIOUS
<1> HIDE DEF all, recorded, Lists
<1>7. \A k \in DOMAIN all : Listed(all[k]) /\ \A j \in DOMAIN all[k] : Standing(all[k][j], t, m)
  BY <1>3, <1>4, <1>5, <1>6
<1>8. Listed(FlattenSeq(all)) /\ \A k \in DOMAIN FlattenSeq(all) : Standing(FlattenSeq(all)[k], t, m)
  BY <1>3, <1>5, <1>7, FlatStand
<1> QED  BY <1>1, <1>8, DedupedStand

LEMMA ResponseStands ==
  ASSUME NEW t, IsTrace(t), NEW m, IsMap(m)
  PROVE  /\ Listed(ResponseFields(t, m)) /\ \A k \in DOMAIN ResponseFields(t, m) : Standing(ResponseFields(t, m)[k], t, m)
         /\ ResponseFields(t, m) = <<>> \/ \E s : Listed(s) /\ ResponseFields(t, m) = Deduped(s)
<1> DEFINE last == Max(Screens(t))
           P == {k \in DOMAIN m.entries : m.entries[k].role \in {"output", "input_output", "error_message"}}
           outputs == Those(m.entries, P)
           Ref(e) == IF e.ref = 0 THEN last ELSE e.ref
           FieldOf(e) == IF Ref(e) \in Screens(t) THEN FindField(t[Ref(e)], m, Ref(e), e.id, e.at, NotGiven) ELSE <<>>
           Of(e) == [n \in DOMAIN FieldOf(e) |-> ContractField(FieldOf(e)[n], m, Ref(e))]
           all == [k \in DOMAIN outputs |-> [n \in DOMAIN FieldOf(outputs[k]) |->
                                               ContractField(FieldOf(outputs[k])[n], m, Ref(outputs[k]))]]
           mapped == FlattenSeq(all)
           protected == {f \in FieldsFor(t[last], m, last) : ~f.input /\ f.value # NotGiven}
           shown == ByPosition(protected)
           own == [k \in DOMAIN shown |-> ContractField(shown[k], m, last)]
           Good(r) == Listed(r) /\ \A k \in DOMAIN r : Standing(r[k], t, m)
           Form(r) == r = <<>> \/ \E s : Listed(s) /\ r = Deduped(s)
<1> SUFFICES Good(ResponseFields(t, m)) /\ Form(ResponseFields(t, m))  OBVIOUS
<1>1. ResponseFields(t, m) =
        IF Screens(t) = {} THEN <<>> ELSE IF mapped # <<>> THEN Deduped(mapped) ELSE Deduped(own)
  BY DEF ResponseFields
<1>2. Good(<<>>)
  <2>1. <<>> \in Seq({}) /\ DOMAIN <<>> = {}  OBVIOUS
  <2> QED  BY <2>1, ListedIs
<1>3. ASSUME Screens(t) # {} PROVE last \in Screens(t)  BY <1>3, EventIs, GreatestIs
<1>4. Good(mapped)
  <2>1. P \in SUBSET (DOMAIN m.entries) /\ Listed(m.entries)  BY DEF IsMap
  <2> HIDE DEF P
  <2>2. Listed(outputs) /\ \A k \in DOMAIN outputs : \E p \in P : outputs[k] = m.entries[p]  BY <2>1, ListedThose
  <2>3. Len(outputs) \in Nat /\ DOMAIN outputs = 1..Len(outputs)  BY <2>2, ListedDomain
  <2>4. \A k \in DOMAIN outputs : outputs[k].at \in Nat  BY <2>1, <2>2 DEF IsMap
  <2> HIDE DEF outputs
  <2>5. \A k \in DOMAIN outputs : all[k] = Of(outputs[k])  OBVIOUS
  <2>6. ASSUME NEW e, e.at \in Nat
        PROVE  Good(Of(e))
    <3> DEFINE s == FieldOf(e)
               ref == Ref(e)
               z == Of(e)
    <3>1. z = [n \in DOMAIN s |-> ContractField(s[n], m, ref)]  OBVIOUS
    <3>2. CASE ref \in Screens(t)
      <4>1. s = FindField(t[ref], m, ref, e.id, e.at, NotGiven)  BY <3>2
      <4>2. t[ref].fields \in Seq(TraceField)  BY <3>2, EventIs
      <4> HIDE DEF s, ref, z
      <4>3. Listed(s) /\ \A k \in DOMAIN s : Located(s[k], t[ref], m, ref)  BY <2>6, <4>1, <4>2, FindFieldIs DEF FoundAs
      <4>4. Listed(z) /\ \A k \in DOMAIN z : Standing(z[k], t, m)  BY <3>1, <3>2, <4>3, FoundStand
      <4> QED  BY <4>4 DEF z
    <3>3. CASE ref \notin Screens(t)
      <4>1. s = <<>>  BY <3>3
      <4>2. DOMAIN s = {}  BY <4>1
      <4> HIDE DEF s, ref
      <4>3. z = [n \in {} |-> ContractField(s[n], m, ref)]  BY <3>1, <4>2
      <4>4. z = <<>>  BY <4>3
      <4> QED  BY <1>2, <4>4 DEF z
    <3> QED  BY <3>2, <3>3
  <2>7. DOMAIN all = DOMAIN outputs /\ all = [k \in DOMAIN all |-> all[k]]  OBVIOUS
  <2> HIDE DEF all, Of, Good, FieldOf, Ref
  <2>8. \A k \in DOMAIN all : Good(all[k])  BY <2>4, <2>5, <2>6, <2>7
  <2> USE DEF Good
  <2>9. \A k \in DOMAIN all : Listed(all[k]) /\ \A j \in DOMAIN all[k] : Standing(all[k][j], t, m)  BY <2>8
  <2> QED  BY <2>3, <2>7, <2>9, FlatStand
<1>5. ASSUME Screens(t) # {} PROVE Good(own)
  <2>1. last \in Screens(t)  BY <1>3, <1>5
  <2>2. t[last].fields \in Seq(TraceField)  BY <2>1, EventIs
  <2> HIDE DEF last
  <2>3. /\ IsFiniteSet(FieldsFor(t[last], m, last))
        /\ \A f \in FieldsFor(t[last], m, last) : f.at \in Nat /\ f.at # 0 /\ f.size \in Nat /\ f.size # 0
    BY <2>2, FieldsForIs
  <2>4. protected \in SUBSET FieldsFor(t[last], m, last)  OBVIOUS
  <2> HIDE DEF protected
  <2>5. IsFiniteSet(protected) /\ \A f \in protected : f.at \in Nat  BY <2>3, <2>4, FS_Subset
  <2>6. Listed(shown) /\ \A k \in DOMAIN shown : shown[k] \in protected  BY <2>5, ByPositionIs
  <2> HIDE DEF shown
  <2>7. \A k \in DOMAIN shown : Located(shown[k], t[last], m, last)  BY <2>3, <2>4, <2>6 DEF Located
  <2>8. own = [k \in DOMAIN shown |-> ContractField(shown[k], m, last)]  OBVIOUS
  <2> HIDE DEF own
  <2> QED  BY <2>1, <2>6, <2>7, <2>8, FoundStand
<1> HIDE DEF mapped, own
<1>6. Good(Deduped(mapped))  BY <1>4, DedupedStand
<1>7. ASSUME Screens(t) # {} PROVE Good(Deduped(own))  BY <1>5, <1>7, DedupedStand
<1>8. Form(<<>>) /\ Form(Deduped(mapped))  BY <1>4
<1>9. ASSUME Screens(t) # {} PROVE Form(Deduped(own))  BY <1>5, <1>9
<1> HIDE DEF Good, Form
<1> QED  BY <1>1, <1>2, <1>6, <1>7, <1>8, <1>9

(* The contract of a trace: its parts.                                       *)
ExtractedFrom(c, t, m, redact) ==
  /\ {"request", "response"} \subseteq DOMAIN c
  /\ c.map = m /\ c.request = RequestFields(t, m) /\ c.response = ResponseFields(t, m)
  /\ Listed(c.request) /\ \A k \in DOMAIN c.request : Standing(c.request[k], t, m)
  /\ Listed(c.response) /\ \A k \in DOMAIN c.response : Standing(c.response[k], t, m)
  /\ Len(c.screens) = Cardinality(Screens(t)) /\ DOMAIN c.screens = 1..Len(c.screens)
  /\ \A k \in DOMAIN c.screens : /\ c.screens[k].ref \in Screens(t)
                                 /\ c.screens[k].hash = ScreenHash(t[c.screens[k].ref], m, c.screens[k].ref)
  /\ \A s \in Screens(t) : \E k \in DOMAIN c.screens : c.screens[k].ref = s
  /\ Screens(t) # {} => c.start = <<ScreenHash(t[Min(Screens(t))], m, Min(Screens(t)))>>
  /\ DOMAIN c.transitions = 1..Len(c.transitions) /\ DOMAIN c.steps = 1..Len(c.steps)
  /\ Len(c.transitions) = Cardinality(Recorded(t)) /\ Len(c.steps) = Len(c.transitions)
  /\ \A k \in DOMAIN c.steps :
       LET i == RecordedActions(t)[k]
           from == PreviousScreen(t, i)
           to == ScreenAfter(t, i)
       IN  /\ c.transitions[k].aid = t[i].aid /\ c.steps[k].aid = t[i].aid
           /\ c.steps[k].expect = ScreenHash(t[from], m, from)
           /\ c.steps[k].next = ScreenHash(t[to], m, to)
           /\ c.steps[k].inputs = StepInputs(t, i, c.request, m, redact)
  /\ c.expected = ExpectedResponse(t, c.response, m, redact)

LEMMA FirstOfAll ==
  ASSUME NEW S \in SUBSET Nat, IsFiniteSet(S), S # {}
  PROVE  InOrder(S) # <<>> /\ InOrder(S)[1] = Min(S)
<1> DEFINE s == InOrder(S)
<1>1. Ordered(s, S)  BY InOrderIs
<1> HIDE DEF s
<1>2. Min(S) \in S /\ \A n \in S : Min(S) <= n  BY LeastIs
<1> DEFINE r == RankOf(S, Min(S))
<1>3. r \in 1..Len(s) /\ s[r] = Min(S)  BY <1>1, <1>2 DEF Ordered
<1>4. Len(s) \in Nat /\ 1 \in 1..Len(s) /\ DOMAIN s = 1..Len(s)  BY <1>1, <1>3 DEF Ordered
<1>5. s[1] \in S /\ (1 < r => s[1] < s[r])  BY <1>1, <1>3, <1>4 DEF Ordered
<1>6. s[1] \in Nat /\ Min(S) \in Nat  BY <1>2, <1>5
<1> HIDE DEF r
<1>7. r = 1  BY <1>2, <1>3, <1>5, <1>6
<1>8. s # <<>>  BY <1>4
<1> QED  BY <1>3, <1>7, <1>8 DEF s

LEMMA ExtractIs ==
  ASSUME NEW t, IsTrace(t), NEW m, IsMap(m), NEW given
  PROVE  ExtractedFrom(Extract(t, m, given), t, m, given.redact)
<1> DEFINE c == Extract(t, m, given)
           refs == InOrder(Screens(t))
           recorded == RecordedActions(t)
           Hash(ref) == ScreenHash(t[ref], m, ref)
           request == RequestFields(t, m)
           redact == given.redact
           transitions == Transitions(t, request, m, redact)
<1>1. /\ c.screens = [k \in DOMAIN refs |-> [ref |-> refs[k], hash |-> Hash(refs[k])]]
      /\ c.transitions = transitions /\ c.request = request /\ c.response = ResponseFields(t, m) /\ c.map = m
      /\ c.start = IF refs = <<>> THEN <<>> ELSE <<Hash(refs[1])>>
      /\ c.steps = [k \in DOMAIN transitions |->
                      [expect |-> Hash(transitions[k].from), aid |-> transitions[k].aid,
                       inputs |-> transitions[k].inputs, next |-> transitions[k].hash]]
      /\ c.expected = ExpectedResponse(t, ResponseFields(t, m), m, redact)
      /\ {"request", "response"} \subseteq DOMAIN c
  BY DEF Extract
<1>2. Screens(t) \in SUBSET Nat /\ IsFiniteSet(Screens(t))  BY EventIs
<1>3. Ordered(refs, Screens(t))  BY <1>2, InOrderIs
<1>4. Screens(t) # {} => refs # <<>> /\ refs[1] = Min(Screens(t))  BY <1>2, FirstOfAll
<1>5. Ordered(recorded, Recorded(t))  BY RecordedIs
<1>6. /\ Listed(request) /\ \A k \in DOMAIN request : Standing(request[k], t, m)
      /\ Listed(c.response) /\ \A k \in DOMAIN c.response : Standing(c.response[k], t, m)
  BY <1>1, RequestStands, ResponseStands
<1>7. DOMAIN transitions = DOMAIN recorded
      /\ \A k \in DOMAIN recorded :
           LET i == recorded[k]
               from == PreviousScreen(t, i)
               to == ScreenAfter(t, i)
           IN  /\ transitions[k].from = from /\ transitions[k].aid = t[i].aid
               /\ transitions[k].hash = ScreenHash(t[to], m, to)
               /\ transitions[k].inputs = StepInputs(t, i, request, m, redact)
  BY DEF Transitions
<1>8. transitions = [k \in DOMAIN transitions |-> transitions[k]]  BY DEF Transitions
<1> HIDE DEF c, refs, recorded, request, transitions, redact
<1>9. DOMAIN recorded = 1..Len(recorded) /\ Len(recorded) = Cardinality(Recorded(t)) /\ Len(recorded) \in Nat
  BY <1>5 DEF Ordered
<1>10. Len(transitions) = Len(recorded) /\ DOMAIN transitions = 1..Len(recorded)  BY <1>7, <1>8, <1>9, ListedMap
<1>11. /\ DOMAIN c.steps = DOMAIN transitions
       /\ \A k \in DOMAIN transitions : /\ c.steps[k].expect = Hash(transitions[k].from)
                                        /\ c.steps[k].aid = transitions[k].aid
                                        /\ c.steps[k].inputs = transitions[k].inputs
                                        /\ c.steps[k].next = transitions[k].hash
       /\ c.steps = [k \in DOMAIN c.steps |-> c.steps[k]]
  BY <1>1
<1>12. Len(c.steps) = Len(recorded) /\ DOMAIN c.steps = 1..Len(c.steps)
  <2> DEFINE s == c.steps
  <2>1. DOMAIN s = 1..Len(recorded) /\ s = [k \in DOMAIN s |-> s[k]]  BY <1>10, <1>11
  <2> HIDE DEF s
  <2>2. Len(s) = Len(recorded)  BY <1>9, <2>1, ListedMap
  <2> QED  BY <2>1, <2>2 DEF s
<1>13. /\ Len(c.screens) = Cardinality(Screens(t)) /\ DOMAIN c.screens = 1..Len(c.screens)
       /\ \A k \in DOMAIN c.screens : /\ c.screens[k].ref \in Screens(t)
                                      /\ c.screens[k].hash = ScreenHash(t[c.screens[k].ref], m, c.screens[k].ref)
       /\ \A s \in Screens(t) : \E k \in DOMAIN c.screens : c.screens[k].ref = s
  <2> DEFINE s == c.screens
  <2>1. Len(refs) \in Nat /\ DOMAIN refs = 1..Len(refs) /\ Len(refs) = Cardinality(Screens(t))  BY <1>3 DEF Ordered
  <2>2. DOMAIN s = 1..Len(refs) /\ s = [k \in DOMAIN s |-> s[k]]  BY <1>1, <2>1
  <2>3. \A k \in DOMAIN refs : s[k].ref = refs[k] /\ s[k].hash = ScreenHash(t[refs[k]], m, refs[k])  BY <1>1
  <2> HIDE DEF s
  <2>4. Len(s) = Len(refs)  BY <2>1, <2>2, ListedMap
  <2>5. \A k \in DOMAIN refs : refs[k] \in Screens(t)  BY <1>3, <2>1 DEF Ordered
  <2>6. \A n \in Screens(t) : \E k \in DOMAIN refs : refs[k] = n  BY <1>3, <2>1 DEF Ordered
  <2>7. \A k \in DOMAIN s : s[k].ref \in Screens(t) /\ s[k].hash = ScreenHash(t[s[k].ref], m, s[k].ref)
    BY <2>1, <2>2, <2>3, <2>5
  <2>8. \A n \in Screens(t) : \E k \in DOMAIN s : s[k].ref = n  BY <2>1, <2>2, <2>3, <2>6
  <2> QED  BY <2>1, <2>2, <2>4, <2>7, <2>8 DEF s
<1>14. Screens(t) # {} => c.start = <<ScreenHash(t[Min(Screens(t))], m, Min(Screens(t)))>>  BY <1>1, <1>4
<1>15. \A k \in DOMAIN c.steps :
         LET i == recorded[k]
             from == PreviousScreen(t, i)
             to == ScreenAfter(t, i)
         IN  /\ c.transitions[k].aid = t[i].aid /\ c.steps[k].aid = t[i].aid
             /\ c.steps[k].expect = ScreenHash(t[from], m, from)
             /\ c.steps[k].next = ScreenHash(t[to], m, to)
             /\ c.steps[k].inputs = StepInputs(t, i, c.request, m, redact)
  BY <1>1, <1>7, <1>11
<1>16. ExtractedFrom(c, t, m, redact)
  BY <1>1, <1>6, <1>9, <1>10, <1>12, <1>13, <1>14, <1>15 DEF ExtractedFrom, recorded, request
<1> QED  BY <1>16 DEF c, redact

-----------------------------------------------------------------------------
(* The comparison with a newer trace.                                        *)
LEMMA ActionSeqIs ==
  ASSUME NEW t, IsTrace(t)
  PROVE  Ordered(ActionSeq(t), Actions(t))
BY EventIs, InOrderIs DEF ActionSeq

LEMMA MatchIs ==
  ASSUME NEW c, NEW t, NEW m, NEW redact, ExtractedFrom(c, t, m, redact), IsTrace(t), NEW u, NEW ref \in Screens(t)
  PROVE  \E x : Counterpart(c, u, ref) = <<x>> /\ x.ref = ref /\ x.hash = ScreenHash(t[ref], m, ref)
<1> DEFINE same == {k \in DOMAIN c.screens : c.screens[k].ref = ref}
           k == Max(same)
<1>1. Len(c.screens) \in Nat /\ DOMAIN c.screens = 1..Len(c.screens)
  BY EventIs, FS_CardinalityType DEF ExtractedFrom
<1>2. same # {} /\ same \in SUBSET (1..Len(c.screens)) /\ 1..Len(c.screens) \in SUBSET Nat  BY <1>1 DEF ExtractedFrom
<1>3. IsFiniteSet(same)
  <2> HIDE DEF same
  <2>1. IsFiniteSet(1..Len(c.screens))  BY <1>1, FS_Interval
  <2> QED  BY <1>2, <2>1, FS_Subset
<1>4. k \in same
  <2> HIDE DEF same
  <2> QED  BY <1>2, <1>3, GreatestIs
<1>5. Counterpart(c, u, ref) = <<c.screens[k]>>  BY <1>2 DEF Counterpart
<1>6. k \in DOMAIN c.screens /\ c.screens[k].ref = ref  BY <1>4
<1> HIDE DEF k
<1>7. c.screens[k].hash = ScreenHash(t[ref], m, ref)  BY <1>6 DEF ExtractedFrom
<1> QED  BY <1>5, <1>6, <1>7

LEMMA FaultsIs ==
  ASSUME NEW c, NEW case, NEW t
  PROVE  /\ ReplayFaults(c, case, t) = {} <=>
              /\ Screens(t) # {} /\ case.start = <<DriverHash(c, t, 0)>>
              /\ \A k \in DOMAIN case.steps : StepFaults(c, t, case.steps[k], k) = {}
              /\ CaseAnswered(c, case, t) /\ Len(case.steps) = Len(ActionSeq(t))
         /\ /\ Screens(t) # {} /\ case.start = <<DriverHash(c, t, 0)>>
            /\ \A k \in DOMAIN case.steps : StepFaults(c, t, case.steps[k], k) \subseteq {"input"}
            /\ Len(case.steps) = Len(ActionSeq(t))
            => ReplayFaults(c, case, t) \subseteq {"input", "response"}
<1>1. \A x : x \in ReplayFaults(c, case, t) <=>
        IF Screens(t) = {} THEN x = "no_screens"
        ELSE \/ case.start # <<DriverHash(c, t, 0)>> /\ x = "start"
             \/ x \in FaultsOfSteps(c, case, t)
             \/ ~CaseAnswered(c, case, t) /\ x = "response"
             \/ Len(case.steps) # Len(ActionSeq(t)) /\ x = "unapplied"
  BY DEF ReplayFaults
<1> DEFINE F(k) == StepFaults(c, t, case.steps[k], k)
<1>2. \A x : x \in FaultsOfSteps(c, case, t) <=> \E k \in DOMAIN case.steps : x \in F(k)  BY DEF FaultsOfSteps
<1> HIDE DEF F
<1>3. ReplayFaults(c, case, t) = {} <=>
        /\ Screens(t) # {} /\ case.start = <<DriverHash(c, t, 0)>>
        /\ \A k \in DOMAIN case.steps : F(k) = {}
        /\ CaseAnswered(c, case, t) /\ Len(case.steps) = Len(ActionSeq(t))
  <2>1. ReplayFaults(c, case, t) = {} <=> \A x : x \notin ReplayFaults(c, case, t)  OBVIOUS
  <2>2. (\A k \in DOMAIN case.steps : F(k) = {}) <=> \A x : x \notin FaultsOfSteps(c, case, t)  BY <1>2
  <2> QED  BY <1>1, <2>1, <2>2
<1>4. /\ Screens(t) # {} /\ case.start = <<DriverHash(c, t, 0)>>
      /\ \A k \in DOMAIN case.steps : F(k) \subseteq {"input"}
      /\ Len(case.steps) = Len(ActionSeq(t))
      => ReplayFaults(c, case, t) \subseteq {"input", "response"}
  BY <1>1, <1>2
<1> QED  BY <1>3, <1>4 DEF F

(* What a trace that replays a step shows there.                             *)
StepReplays(c, t, act, k) ==
  /\ CanApply(t, k) /\ t[ActionSeq(t)[k]].aid = act.aid
  /\ (k = 1 \/ CanApply(t, k - 1)) => DriverHash(c, t, k - 1) = act.expect
  /\ DriverHash(c, t, k) = act.next

LEMMA StepFaultsIs ==
  ASSUME NEW c, NEW t, NEW act, NEW k
  PROVE  /\ StepFaults(c, t, act, k) = {} <=>
              StepReplays(c, t, act, k) /\ InputsAccepted(c, t[ActionSeq(t)[k]], act.inputs)
         /\ StepReplays(c, t, act, k) => StepFaults(c, t, act, k) \subseteq {"input"}
<1> DEFINE action == t[ActionSeq(t)[k]]
           A == IF action.aid # act.aid THEN {"aid"} ELSE {}
           accepted == InputsAccepted(c, action, act.inputs)
           B == IF accepted THEN {} ELSE {"input"}
           seen == (k = 1 \/ CanApply(t, k - 1)) => DriverHash(c, t, k - 1) = act.expect
           C == IF (k = 1 \/ CanApply(t, k - 1)) /\ DriverHash(c, t, k - 1) # act.expect THEN {"screen"} ELSE {}
           D == IF DriverHash(c, t, k) # act.next THEN {"next_screen"} ELSE {}
<1>1. StepFaults(c, t, act, k) = IF ~CanApply(t, k) THEN {"no_action_or_screen"} ELSE A \cup B \cup C \cup D
  BY DEF StepFaults
<1>2. A = {} <=> action.aid = act.aid  OBVIOUS
<1>3. (B = {} <=> accepted) /\ B \subseteq {"input"}
  <2> HIDE DEF accepted
  <2> QED  OBVIOUS
<1>4. C = {} <=> seen
  <2> DEFINE p == k = 1 \/ CanApply(t, k - 1)
             q == DriverHash(c, t, k - 1) = act.expect
  <2> HIDE DEF p, q
  <2>1. (IF p /\ ~q THEN {"screen"} ELSE {}) = {} <=> (p => q)  OBVIOUS
  <2> QED  BY <2>1 DEF p, q
<1>5. D = {} <=> DriverHash(c, t, k) = act.next  OBVIOUS
<1> HIDE DEF A, B, C, D
<1>6. A \cup B \cup C \cup D = {} <=> A = {} /\ B = {} /\ C = {} /\ D = {}  OBVIOUS
<1>7. A = {} /\ B \subseteq {"input"} /\ C = {} /\ D = {} => A \cup B \cup C \cup D \subseteq {"input"}  OBVIOUS
<1>8. StepReplays(c, t, act, k) <=> CanApply(t, k) /\ A = {} /\ C = {} /\ D = {}
  BY <1>2, <1>4, <1>5 DEF StepReplays
<1> HIDE DEF accepted, seen
<1>9. StepFaults(c, t, act, k) = {} <=> CanApply(t, k) /\ A = {} /\ B = {} /\ C = {} /\ D = {}  BY <1>1, <1>6
<1> QED  BY <1>1, <1>3, <1>7, <1>8, <1>9 DEF accepted

LEMMA ReplayedWhole ==
  ASSUME NEW c, NEW t, NEW m, NEW redact, ExtractedFrom(c, t, m, redact), IsTrace(t), ReplayFaults(c, c, t) = {}
  PROVE  Screens(t) # {} /\ Recorded(t) = Actions(t) /\ RecordedActions(t) = ActionSeq(t)
<1>2. Screens(t) # {} /\ Len(c.steps) = Len(ActionSeq(t))  BY FaultsIs
<1>3. Cardinality(Recorded(t)) = Cardinality(Actions(t))  BY <1>2, ActionSeqIs DEF ExtractedFrom, Ordered
<1>4. Recorded(t) = Actions(t)  BY <1>3, RecordedIs, EventIs, FS_Subset
<1> QED  BY <1>2, <1>4 DEF RecordedActions, ActionSeq

(* A field of the screen is one that is hashed and searched.                 *)
LEMMA OwnField ==
  ASSUME NEW screen, NEW m, NEW ref, NEW n \in DOMAIN screen.fields
  PROVE  \E g \in FieldsFor(screen, m, ref) : /\ g.id = screen.fields[n].id /\ g.at = screen.fields[n].at
                                             /\ g.size = screen.fields[n].size
<1> DEFINE f == screen.fields[n]
           g == [id |-> f.id, at |-> f.at, size |-> f.size, label |-> f.label, input |-> f.input,
                 value |-> ShownAt(screen, f.at)]
<1>1. f \in ToSet(screen.fields)  BY DEF ToSet
<1>2. g.id = f.id /\ g.at = f.at /\ g.size = f.size  OBVIOUS
<1>3. g \in FieldsFor(screen, m, ref)
  <2> HIDE DEF f
  <2> QED  BY <1>1 DEF FieldsFor
<1> HIDE DEF g
<1> QED  BY <1>2, <1>3

(* No field of the contract has moved on the screen it is from.              *)
LEMMA NotMoved ==
  ASSUME NEW c, NEW t, NEW m, NEW redact, ExtractedFrom(c, t, m, redact), IsTrace(t), ~TwoPlaces(t, m), NEW ref \in Screens(t)
  PROVE  ~Moved(c, t[ref], ref)
<1> DEFINE fields == c.request \o c.response
<1>1. \A k \in DOMAIN fields : Standing(fields[k], t, m)
  <2> DEFINE a == c.request
             b == c.response
             A == ToSet(a)
             B == ToSet(b)
  <2>1. a \in Seq(A) /\ b \in Seq(B)  BY DEF ExtractedFrom, Listed
  <2>2. (\A k \in DOMAIN a : Standing(a[k], t, m)) /\ \A k \in DOMAIN b : Standing(b[k], t, m)  BY DEF ExtractedFrom
  <2> HIDE DEF a, b, A, B
  <2>3. \A k \in DOMAIN (a \o b) : \/ k \in DOMAIN a /\ (a \o b)[k] = a[k]
                                   \/ k - Len(a) \in DOMAIN b /\ (a \o b)[k] = b[k - Len(a)]
    BY <2>1
  <2> QED  BY <2>2, <2>3 DEF a, b
<1> SUFFICES ASSUME NEW k \in DOMAIN fields, NEW n \in DOMAIN t[ref].fields,
                    fields[k].ref = ref, t[ref].fields[n].id = fields[k].id,
                    <<t[ref].fields[n].at, t[ref].fields[n].size>> # <<fields[k].at, fields[k].size>>
             PROVE  FALSE
  BY DEF Moved
<1> DEFINE f == fields[k]
           g == t[ref].fields[n]
<1>2. Standing(f, t, m)  BY <1>1
<1>3. PICK h \in FieldsFor(t[ref], m, ref) : h.id = g.id /\ h.at = g.at /\ h.size = g.size  BY OwnField
<1>4. g.id # NotGiven
  <2>1. t[ref].fields \in Seq(TraceField)  BY EventIs
  <2> DEFINE s == t[ref].fields
  <2>2. s[n] \in TraceField
    <3>1. s \in Seq(TraceField) /\ n \in DOMAIN s  BY <2>1
    <3> HIDE DEF s
    <3> QED  BY <3>1
  <2> QED  BY <2>2, TraceFieldIs
<1> HIDE DEF fields
<1>5. CASE \E x \in FieldsFor(t[f.ref], m, f.ref) : x.id = f.id /\ x.at = f.at /\ x.size = f.size
  <2>1. PICK x \in FieldsFor(t[ref], m, ref) : x.id = f.id /\ x.at = f.at /\ x.size = f.size  BY <1>5
  <2>2. x.id = h.id /\ x.id # NotGiven /\ <<x.at, x.size>> # <<h.at, h.size>>  BY <1>3, <1>4, <2>1
  <2> QED  BY <2>2 DEF TwoPlaces
<1>6. CASE \A x \in FieldsFor(t[f.ref], m, f.ref) : ~Names(x, f.id, f.at)
  <2>1. Names(h, f.id, f.at)  BY <1>3, <1>4 DEF Names
  <2> QED  BY <1>6, <2>1
<1> QED  BY <1>2, <1>5, <1>6 DEF Standing

LEMMA OwnChanges ==
  ASSUME NEW c, NEW t, NEW m, NEW redact, ExtractedFrom(c, t, m, redact), IsTrace(t), ReplayFaults(c, c, t) = {}, ~TwoPlaces(t, m)
  PROVE  Changes(c, t, m) = {}
<1>1. Cardinality(Screens(t)) = Len(c.screens)  BY DEF ExtractedFrom
<1>2. \A ref \in Screens(t) : ScreenChanges(c, t, m, ref) = {}
  <2> SUFFICES ASSUME NEW ref \in Screens(t) PROVE ScreenChanges(c, t, m, ref) = {}  OBVIOUS
  <2>1. PICK x : Counterpart(c, t, ref) = <<x>> /\ x.ref = ref /\ x.hash = ScreenHash(t[ref], m, ref)  BY MatchIs
  <2>2. <<x>> # <<>> /\ Head(<<x>>) = x  OBVIOUS
  <2>3. ~Moved(c, t[ref], ref)  BY NotMoved
  <2> QED  BY <2>1, <2>2, <2>3 DEF ScreenChanges
<1>3. RecordedActions(t) = ActionSeq(t)  BY ReplayedWhole
<1>4. Ordered(ActionSeq(t), Actions(t))  BY ActionSeqIs
<1>5. DOMAIN ActionSeq(t) = DOMAIN c.transitions /\ DOMAIN c.transitions = DOMAIN c.steps
  BY <1>3, <1>4, RecordedIs DEF ExtractedFrom, Ordered
<1>6. \A k \in DOMAIN c.transitions : c.transitions[k].aid = t[ActionSeq(t)[k]].aid  BY <1>3, <1>5 DEF ExtractedFrom
<1>7. [k \in DOMAIN ActionSeq(t) |-> t[ActionSeq(t)[k]].aid] = [k \in DOMAIN c.transitions |-> c.transitions[k].aid]
  BY <1>5, <1>6
<1>8. AllScreenChanges(c, t, m) = {}  BY <1>2 DEF AllScreenChanges
<1> QED  BY <1>1, <1>7, <1>8 DEF Changes

LEMMA ChangesIs ==
  ASSUME NEW c, NEW u, NEW m, Changes(c, u, m) = {}
  PROVE  /\ \A ref \in Screens(u) : ScreenChanges(c, u, m, ref) = {}
         /\ [k \in DOMAIN ActionSeq(u) |-> u[ActionSeq(u)[k]].aid]
              = [k \in DOMAIN c.transitions |-> c.transitions[k].aid]
<1>1. \A x : /\ x \in AllScreenChanges(c, u, m) => x \in Changes(c, u, m)
             /\ [k \in DOMAIN ActionSeq(u) |-> u[ActionSeq(u)[k]].aid]
                   # [k \in DOMAIN c.transitions |-> c.transitions[k].aid]
                 => "replay_path_changed" \in Changes(c, u, m)
  BY DEF Changes
<1>2. \A x : x \notin Changes(c, u, m)  OBVIOUS
<1> DEFINE F(ref) == ScreenChanges(c, u, m, ref)
<1>3. \A ref \in Screens(u) : \A x \in F(ref) : x \in AllScreenChanges(c, u, m)  BY DEF AllScreenChanges
<1> HIDE DEF F
<1>4. \A ref \in Screens(u) : F(ref) = {}  BY <1>1, <1>2, <1>3
<1>5. [k \in DOMAIN ActionSeq(u) |-> u[ActionSeq(u)[k]].aid]
        = [k \in DOMAIN c.transitions |-> c.transitions[k].aid]
  BY <1>1, <1>2
<1> QED  BY <1>4, <1>5 DEF F

(* What a newer trace of the same shape shows to the driver when nothing has *)
(* changed is what the trace of the contract shows.                          *)
LEMMA UnchangedReplays ==
  ASSUME NEW c, NEW t, NEW m, NEW redact, ExtractedFrom(c, t, m, redact), IsTrace(t), ReplayFaults(c, c, t) = {},
         NEW u, IsTrace(u), SameShape(u, t), Changes(c, u, m) = {}
  PROVE  ReplayFaults(c, c, u) \subseteq {"input", "response"}
<1> DEFINE s == ActionSeq(t)
<1>1. DOMAIN u = DOMAIN t /\ \A i \in DOMAIN t : u[i].type = t[i].type
  <2> DEFINE a == [i \in DOMAIN u |-> u[i].type]
             b == [i \in DOMAIN t |-> t[i].type]
  <2>1. a = b  BY DEF SameShape
  <2>2. DOMAIN a = DOMAIN u /\ DOMAIN b = DOMAIN t /\ (\A i \in DOMAIN u : a[i] = u[i].type) /\ \A i \in DOMAIN t : b[i] = t[i].type
    OBVIOUS
  <2> HIDE DEF a, b
  <2> QED  BY <2>1, <2>2
<1>2. Screens(u) = Screens(t) /\ Actions(u) = Actions(t)  BY <1>1 DEF Screens, Actions
<1>3. ActionSeq(u) = s /\ RecordedActions(t) = s /\ Screens(t) # {}  BY <1>2, ReplayedWhole DEF ActionSeq
<1>4. \A ref \in Screens(t) : ScreenHash(u[ref], m, ref) = ScreenHash(t[ref], m, ref)
  <2> SUFFICES ASSUME NEW ref \in Screens(t) PROVE ScreenHash(u[ref], m, ref) = ScreenHash(t[ref], m, ref)  OBVIOUS
  <2>1. PICK x : Counterpart(c, u, ref) = <<x>> /\ x.ref = ref /\ x.hash = ScreenHash(t[ref], m, ref)  BY MatchIs
  <2>2. <<x>> # <<>> /\ Head(<<x>>) = x  OBVIOUS
  <2>3. ScreenChanges(c, u, m, ref) = {}  BY <1>2, ChangesIs
  <2> DEFINE now == ScreenHash(u[ref], m, ref)
             then == ScreenHash(t[ref], m, ref)
  <2>4. (CASE now.layout # then.layout -> {"layout_changed"}
           [] now.text # then.text -> {"labels_changed"}
           [] OTHER -> {}) = {}
    BY <2>1, <2>2, <2>3 DEF ScreenChanges
  <2>5. now = [text |-> now.text, layout |-> now.layout] /\ then = [text |-> then.text, layout |-> then.layout]
    BY DEF ScreenHash
  <2> HIDE DEF now, then
  <2>6. now.layout = then.layout /\ now.text = then.text  BY <2>4
  <2>7. now = then  BY <2>5, <2>6
  <2> QED  BY <2>7 DEF now, then
<1>5. Ordered(s, Actions(t))  BY ActionSeqIs
<1>6. Len(s) \in Nat /\ DOMAIN s = 1..Len(s) /\ \A k \in DOMAIN s : s[k] \in Actions(t) /\ s[k] \in Nat
  BY <1>5, EventIs DEF Ordered
<1>7. DOMAIN c.steps = DOMAIN s /\ DOMAIN c.transitions = DOMAIN s /\ Len(c.steps) = Len(s)
  BY <1>3, <1>5, RecordedIs DEF ExtractedFrom, Ordered
<1>8. \A k : CanApply(u, k) <=> CanApply(t, k)  BY <1>2, <1>3 DEF CanApply, HasScreenAfter
<1>9. \A k : DriverAt(u, k) = DriverAt(t, k)  BY <1>2, <1>3 DEF DriverAt, ScreenAfter
<1>10. \A k \in Nat : k = 0 \/ (k >= 1 /\ CanApply(t, k)) => DriverHash(c, u, k) = DriverHash(c, t, k)
  <2> SUFFICES ASSUME NEW k \in Nat, k = 0 \/ (k >= 1 /\ CanApply(t, k))
               PROVE DriverHash(c, u, k) = DriverHash(c, t, k)
    OBVIOUS
  <2>1. DriverAt(t, k) \in Screens(t)
    <3>1. CASE k = 0
      <4>1. Min(Screens(t)) \in Screens(t)  BY <1>3, EventIs, LeastIs
      <4> QED  BY <3>1, <4>1 DEF DriverAt
    <3>2. CASE k >= 1 /\ CanApply(t, k)
      <4>1. k \in DOMAIN s /\ HasScreenAfter(t, s[k]) /\ k # 0  BY <1>6, <3>2 DEF CanApply
      <4>2. ScreenAfter(t, s[k]) \in Screens(t)  BY <1>6, <4>1, AfterIs
      <4> QED  BY <4>1, <4>2 DEF DriverAt
    <3> QED  BY <3>1, <3>2
  <2>2. c.map = m  BY DEF ExtractedFrom
  <2> QED  BY <1>4, <1>9, <2>1, <2>2 DEF DriverHash
<1>11. \A k \in DOMAIN s : u[s[k]].aid = c.steps[k].aid
  <2> DEFINE a == [k \in DOMAIN ActionSeq(u) |-> u[ActionSeq(u)[k]].aid]
             b == [k \in DOMAIN c.transitions |-> c.transitions[k].aid]
  <2>1. a = b  BY ChangesIs
  <2>2. (\A k \in DOMAIN s : a[k] = u[s[k]].aid) /\ \A k \in DOMAIN s : b[k] = c.transitions[k].aid  BY <1>3, <1>7
  <2> HIDE DEF a, b
  <2>3. \A k \in DOMAIN s : c.transitions[k].aid = c.steps[k].aid  BY <1>7 DEF ExtractedFrom
  <2> QED  BY <2>1, <2>2, <2>3
<1>12. c.start = <<DriverHash(c, t, 0)>> /\ \A k \in DOMAIN c.steps : StepFaults(c, t, c.steps[k], k) = {}  BY FaultsIs
<1>13. \A k \in DOMAIN c.steps : StepFaults(c, u, c.steps[k], k) \subseteq {"input"}
  <2> SUFFICES ASSUME NEW k \in DOMAIN c.steps PROVE StepFaults(c, u, c.steps[k], k) \subseteq {"input"}  OBVIOUS
  <2> DEFINE act == c.steps[k]
  <2>1. k \in DOMAIN s /\ k \in Nat /\ k >= 1 /\ k - 1 \in Nat /\ (k - 1 = 0 \/ k - 1 >= 1) /\ (k # 1 => k - 1 >= 1)  BY <1>6, <1>7
  <2>2. StepReplays(c, t, act, k)  BY <1>12, StepFaultsIs
  <2>3. DriverHash(c, u, k) = act.next  BY <1>10, <2>1, <2>2 DEF StepReplays
  <2>4. ASSUME k = 1 \/ CanApply(u, k - 1) PROVE DriverHash(c, u, k - 1) = act.expect
    <3>1. k = 1 \/ CanApply(t, k - 1)  BY <1>8, <2>4
    <3>2. k - 1 = 0 \/ (k - 1 >= 1 /\ CanApply(t, k - 1))  BY <2>1, <3>1
    <3>3. DriverHash(c, u, k - 1) = DriverHash(c, t, k - 1)  BY <1>10, <2>1, <3>2
    <3> QED  BY <2>2, <3>1, <3>3 DEF StepReplays
  <2>5. u[ActionSeq(u)[k]].aid = act.aid  BY <1>3, <1>11, <2>1
  <2>6. CanApply(u, k)  BY <1>8, <2>2 DEF StepReplays
  <2> HIDE DEF act
  <2>7. StepReplays(c, u, act, k)  BY <2>3, <2>4, <2>5, <2>6 DEF StepReplays
  <2> QED  BY <2>7, StepFaultsIs DEF act
<1>14. c.start = <<DriverHash(c, u, 0)>>
  <2>1. 0 \in Nat /\ 0 = 0  OBVIOUS
  <2>2. DriverHash(c, u, 0) = DriverHash(c, t, 0)  BY <1>10, <2>1
  <2> QED  BY <1>12, <2>2
<1>15. Len(c.steps) = Len(ActionSeq(u)) /\ Screens(u) # {}  BY <1>2, <1>3, <1>7
<1> HIDE DEF s
<1> QED  BY <1>13, <1>14, <1>15, FaultsIs

-----------------------------------------------------------------------------
(* The map the driver reads values with.                                     *)
Joins(s, a, b) == s = a \o b

LEMMA ConcatIs ==
  ASSUME NEW a, Listed(a), NEW b, Listed(b), NEW s, Joins(s, a, b)
  PROVE  /\ Listed(s)
         /\ \A k \in DOMAIN s : (\E j \in DOMAIN a : s[k] = a[j]) \/ \E j \in DOMAIN b : s[k] = b[j]
         /\ \A j \in DOMAIN a : j \in DOMAIN s /\ s[j] = a[j]
         /\ \A j \in DOMAIN b : \E k \in DOMAIN s : s[k] = b[j]
<1> DEFINE A == ToSet(a)
           B == ToSet(b)
           T == A \cup B
<1>1. a \in Seq(A) /\ b \in Seq(B)  BY DEF Listed
<1> HIDE DEF A, B
<1>2. a \in Seq(T) /\ b \in Seq(T)
  <2>1. A \subseteq T /\ B \subseteq T  OBVIOUS
  <2> HIDE DEF T
  <2>2. Len(a) \in Nat /\ Len(b) \in Nat /\ a \in [1..Len(a) -> T] /\ b \in [1..Len(b) -> T]  BY <1>1, <2>1
  <2> QED  BY <2>2
<1> HIDE DEF T
<1>3. /\ s \in Seq(T) /\ Len(s) = Len(a) + Len(b) /\ DOMAIN s = 1..(Len(a) + Len(b))
      /\ \A k \in DOMAIN s : s[k] = IF k <= Len(a) THEN a[k] ELSE b[k - Len(a)]
  <2>1. a \o b \in Seq(T) /\ Len(a \o b) = Len(a) + Len(b) /\ DOMAIN (a \o b) = 1..(Len(a) + Len(b))
        /\ \A k \in DOMAIN (a \o b) : (a \o b)[k] = IF k <= Len(a) THEN a[k] ELSE b[k - Len(a)]
    BY <1>2
  <2> QED  BY <2>1 DEF Joins
<1>4. Len(a) \in Nat /\ Len(b) \in Nat /\ DOMAIN a = 1..Len(a) /\ DOMAIN b = 1..Len(b)  BY <1>2
<1>5. Listed(s)  BY <1>3, ListedIs
<1>6. \A k \in DOMAIN s : k \in DOMAIN a \/ k - Len(a) \in DOMAIN b  BY <1>3, <1>4
<1>7. \A k \in DOMAIN s : (\E j \in DOMAIN a : s[k] = a[j]) \/ \E j \in DOMAIN b : s[k] = b[j]
  <2> SUFFICES ASSUME NEW k \in DOMAIN s PROVE (\E j \in DOMAIN a : s[k] = a[j]) \/ \E j \in DOMAIN b : s[k] = b[j]
    OBVIOUS
  <2>1. CASE k <= Len(a)
    <3>1. k \in DOMAIN a /\ s[k] = a[k]  BY <1>3, <1>4, <2>1
    <3> QED  BY <3>1
  <2>2. CASE ~(k <= Len(a))
    <3>1. k - Len(a) \in DOMAIN b /\ s[k] = b[k - Len(a)]  BY <1>3, <1>4, <2>2
    <3> QED  BY <3>1
  <2> QED  BY <2>1, <2>2
<1>8. \A j \in DOMAIN a : j \in DOMAIN s /\ s[j] = a[j]  BY <1>3, <1>4
<1>9. \A j \in DOMAIN b : j + Len(a) \in DOMAIN s /\ s[j + Len(a)] = b[j]
  <2> SUFFICES ASSUME NEW j \in DOMAIN b PROVE j + Len(a) \in DOMAIN s /\ s[j + Len(a)] = b[j]  OBVIOUS
  <2>1. j \in Nat /\ 1 <= j /\ j <= Len(b)  BY <1>4
  <2>2. j + Len(a) \in DOMAIN s /\ ~(j + Len(a) <= Len(a)) /\ j + Len(a) - Len(a) = j  BY <1>3, <1>4, <2>1
  <2> QED  BY <1>3, <2>2
<1>10. \A j \in DOMAIN b : \E k \in DOMAIN s : s[k] = b[j]  BY <1>9
<1> QED  BY <1>5, <1>7, <1>8, <1>10

(* A map has a sized entry, for a screen, of an id and a place.              *)
HasEntry(m, ref, id, at) == \E k \in EntriesFor(m, ref) : Sized(m.entries[k]) /\ m.entries[k].id = id /\ m.entries[k].at = at

(* A place of a screen where it or the map has a field that is named so.     *)
Reaches(screen, m, ref, id, at, a) == \E g \in FieldsFor(screen, m, ref) : g.at = a /\ Names(g, id, at)

(* An id at a place: of the screen's own fields or of the map.               *)
LEMMA HasIs ==
  ASSUME NEW screen, NEW m, NEW ref, NEW id, NEW at
  PROVE  (\E g \in FieldsFor(screen, m, ref) : g.id = id /\ g.at = at) <=>
           (\E f \in ToSet(screen.fields) : f.id = id /\ f.at = at) \/ HasEntry(m, ref, id, at)
<1> DEFINE own == ToSet(screen.fields)
           added == MapOnly(screen, m, ref)
           New(f) == [id |-> f.id, at |-> f.at, size |-> f.size, label |-> f.label, input |-> f.input,
                      value |-> ShownAt(screen, f.at)]
           NewOf(e) == [id |-> e.id, at |-> e.at, size |-> e.size, label |-> e.name, input |-> IsInput(e),
                        value |-> ShownAt(screen, e.at)]
<1>1. \A g : g \in FieldsFor(screen, m, ref) <=> (\E f \in own : g = New(f)) \/ \E e \in added : g = NewOf(e)
  BY DEF FieldsFor
<1>2. \A f : New(f).id = f.id /\ New(f).at = f.at  OBVIOUS
<1>3. \A e : NewOf(e).id = e.id /\ NewOf(e).at = e.at  OBVIOUS
<1>4. \A e : e \in added <=> /\ \E k \in EntriesFor(m, ref) : e = m.entries[k]
                             /\ Sized(e) /\ \A f \in own : f.id # e.id \/ f.at # e.at
  BY DEF MapOnly, SizedEntries
<1> HIDE DEF own, added, New, NewOf
<1>5. (\E g \in FieldsFor(screen, m, ref) : g.id = id /\ g.at = at) <=>
        (\E f \in own : f.id = id /\ f.at = at) \/ \E e \in added : e.id = id /\ e.at = at
  BY <1>1, <1>2, <1>3
<1>6. (\E f \in own : f.id = id /\ f.at = at) \/ (\E e \in added : e.id = id /\ e.at = at)
        <=> (\E f \in own : f.id = id /\ f.at = at) \/ HasEntry(m, ref, id, at)
  BY <1>4 DEF HasEntry
<1> QED  BY <1>5, <1>6 DEF own

(* The fields a driver adds to the map.                                      *)
PlacesOf(m) == {<<m.entries[k].ref, m.entries[k].at>> : k \in DOMAIN m.entries}

FieldsOf(c) == c.request \o c.response

Added(c) ==
  {k \in DOMAIN FieldsOf(c) :
     /\ <<FieldsOf(c)[k].ref, FieldsOf(c)[k].at>> \notin PlacesOf(c.map)
     /\ \A j \in 1..(k - 1) : <<FieldsOf(c)[j].ref, FieldsOf(c)[j].at>> # <<FieldsOf(c)[k].ref, FieldsOf(c)[k].at>>}

(* A contract whose fields have a screen, a place and a size.                *)
PlacedFields(c) ==
  /\ Listed(c.request) /\ Listed(c.response)
  /\ \A k \in DOMAIN c.request : Placed(c.request[k])
  /\ \A k \in DOMAIN c.response : Placed(c.response[k])

LEMMA FieldsOfIs ==
  ASSUME NEW c, PlacedFields(c)
  PROVE  /\ Listed(FieldsOf(c)) /\ \A k \in DOMAIN FieldsOf(c) : Placed(FieldsOf(c)[k])
         /\ \A k \in DOMAIN c.request : \E j \in DOMAIN FieldsOf(c) : FieldsOf(c)[j] = c.request[k]
         /\ \A k \in DOMAIN c.response : \E j \in DOMAIN FieldsOf(c) : FieldsOf(c)[j] = c.response[k]
         /\ \A j \in DOMAIN FieldsOf(c) : \/ \E k \in DOMAIN c.request : FieldsOf(c)[j] = c.request[k]
                                          \/ \E k \in DOMAIN c.response : FieldsOf(c)[j] = c.response[k]
<1> DEFINE a == c.request
           b == c.response
<1>1. /\ Listed(a) /\ Listed(b)
      /\ \A k \in DOMAIN a : Placed(a[k])
      /\ \A k \in DOMAIN b : Placed(b[k])
  BY DEF PlacedFields
<1> HIDE DEF a, b
<1> DEFINE s == a \o b
<1>2. Joins(s, a, b)  BY DEF Joins
<1> HIDE DEF s
<1>3. /\ Listed(s)
      /\ \A k \in DOMAIN s : (\E j \in DOMAIN a : s[k] = a[j]) \/ \E j \in DOMAIN b : s[k] = b[j]
      /\ \A j \in DOMAIN a : j \in DOMAIN s /\ s[j] = a[j]
      /\ \A j \in DOMAIN b : \E k \in DOMAIN s : s[k] = b[j]
  BY <1>1, <1>2, ConcatIs
<1>4. \A k \in DOMAIN s : Placed(s[k])  BY <1>1, <1>3
<1>5. \A k \in DOMAIN a : \E j \in DOMAIN s : s[j] = a[k]  BY <1>3
<1> QED  BY <1>3, <1>4, <1>5 DEF a, b, s, FieldsOf

(* Each place of the contract that the map has not is added.                 *)
LEMMA AddedIs ==
  ASSUME NEW c, PlacedFields(c), NEW k \in DOMAIN FieldsOf(c),
         <<FieldsOf(c)[k].ref, FieldsOf(c)[k].at>> \notin PlacesOf(c.map)
  PROVE  \E j \in Added(c) : FieldsOf(c)[j].ref = FieldsOf(c)[k].ref /\ FieldsOf(c)[j].at = FieldsOf(c)[k].at
<1> DEFINE fields == FieldsOf(c)
           S == {j \in DOMAIN fields : <<fields[j].ref, fields[j].at>> = <<fields[k].ref, fields[k].at>>}
<1>1. DOMAIN fields = 1..Len(fields) /\ Len(fields) \in Nat  BY FieldsOfIs, ListedDomain
<1> HIDE DEF fields
<1>2. S \in SUBSET Nat /\ k \in S  BY <1>1 DEF fields
<1>3. PICK j \in S : \A i \in S : j <= i
  <2> HIDE DEF S
  <2> QED  BY <1>2, LeastNat
<1>4. \A i \in 1..(j - 1) : i \in DOMAIN fields /\ ~(j <= i)  BY <1>1, <1>3
<1>5. \A i \in 1..(j - 1) : <<fields[i].ref, fields[i].at>> # <<fields[j].ref, fields[j].at>>  BY <1>3, <1>4
<1>6. j \in Added(c)  BY <1>3, <1>5 DEF Added, fields
<1>7. fields[j].ref = fields[k].ref /\ fields[j].at = fields[k].at  BY <1>3
<1> QED  BY <1>6, <1>7 DEF fields

LEMMA DriverEntries ==
  ASSUME NEW c, PlacedFields(c), IsMap(c.map), NEW ref \in Nat, ref # 0
  PROVE  /\ IsMap(DriverMap(c))
         /\ \A id, at : HasEntry(DriverMap(c), ref, id, at) <=>
              \/ HasEntry(c.map, ref, id, at)
              \/ \E k \in Added(c) : FieldsOf(c)[k].ref = ref /\ FieldsOf(c)[k].id = id /\ FieldsOf(c)[k].at = at
<1> DEFINE fields == FieldsOf(c)
           old == c.map.entries
           entries == [k \in DOMAIN fields |->
                        [ref |-> fields[k].ref, id |-> fields[k].id, at |-> fields[k].at, size |-> fields[k].size,
                         name |-> fields[k].name, role |-> "output", cases |-> {}, sensitive |-> "unset",
                         optional |-> FALSE, notRequired |-> FALSE]]
           new == Those(entries, Added(c))
           all == old \o new
<1>1. DriverMap(c) = [c.map EXCEPT !.entries = @ \o new]  BY DEF DriverMap, FieldsOf, Added, PlacesOf
<1>2. DriverMap(c).entries = all /\ "entries" \in DOMAIN DriverMap(c)  BY <1>1 DEF IsMap
<1>3. Listed(old) /\ \A k \in DOMAIN old : old[k].at \in Nat /\ old[k].size \in Nat  BY DEF IsMap
<1>4. Len(fields) \in Nat /\ DOMAIN fields = 1..Len(fields) /\ \A k \in DOMAIN fields : Placed(fields[k])
  BY FieldsOfIs, ListedDomain
<1>5. DOMAIN entries = DOMAIN fields /\ entries = [k \in DOMAIN entries |-> entries[k]]  OBVIOUS
<1>6. \A k \in DOMAIN fields : /\ entries[k].ref = fields[k].ref /\ entries[k].id = fields[k].id
                               /\ entries[k].at = fields[k].at /\ entries[k].size = fields[k].size
  OBVIOUS
<1>7. Added(c) \in SUBSET (DOMAIN entries)  BY DEF Added
<1> HIDE DEF entries, fields
<1>8. Listed(entries)  BY <1>4, <1>5, ListedMap
<1>9. /\ Listed(new) /\ \A k \in DOMAIN new : \E p \in Added(c) : new[k] = entries[p]
      /\ \A p \in Added(c) : \E k \in DOMAIN new : new[k] = entries[p]
  BY <1>7, <1>8, ListedThose
<1> HIDE DEF new, old
<1>15. Joins(all, old, new)  BY DEF Joins
<1> HIDE DEF all
<1>10. /\ Listed(all)
       /\ \A k \in DOMAIN all : (\E j \in DOMAIN old : all[k] = old[j]) \/ \E j \in DOMAIN new : all[k] = new[j]
       /\ \A j \in DOMAIN old : j \in DOMAIN all /\ all[j] = old[j]
       /\ \A j \in DOMAIN new : \E k \in DOMAIN all : all[k] = new[j]
  BY <1>3, <1>9, <1>15, ConcatIs
<1>11. \A p \in Added(c) : p \in DOMAIN fields /\ Sized(entries[p]) /\ entries[p].ref # 0
                            /\ entries[p].at \in Nat /\ entries[p].size \in Nat
  BY <1>4, <1>5, <1>6, <1>7 DEF Placed, Sized
<1>12. \A k \in DOMAIN all : all[k].at \in Nat /\ all[k].size \in Nat
  <2> SUFFICES ASSUME NEW k \in DOMAIN all PROVE all[k].at \in Nat /\ all[k].size \in Nat  OBVIOUS
  <2>1. CASE \E j \in DOMAIN old : all[k] = old[j]  BY <1>3, <2>1
  <2>2. CASE \E j \in DOMAIN new : all[k] = new[j]
    <3>1. PICK j \in DOMAIN new : all[k] = new[j]  BY <2>2
    <3>2. PICK p \in Added(c) : new[j] = entries[p]  BY <1>9
    <3> QED  BY <1>11, <3>1, <3>2
  <2> QED  BY <1>10, <2>1, <2>2
<1>13. IsMap(DriverMap(c))  BY <1>2, <1>10, <1>12 DEF IsMap
<1>14. ASSUME NEW id, NEW at
       PROVE  HasEntry(DriverMap(c), ref, id, at) <=>
                \/ HasEntry(c.map, ref, id, at)
                \/ \E k \in Added(c) : fields[k].ref = ref /\ fields[k].id = id /\ fields[k].at = at
  <2> DEFINE Is(e) == e.ref \in {ref, 0} /\ Sized(e) /\ e.id = id /\ e.at = at
  <2>1. HasEntry(DriverMap(c), ref, id, at) <=> \E k \in DOMAIN all : Is(all[k])  BY <1>2 DEF HasEntry, EntriesFor
  <2>2. HasEntry(c.map, ref, id, at) <=> \E k \in DOMAIN old : Is(old[k])  BY DEF HasEntry, EntriesFor, old
  <2>3. \A p \in Added(c) : Is(entries[p]) <=> fields[p].ref = ref /\ fields[p].id = id /\ fields[p].at = at
    BY <1>6, <1>11
  <2> HIDE DEF Is
  <2>4. (\E k \in DOMAIN all : Is(all[k])) <=> (\E k \in DOMAIN old : Is(old[k])) \/ \E j \in DOMAIN new : Is(new[j])
    BY <1>10
  <2>5. (\E j \in DOMAIN new : Is(new[j])) <=> \E p \in Added(c) : Is(entries[p])  BY <1>9
  <2> QED  BY <2>1, <2>2, <2>3, <2>4, <2>5
<1> QED  BY <1>13, <1>14 DEF fields

-----------------------------------------------------------------------------
(* What is read at a place depends on the places a name reaches alone.       *)
LEMMA SameValue ==
  ASSUME NEW screen, screen.fields \in Seq(TraceField), NEW m1, IsMap(m1), NEW m2, IsMap(m2),
         NEW ref, NEW id, NEW at \in Nat, at # 0,
         \A a : Reaches(screen, m1, ref, id, at, a) <=> Reaches(screen, m2, ref, id, at, a)
  PROVE  FindField(screen, m1, ref, id, at, NotGiven)[1].value = FindField(screen, m2, ref, id, at, NotGiven)[1].value
<1> DEFINE found1 == {f \in FieldsFor(screen, m1, ref) : Names(f, id, at)}
           found2 == {f \in FieldsFor(screen, m2, ref) : Names(f, id, at)}
           s1 == FindField(screen, m1, ref, id, at, NotGiven)
           s2 == FindField(screen, m2, ref, id, at, NotGiven)
<1>0. FoundAs(s1, screen, m1, ref, id, at, NotGiven) /\ FoundAs(s2, screen, m2, ref, id, at, NotGiven)  BY FindFieldIs
<1> HIDE DEF s1, s2
<1>1. /\ found1 # {} => s1 = <<s1[1]>> /\ FirstAt(s1[1], found1)
      /\ found1 = {} /\ at # 0 => s1 = <<s1[1]>> /\ s1[1].value = NotGiven
  BY <1>0 DEF FoundAs
<1>2. /\ found2 # {} => s2 = <<s2[1]>> /\ FirstAt(s2[1], found2)
      /\ found2 = {} /\ at # 0 => s2 = <<s2[1]>> /\ s2[1].value = NotGiven
  BY <1>0 DEF FoundAs
<1>3. \A g \in found1 : g.at \in Nat /\ g.value = ShownAt(screen, g.at)  BY FieldsForIs
<1>4. \A g \in found2 : g.at \in Nat /\ g.value = ShownAt(screen, g.at)  BY FieldsForIs
<1>5. \A a : Reaches(screen, m1, ref, id, at, a) <=> \E g \in found1 : g.at = a  BY DEF Reaches
<1>6. \A a : Reaches(screen, m2, ref, id, at, a) <=> \E g \in found2 : g.at = a  BY DEF Reaches
<1> HIDE DEF found1, found2
<1>7. \A a : (\E g \in found1 : g.at = a) <=> \E g \in found2 : g.at = a  BY <1>5, <1>6
<1>8. CASE found1 = {}
  <2>1. found2 = {}  BY <1>7, <1>8
  <2>2. s1[1].value = s2[1].value  BY <1>1, <1>2, <1>8, <2>1
  <2> QED  BY <2>2 DEF s1, s2
<1>9. CASE found1 # {}
  <2>1. found2 # {}  BY <1>7, <1>9
  <2> DEFINE x == s1[1]
             y == s2[1]
  <2>2. FirstAt(x, found1) /\ FirstAt(y, found2)  BY <1>1, <1>2, <1>9, <2>1
  <2> HIDE DEF x, y
  <2>3. PICK g \in found2 : g.at = x.at  BY <1>7, <2>2 DEF FirstAt
  <2>4. PICK h \in found1 : h.at = y.at  BY <1>7, <2>2 DEF FirstAt
  <2>5. x.at \in Nat /\ y.at \in Nat /\ y.at <= x.at /\ x.at <= y.at  BY <1>3, <1>4, <2>2, <2>3, <2>4 DEF FirstAt
  <2>6. x.at = y.at  BY <2>5
  <2>7. x.value = y.value  BY <1>3, <1>4, <2>2, <2>6 DEF FirstAt
  <2> QED  BY <2>7 DEF x, y, s1, s2
<1> QED  BY <1>8, <1>9

FieldAt(screen, m, ref, id, at) == \E g \in FieldsFor(screen, m, ref) : g.id = id /\ g.at = at

AddedAt(c, ref, id, at) ==
  \E k \in Added(c) : FieldsOf(c)[k].ref = ref /\ FieldsOf(c)[k].id = id /\ FieldsOf(c)[k].at = at

LEMMA ReachesIs ==
  ASSUME NEW screen, NEW m, NEW ref, NEW id, NEW at, NEW a
  PROVE  Reaches(screen, m, ref, id, at, a) <=>
           \E n : ((id # NotGiven /\ n = id) \/ (at # 0 /\ a = at)) /\ FieldAt(screen, m, ref, n, a)
BY DEF Reaches, Names, FieldAt

(* A place that a name reaches with the driver's map: with the map of the    *)
(* contract, or where a field was added.                                     *)
LEMMA DriverHas ==
  ASSUME NEW c, PlacedFields(c), IsMap(c.map), NEW screen, NEW ref \in Nat, ref # 0, NEW id, NEW at
  PROVE  FieldAt(screen, DriverMap(c), ref, id, at) <=> FieldAt(screen, c.map, ref, id, at) \/ AddedAt(c, ref, id, at)
<1> DEFINE own == \E f \in ToSet(screen.fields) : f.id = id /\ f.at = at
<1>1. FieldAt(screen, DriverMap(c), ref, id, at) <=> own \/ HasEntry(DriverMap(c), ref, id, at)  BY HasIs DEF FieldAt
<1>2. FieldAt(screen, c.map, ref, id, at) <=> own \/ HasEntry(c.map, ref, id, at)  BY HasIs DEF FieldAt
<1>3. HasEntry(DriverMap(c), ref, id, at) <=> HasEntry(c.map, ref, id, at) \/ AddedAt(c, ref, id, at)
  BY DriverEntries DEF AddedAt
<1> HIDE DEF own
<1> QED  BY <1>1, <1>2, <1>3

(* A response is read as it was extracted, unless it is unsized.             *)
LEMMA OwnValue ==
  ASSUME NEW c, NEW t, NEW m, NEW redact, ExtractedFrom(c, t, m, redact), IsTrace(t), IsMap(m),
         NEW f, Standing(f, t, m), ~Unsized(t, m, f)
  PROVE  ValueOf(t, DriverMap(c), f) = ValueOf(t, m, f)
<1> DEFINE screen == t[f.ref]
           ref == f.ref
<1>1. c.map = m /\ PlacedFields(c) /\ \A k \in DOMAIN FieldsOf(c) : Standing(FieldsOf(c)[k], t, m)
  <2>1. c.map = m /\ PlacedFields(c)  BY DEF ExtractedFrom, PlacedFields, Standing
  <2>2. \A k \in DOMAIN FieldsOf(c) : \/ \E j \in DOMAIN c.request : FieldsOf(c)[k] = c.request[j]
                                      \/ \E j \in DOMAIN c.response : FieldsOf(c)[k] = c.response[j]
    BY <2>1, FieldsOfIs
  <2>3. (\A j \in DOMAIN c.request : Standing(c.request[j], t, m)) /\ \A j \in DOMAIN c.response : Standing(c.response[j], t, m)
    BY DEF ExtractedFrom
  <2> QED  BY <2>1, <2>2, <2>3
<1>2. ref \in Nat /\ ref # 0 /\ f.at \in Nat /\ f.at # 0 /\ ref \in Screens(t)  BY DEF Standing, Placed
<1>3. screen.fields \in Seq(TraceField)  BY <1>2, EventIs
<1>4. PICK x \in FieldsFor(screen, m, ref) : x.id = f.id /\ x.at = f.at
  BY DEF Unsized, Standing
<1>5. IsMap(DriverMap(c)) /\ IsMap(c.map)  BY <1>1, <1>2, DriverEntries
<1> HIDE DEF screen, ref
<1>6. \A n, a : FieldAt(screen, DriverMap(c), ref, n, a) <=> FieldAt(screen, c.map, ref, n, a) \/ AddedAt(c, ref, n, a)
  BY <1>1, <1>2, <1>5, DriverHas
<1>7. ASSUME NEW a PROVE Reaches(screen, DriverMap(c), ref, f.id, f.at, a) <=> Reaches(screen, m, ref, f.id, f.at, a)
  <2>1. ASSUME Reaches(screen, m, ref, f.id, f.at, a) PROVE Reaches(screen, DriverMap(c), ref, f.id, f.at, a)
    BY <1>1, <1>6, <2>1, ReachesIs
  <2>2. ASSUME Reaches(screen, DriverMap(c), ref, f.id, f.at, a) PROVE Reaches(screen, m, ref, f.id, f.at, a)
    <3>1. PICK n : ((f.id # NotGiven /\ n = f.id) \/ (f.at # 0 /\ a = f.at)) /\ FieldAt(screen, DriverMap(c), ref, n, a)
      BY <2>2, ReachesIs
    <3>2. CASE FieldAt(screen, m, ref, n, a)  BY <3>1, <3>2, ReachesIs
    <3>3. CASE AddedAt(c, ref, n, a)
      <4>1. PICK k \in Added(c) : FieldsOf(c)[k].ref = ref /\ FieldsOf(c)[k].id = n /\ FieldsOf(c)[k].at = a  BY <3>3 DEF AddedAt
      <4> DEFINE h == FieldsOf(c)[k]
      <4>2. Standing(h, t, m) /\ h.ref = ref /\ h.id = n /\ h.at = a  BY <1>1, <4>1 DEF Added
      <4> HIDE DEF h
      <4>3. Names(x, h.id, h.at)  BY <1>2, <1>4, <3>1, <4>2 DEF Names
      <4>4. FieldAt(screen, m, ref, h.id, h.at)  BY <1>4, <4>2, <4>3 DEF Standing, screen, ref, FieldAt
      <4> QED  BY <3>1, <4>2, <4>4, ReachesIs
    <3> QED  BY <1>1, <1>6, <3>1, <3>2, <3>3
  <2> QED  BY <2>1, <2>2
<1>8. FindField(screen, DriverMap(c), ref, f.id, f.at, NotGiven)[1].value = FindField(screen, m, ref, f.id, f.at, NotGiven)[1].value
  BY <1>2, <1>3, <1>5, <1>7, SameValue
<1> QED  BY <1>8 DEF ValueOf, screen, ref

(* The contract has the field, at one place of its screen.                   *)
HasField(c, f) ==
  /\ \E k \in DOMAIN FieldsOf(c) : SameField(FieldsOf(c)[k], f)
  /\ \A k \in DOMAIN FieldsOf(c) :
       FieldsOf(c)[k].ref = f.ref /\ f.id # NotGiven /\ FieldsOf(c)[k].id = f.id => FieldsOf(c)[k].at = f.at

LEMMA DriverReaches ==
  ASSUME NEW c, PlacedFields(c), IsMap(c.map), NEW f, Placed(f), HasField(c, f), NEW screen, NEW a
  PROVE  Reaches(screen, DriverMap(c), f.ref, f.id, f.at, a) <=>
           \/ Reaches(screen, c.map, f.ref, f.id, f.at, a)
           \/ a = f.at /\ <<f.ref, f.at>> \notin PlacesOf(c.map)
<1> DEFINE m == c.map
           ref == f.ref
<1>1. ref \in Nat /\ ref # 0 /\ f.at \in Nat /\ f.at # 0  BY DEF Placed
<1>2. \A n, b : FieldAt(screen, DriverMap(c), ref, n, b) <=> FieldAt(screen, c.map, ref, n, b) \/ AddedAt(c, ref, n, b)
  BY <1>1, DriverHas
<1>3. ASSUME Reaches(screen, m, ref, f.id, f.at, a) PROVE Reaches(screen, DriverMap(c), ref, f.id, f.at, a)
  BY <1>2, <1>3, ReachesIs
<1>4. ASSUME a = f.at, <<ref, f.at>> \notin PlacesOf(m) PROVE Reaches(screen, DriverMap(c), ref, f.id, f.at, a)
  <2>1. PICK k \in DOMAIN FieldsOf(c) : FieldsOf(c)[k].ref = ref /\ FieldsOf(c)[k].at = f.at
    BY DEF HasField, SameField
  <2>2. PICK j \in Added(c) : FieldsOf(c)[j].ref = ref /\ FieldsOf(c)[j].at = f.at  BY <1>4, <2>1, AddedIs
  <2>3. FieldAt(screen, DriverMap(c), ref, FieldsOf(c)[j].id, f.at)  BY <1>2, <2>2 DEF AddedAt
  <2> QED  BY <1>1, <1>4, <2>3, ReachesIs
<1>5. ASSUME Reaches(screen, DriverMap(c), ref, f.id, f.at, a)
      PROVE  Reaches(screen, m, ref, f.id, f.at, a) \/ (a = f.at /\ <<ref, f.at>> \notin PlacesOf(m))
  <2>1. PICK n : ((f.id # NotGiven /\ n = f.id) \/ (f.at # 0 /\ a = f.at)) /\ FieldAt(screen, DriverMap(c), ref, n, a)
    BY <1>5, ReachesIs
  <2>2. CASE FieldAt(screen, m, ref, n, a)  BY <2>1, <2>2, ReachesIs
  <2>3. CASE AddedAt(c, ref, n, a)
    <3>1. PICK k \in Added(c) : FieldsOf(c)[k].ref = ref /\ FieldsOf(c)[k].id = n /\ FieldsOf(c)[k].at = a  BY <2>3 DEF AddedAt
    <3>2. k \in DOMAIN FieldsOf(c) /\ <<FieldsOf(c)[k].ref, FieldsOf(c)[k].at>> \notin PlacesOf(m)  BY <3>1 DEF Added
    <3>3. a = f.at  BY <2>1, <3>1, <3>2 DEF HasField
    <3> QED  BY <3>1, <3>2, <3>3
  <2> QED  BY <1>2, <2>1, <2>2, <2>3
<1> QED  BY <1>3, <1>4, <1>5

(* Two contracts with the map and the field in common read it alike.         *)
LEMMA DriversAgree ==
  ASSUME NEW c, PlacedFields(c), NEW d, PlacedFields(d), c.map = d.map, IsMap(c.map),
         NEW t, IsTrace(t), NEW f, Placed(f), f.ref \in Screens(t), HasField(c, f), HasField(d, f)
  PROVE  ValueOf(t, DriverMap(c), f) = ValueOf(t, DriverMap(d), f)
<1>1. t[f.ref].fields \in Seq(TraceField)  BY EventIs
<1>2. f.ref \in Nat /\ f.ref # 0 /\ f.at \in Nat /\ f.at # 0  BY DEF Placed
<1>3. IsMap(DriverMap(c)) /\ IsMap(DriverMap(d))  BY <1>2, DriverEntries
<1>4. \A a : Reaches(t[f.ref], DriverMap(c), f.ref, f.id, f.at, a) <=>
               \/ Reaches(t[f.ref], c.map, f.ref, f.id, f.at, a)
               \/ a = f.at /\ <<f.ref, f.at>> \notin PlacesOf(c.map)
  BY DriverReaches
<1>5. \A a : Reaches(t[f.ref], DriverMap(d), f.ref, f.id, f.at, a) <=>
               \/ Reaches(t[f.ref], c.map, f.ref, f.id, f.at, a)
               \/ a = f.at /\ <<f.ref, f.at>> \notin PlacesOf(c.map)
  BY DriverReaches
<1>6. \A a : Reaches(t[f.ref], DriverMap(c), f.ref, f.id, f.at, a) <=> Reaches(t[f.ref], DriverMap(d), f.ref, f.id, f.at, a)
  BY <1>4, <1>5
<1>7. FindField(t[f.ref], DriverMap(c), f.ref, f.id, f.at, NotGiven)[1].value
        = FindField(t[f.ref], DriverMap(d), f.ref, f.id, f.at, NotGiven)[1].value
  BY <1>1, <1>2, <1>3, <1>6, SameValue
<1> QED  BY <1>7 DEF ValueOf

-----------------------------------------------------------------------------
(* The replay of a trace on itself.                                          *)
LEMMA TypesOf ==
  ASSUME NEW t, IsTrace(t), NEW k \in DOMAIN t, k \notin Screens(t), k \notin Actions(t)
  PROVE  t[k].type = "note"
BY EventIs DEF Screens, Actions

(* Screens with no action between look alike where none differ in a row.     *)
LEMMA ChainHash ==
  ASSUME NEW t, IsTrace(t), NEW m, ~ScreensInARow(t, m),
         NEW a \in Screens(t), NEW b \in Screens(t), a <= b, \A k \in a..b : k \notin Actions(t)
  PROVE  ScreenHash(t[a], m, a) = ScreenHash(t[b], m, b)
<1> DEFINE Alike(n) == ScreenHash(t[a], m, a) = ScreenHash(t[n], m, n)
           G == {n \in Screens(t) : a <= n /\ n <= b /\ ~Alike(n)}
<1>1. Screens(t) \in SUBSET Nat /\ Screens(t) \in SUBSET (1..Len(t)) /\ DOMAIN t = 1..Len(t) /\ Len(t) \in Nat  BY EventIs
<1>2. SUFFICES ASSUME ~Alike(b) PROVE FALSE  OBVIOUS
<1>3. G \in SUBSET Nat /\ b \in G  BY <1>1, <1>2
<1>4. PICK n \in G : \A x \in G : n <= x
  <2> HIDE DEF G
  <2> QED  BY <1>3, LeastNat
<1>5. n \in Screens(t) /\ n \in Nat /\ a \in Nat /\ b \in Nat /\ a <= n /\ n <= b /\ ~Alike(n)  BY <1>1, <1>4
<1>6. a # n /\ a < n  BY <1>5
<1> DEFINE p == PreviousScreen(t, n)
<1>7. p \in Screens(t) /\ p < n /\ \A s \in Screens(t) : s < n => s <= p  BY <1>5, <1>6, PreviousIs
<1> HIDE DEF p
<1>8. p \in Nat /\ a <= p /\ p <= b /\ ~(n <= p)  BY <1>1, <1>5, <1>6, <1>7
<1>9. Alike(p)
  <2>1. p \notin G  BY <1>4, <1>8
  <2> HIDE DEF Alike
  <2> QED  BY <1>7, <1>8, <2>1
<1>10. \A k \in (p + 1)..(n - 1) : t[k].type = "note"
  <2> SUFFICES ASSUME NEW k \in (p + 1)..(n - 1) PROVE t[k].type = "note"  OBVIOUS
  <2>1. k \in Nat /\ p < k /\ k < n /\ k \in a..b /\ k \in DOMAIN t  BY <1>1, <1>5, <1>7, <1>8
  <2>2. k \notin Screens(t)  BY <1>7, <1>8, <2>1
  <2>3. k \notin Actions(t)  BY <2>1
  <2> QED  BY <2>1, <2>2, <2>3, TypesOf
<1>11. ScreenHash(t[p], m, p) = ScreenHash(t[n], m, n)  BY <1>5, <1>7, <1>10 DEF ScreensInARow
<1> QED  BY <1>5, <1>9, <1>11

(* Where the driver stands before an action, and the screen it was recorded  *)
(* on: no action is between them.                                            *)
LEMMA DriverBefore ==
  ASSUME NEW t, IsTrace(t), Recorded(t) = Actions(t), Screens(t) # {}, NEW k \in DOMAIN ActionSeq(t)
  PROVE  LET at == DriverAt(t, k - 1)
             from == PreviousScreen(t, ActionSeq(t)[k])
         IN  /\ at \in Screens(t) /\ from \in Screens(t) /\ at <= from
             /\ \A j \in at..from : j \notin Actions(t)
<1> DEFINE s == ActionSeq(t)
           i == s[k]
           at == DriverAt(t, k - 1)
           from == PreviousScreen(t, i)
<1>1. Ordered(s, Actions(t)) /\ Screens(t) \in SUBSET Nat /\ Actions(t) \in SUBSET Nat  BY ActionSeqIs, EventIs
<1>2. Len(s) \in Nat /\ DOMAIN s = 1..Len(s) /\ \A j \in 1..Len(s) : s[j] \in Actions(t) /\ s[j] \in Nat
  BY <1>1 DEF Ordered
<1>3. \A r, q \in 1..Len(s) : r < q => s[r] < s[q]  BY <1>1 DEF Ordered
<1>4. \A j \in Actions(t) : \E r \in 1..Len(s) : s[r] = j  BY <1>1 DEF Ordered
<1>5. k \in 1..Len(s) /\ k \in Nat  BY <1>2
<1>6. i \in Actions(t) /\ i \in Nat /\ i \in Recorded(t)  BY <1>2, <1>5
<1>7. \E x \in Screens(t) : x < i  BY <1>6 DEF Recorded
<1>8. from \in Screens(t) /\ from < i /\ \A x \in Screens(t) : x < i => x <= from  BY <1>6, <1>7, PreviousIs
<1> HIDE DEF from
<1>9. CASE k = 1
  <2>1. at = Min(Screens(t))  BY <1>9 DEF DriverAt
  <2>2. at \in Screens(t) /\ \A x \in Screens(t) : at <= x  BY <1>1, <2>1, LeastIs
  <2> HIDE DEF at
  <2>3. at <= from  BY <1>8, <2>2
  <2>4. ASSUME NEW j \in at..from, j \in Actions(t) PROVE FALSE
    <3>1. PICK r \in 1..Len(s) : s[r] = j  BY <1>4, <2>4
    <3>2. j <= from /\ j \in Nat /\ from \in Nat /\ j < i  BY <1>1, <1>6, <1>8, <2>2
    <3>3. r = 1 \/ 1 < r  BY <1>2
    <3>4. s[1] = i  BY <1>9
    <3> HIDE DEF i
    <3>5. r = 1 \/ i < j  BY <1>3, <1>5, <1>9, <3>1, <3>3, <3>4
    <3> QED  BY <1>6, <3>1, <3>2, <3>4, <3>5
  <2> QED  BY <1>8, <2>2, <2>3, <2>4 DEF at, from
<1>10. CASE k # 1
  <2> DEFINE p == s[k - 1]
  <2>1. k - 1 \in 1..Len(s) /\ k - 1 # 0 /\ k - 1 < k  BY <1>2, <1>5, <1>10
  <2>2. p \in Actions(t) /\ p \in Nat /\ p < i /\ p \in Recorded(t)  BY <1>2, <1>3, <1>5, <2>1
  <2>3. at = ScreenAfter(t, p)  BY <2>1 DEF DriverAt
  <2>4. PICK u \in Screens(t) : u > p /\ \A n \in (p + 1)..(u - 1) : t[n].type = "note"
    BY <2>2 DEF Recorded, Followed
  <2>5. HasScreenAfter(t, p)  BY <2>4 DEF HasScreenAfter
  <2> HIDE DEF p, i
  <2>6. at \in Screens(t) /\ at > p /\ at <= u  BY <2>2, <2>3, <2>4, <2>5, AfterIs
  <2> HIDE DEF at
  <2>7. u < i
    <3>1. t[i].type = "action" /\ t[u].type = "screen"  BY <1>6 DEF Actions, Screens
    <3>2. i # u /\ i \notin (p + 1)..(u - 1)  BY <2>4, <3>1
    <3> QED  BY <1>1, <1>6, <2>2, <2>4, <3>2
  <2>8. at < i /\ at <= from
    <3>1. at \in Nat /\ u \in Nat  BY <1>1, <2>6
    <3>2. at < i  BY <1>6, <2>6, <2>7, <3>1
    <3> QED  BY <1>8, <2>6, <3>2
  <2>9. ASSUME NEW j \in at..from, j \in Actions(t) PROVE FALSE
    <3>1. PICK r \in 1..Len(s) : s[r] = j  BY <1>4, <2>9
    <3>2. j \in Nat /\ from \in Nat /\ at \in Nat /\ p < j /\ j < i
      <4>1. j \in Nat /\ from \in Nat /\ at \in Nat /\ at <= j /\ j <= from  BY <1>1, <1>8, <2>6, <2>9
      <4> QED  BY <1>6, <1>8, <2>2, <2>6, <4>1
    <3>3. r <= k - 1 \/ k <= r  BY <1>2, <1>5
    <3>4. r < k - 1 \/ r = k - 1 \/ r = k \/ k < r  BY <1>2, <1>5
    <3>5. r < k - 1 => j < p  BY <1>3, <2>1, <3>1 DEF p
    <3>6. r = k - 1 => j = p  BY <3>1 DEF p
    <3>7. r = k => j = i  BY <3>1 DEF i
    <3>8. k < r => i < j  BY <1>3, <1>5, <3>1 DEF i
    <3> QED  BY <1>6, <2>2, <3>2, <3>4, <3>5, <3>6, <3>7, <3>8
  <2> QED  BY <1>8, <2>6, <2>8, <2>9 DEF at, from, i
<1> QED  BY <1>9, <1>10

(* The inputs of a step are accepted on the action they are from.            *)
LEMMA OwnInputs ==
  ASSUME NEW t, IsTrace(t), NEW i \in Actions(t), NEW c, Listed(c.request), NEW m, NEW redact,
         OneName(c.request), ~TypedTwice(t, c.request)
  PROVE  InputsAccepted(c, t[i], StepInputs(t, i, c.request, m, redact))
<1> DEFINE ref == PreviousScreen(t, i)
           inputs == t[i].inputs
           request == c.request
           Matching(n) == MatchingRequest(request, ref, inputs[n])
           field == [j \in {n \in DOMAIN inputs : Matching(n) # {}} |-> request[Min(Matching(j))]]
           Of(name) == {j \in DOMAIN field : field[j].name = name}
           given == StepInputs(t, i, request, m, redact)
<1>1. inputs \in Seq(ActionInput)  BY EventIs
<1>2. Len(inputs) \in Nat /\ DOMAIN inputs = 1..Len(inputs) /\ IsFiniteSet(1..Len(inputs)) /\ \A n \in DOMAIN inputs : inputs[n].at \in Nat
  <2> HIDE DEF inputs
  <2>1. \A x \in ActionInput : x.at \in Nat  BY DEF ActionInput
  <2>2. Len(inputs) \in Nat  BY <1>1
  <2>3. IsFiniteSet(1..Len(inputs))  BY <2>2, FS_Interval
  <2> QED  BY <1>1, <2>1, <2>3
<1>3. Len(request) \in Nat /\ DOMAIN request = 1..Len(request) /\ DOMAIN request \in SUBSET Nat /\ IsFiniteSet(DOMAIN request)
  BY ListedDomain
<1>4. /\ DOMAIN given = {field[j].name : j \in DOMAIN field}
      /\ \A name \in DOMAIN given : given[name] \in {REDACTED, inputs[Max(Of(name))].value}
  BY DEF StepInputs
<1>5. DOMAIN field = {n \in DOMAIN inputs : Matching(n) # {}} /\ \A j \in DOMAIN field : field[j] = request[Min(Matching(j))]
  OBVIOUS
<1>6. \A n : \A k : k \in Matching(n) <=> k \in DOMAIN request /\ request[k].ref = ref /\ Names(request[k], inputs[n].id, inputs[n].at)
  BY DEF MatchingRequest
<1> HIDE DEF field, given, ref, inputs, request, Matching
<1>7. ASSUME NEW name \in DOMAIN given
      PROVE  /\ \E k \in DOMAIN request : request[k].name = name
             /\ LET f == request[Max({k \in DOMAIN request : request[k].name = name})]
                    recorded == {n \in DOMAIN inputs : Names(inputs[n], f.id, f.at)}
                IN  recorded # {} /\ given[name] \in {REDACTED, inputs[Min(recorded)].value}
  <2> DEFINE j == Max(Of(name))
             k == Min(Matching(j))
             K == {n \in DOMAIN request : request[n].name = name}
  <2>1. Of(name) # {} /\ Of(name) \in SUBSET (1..Len(inputs)) /\ 1..Len(inputs) \in SUBSET Nat  BY <1>2, <1>4, <1>5
  <2>2. j \in Of(name)
    <3> DEFINE S == Of(name)
    <3>1. S # {} /\ S \in SUBSET (1..Len(inputs)) /\ S \in SUBSET Nat  BY <2>1
    <3> HIDE DEF S
    <3>2. Max(S) \in S  BY <1>2, <3>1, FS_Subset, GreatestIs
    <3> QED  BY <3>2 DEF S
  <2>3. j \in DOMAIN inputs /\ j \in DOMAIN field /\ field[j].name = name /\ Matching(j) # {}  BY <1>5, <2>2
  <2>4. given[name] \in {REDACTED, inputs[j].value}  BY <1>4
  <2> HIDE DEF j
  <2>5. k \in Matching(j)
    <3>1. Matching(j) \in SUBSET Nat  BY <1>3, <1>6
    <3> QED  BY <2>3, <3>1, LeastIs
  <2>6. k \in DOMAIN request /\ request[k].ref = ref /\ Names(request[k], inputs[j].id, inputs[j].at) /\ request[k].name = name
    BY <1>5, <1>6, <2>3, <2>5
  <2> HIDE DEF k
  <2>7. K \in SUBSET (DOMAIN request) /\ k \in K  BY <2>6
  <2>8. Max(K) \in K
    <3> HIDE DEF K
    <3> QED  BY <1>3, <2>7, FS_Subset, GreatestIs
  <2>9. Max(K) = k  BY <2>6, <2>8 DEF OneName, request
  <2> HIDE DEF K
  <2> DEFINE f == request[k]
             recorded == {n \in DOMAIN inputs : Names(inputs[n], f.id, f.at)}
  <2>10. j \in recorded  BY <2>3, <2>6 DEF Names
  <2>11. recorded \in SUBSET Nat /\ recorded # {}  BY <1>2, <2>10
  <2>12. Min(recorded) \in recorded
    <3> HIDE DEF recorded
    <3> QED  BY <2>11, LeastIs
  <2>13. inputs[j].value = inputs[Min(recorded)].value
    <3> DEFINE n == Min(recorded)
               all == {h \in DOMAIN t[i].inputs : Names(t[i].inputs[h], c.request[k].id, c.request[k].at)}
    <3>1. all = recorded  BY DEF inputs, request
    <3>2. j \in DOMAIN t[i].inputs /\ n \in DOMAIN t[i].inputs /\ {j, n} \subseteq all
      BY <2>10, <2>12, <3>1 DEF inputs
    <3>3. k \in DOMAIN c.request /\ c.request[k].ref = PreviousScreen(t, i)  BY <2>6 DEF request, ref
    <3> HIDE DEF n, recorded
    <3>4. t[i].inputs[j].value = t[i].inputs[n].value  BY <3>2, <3>3 DEF TypedTwice
    <3> QED  BY <3>4 DEF inputs, n
  <2> QED  BY <2>4, <2>6, <2>9, <2>11, <2>13 DEF K
<1> QED  BY <1>7 DEF InputsAccepted, given, inputs, request

(* The driver reads the responses that the case expects.                     *)
LEMMA OwnAnswered ==
  ASSUME NEW c, NEW t, NEW m, NEW redact, ExtractedFrom(c, t, m, redact), IsTrace(t), IsMap(m),
         OneName(c.response), \A k \in DOMAIN c.response : ~Unsized(t, m, c.response[k])
  PROVE  CaseAnswered(c, c, t)
<1> DEFINE response == c.response
           dm == DriverMap(c)
           read == DriverResponse(t, dm, response)
           Of(name) == {k \in DOMAIN response : response[k].name = name}
           names == {response[k].name : k \in DOMAIN response}
           Valued(name) == {k \in DOMAIN response : /\ response[k].name = name /\ response[k].ref \in Screens(t)
                                                    /\ ValueOf(t, dm, response[k]) # NotGiven}
<1>1. Listed(response) /\ \A k \in DOMAIN response : Standing(response[k], t, m)  BY DEF ExtractedFrom
<1>2. DOMAIN response \in SUBSET Nat /\ IsFiniteSet(DOMAIN response)
  <2> HIDE DEF response
  <2> QED  BY <1>1, ListedDomain
<1>3. c.expected = ExpectedResponse(t, response, m, redact)  BY DEF ExtractedFrom
<1>4. /\ DOMAIN c.expected = names
      /\ \A name \in names : c.expected[name] \in {REDACTED, ValueOf(t, m, response[Max(Of(name))])}
  BY <1>3 DEF ExpectedResponse
<1>5. /\ DOMAIN read = names
      /\ \A name \in names : read[name] = IF Valued(name) = {} THEN NotGiven ELSE ValueOf(t, dm, response[Max(Valued(name))])
  BY DEF DriverResponse
<1>6. ASSUME NEW k \in DOMAIN response PROVE ValueOf(t, dm, response[k]) = ValueOf(t, m, response[k])
  BY <1>1, OwnValue
<1> HIDE DEF read, dm
<1>7. ASSUME NEW name \in names
      PROVE  c.expected[name] \in {REDACTED, read[name]}
  <2> DEFINE k == Max(Of(name))
  <2>1. Of(name) # {} /\ Of(name) \in SUBSET (DOMAIN response)  OBVIOUS
  <2>2. k \in Of(name)
    <3> DEFINE S == Of(name)
    <3>1. S # {} /\ S \in SUBSET (DOMAIN response) /\ S \in SUBSET Nat  BY <1>2, <2>1
    <3> HIDE DEF S, response
    <3>2. Max(S) \in S  BY <1>2, <3>1, FS_Subset, GreatestIs
    <3> QED  BY <3>2 DEF S
  <2>3. c.expected[name] \in {REDACTED, ValueOf(t, m, response[k])}  BY <1>4
  <2>4. k \in DOMAIN response /\ response[k].name = name  BY <2>2
  <2> HIDE DEF k
  <2>5. \A n \in Valued(name) : n = k  BY <2>4 DEF OneName
  <2>6. response[k].ref \in Screens(t)  BY <1>1, <2>4 DEF Standing
  <2>7. read[name] = ValueOf(t, dm, response[k])
    <3>1. CASE ValueOf(t, dm, response[k]) = NotGiven
      <4>1. Valued(name) = {}  BY <2>5, <3>1
      <4> QED  BY <1>5, <3>1, <4>1
    <3>2. CASE ValueOf(t, dm, response[k]) # NotGiven
      <4>1. Valued(name) = {k}  BY <2>4, <2>5, <2>6, <3>2
      <4>2. Max({k}) \in {k}  BY <1>2, <2>4, FS_Singleton, GreatestIs
      <4> QED  BY <1>5, <4>1, <4>2
    <3> QED  BY <3>1, <3>2
  <2> QED  BY <1>6, <2>3, <2>4, <2>7
<1>8. \A name \in DOMAIN c.expected : c.expected[name] \in {REDACTED} \cup {read[n] : n \in {name} \cap DOMAIN read}
  <2> SUFFICES ASSUME NEW name \in DOMAIN c.expected
               PROVE c.expected[name] \in {REDACTED} \cup {read[n] : n \in {name} \cap DOMAIN read}
    OBVIOUS
  <2>1. name \in names /\ name \in DOMAIN read  BY <1>4, <1>5
  <2>2. c.expected[name] \in {REDACTED, read[name]}  BY <1>7, <2>1
  <2> QED  BY <2>1, <2>2
<1> QED  BY <1>8 DEF CaseAnswered, read, dm

LEMMA OwnReplays ==
  ASSUME NEW c, NEW t, NEW m, NEW redact, ExtractedFrom(c, t, m, redact), IsTrace(t), IsMap(m), Screens(t) # {},
         ~Unframed(t), ~ScreensInARow(t, m), OneName(c.request), OneName(c.response), ~TypedTwice(t, c.request),
         \A k \in DOMAIN c.response : ~Unsized(t, m, c.response[k])
  PROVE  ReplayFaults(c, c, t) = {}
<1> DEFINE s == ActionSeq(t)
<1>1. Recorded(t) = Actions(t) /\ RecordedActions(t) = s  BY DEF Unframed, RecordedActions, ActionSeq
<1>2. Ordered(s, Actions(t)) /\ Screens(t) \in SUBSET Nat /\ Actions(t) \in SUBSET Nat  BY ActionSeqIs, EventIs
<1>3. Len(s) \in Nat /\ DOMAIN s = 1..Len(s) /\ \A j \in DOMAIN s : s[j] \in Actions(t) /\ s[j] \in Nat
  BY <1>2 DEF Ordered
<1>4. DOMAIN c.steps = DOMAIN s /\ Len(c.steps) = Len(s)  BY <1>1, <1>2 DEF ExtractedFrom, Ordered
<1>5. c.map = m /\ Listed(c.request)  BY DEF ExtractedFrom
<1>6. c.start = <<DriverHash(c, t, 0)>>  BY <1>5 DEF ExtractedFrom, DriverHash, DriverAt
<1>7. ASSUME NEW k \in DOMAIN c.steps PROVE StepFaults(c, t, c.steps[k], k) = {}
  <2> DEFINE act == c.steps[k]
             i == s[k]
             from == PreviousScreen(t, i)
             to == ScreenAfter(t, i)
  <2>1. k \in DOMAIN s /\ k \in 1..Len(s) /\ k # 0 /\ i \in Actions(t) /\ i \in Nat /\ i \in Recorded(t)  BY <1>1, <1>3, <1>4
  <2>2. /\ act.aid = t[i].aid /\ act.expect = ScreenHash(t[from], m, from) /\ act.next = ScreenHash(t[to], m, to)
        /\ act.inputs = StepInputs(t, i, c.request, m, redact)
    BY <1>1 DEF ExtractedFrom
  <2>3. HasScreenAfter(t, i)  BY <2>1 DEF Recorded, Followed, HasScreenAfter
  <2>4. CanApply(t, k)  BY <1>3, <2>1, <2>3 DEF CanApply
  <2>5. DriverHash(c, t, k) = act.next  BY <1>5, <2>1, <2>2 DEF DriverHash, DriverAt
  <2>6. DriverHash(c, t, k - 1) = act.expect
    <3> DEFINE at == DriverAt(t, k - 1)
    <3>1. at \in Screens(t) /\ from \in Screens(t) /\ at <= from /\ \A j \in at..from : j \notin Actions(t)
      BY <1>1, <2>1, DriverBefore
    <3> HIDE DEF at, from
    <3>2. ScreenHash(t[at], m, at) = ScreenHash(t[from], m, from)  BY <3>1, ChainHash
    <3> QED  BY <1>5, <2>2, <3>2 DEF DriverHash, at, from
  <2>7. InputsAccepted(c, t[i], act.inputs)  BY <1>5, <2>1, <2>2, OwnInputs
  <2> HIDE DEF act
  <2>8. StepReplays(c, t, act, k)  BY <2>2, <2>4, <2>5, <2>6 DEF StepReplays
  <2> QED  BY <2>7, <2>8, StepFaultsIs DEF act
<1>8. CaseAnswered(c, c, t)  BY OwnAnswered
<1> HIDE DEF s
<1> QED  BY <1>4, <1>6, <1>7, <1>8, FaultsIs DEF s

-----------------------------------------------------------------------------
(* Packages.                                                                 *)
LEMMA DedupedDistinct ==
  ASSUME NEW s, Listed(s), NEW j \in DOMAIN Deduped(s), NEW k \in DOMAIN Deduped(s), SameField(Deduped(s)[j], Deduped(s)[k])
  PROVE  j = k
<1> DEFINE P == {n \in DOMAIN s : \A i \in 1..(n - 1) : ~SameField(s[i], s[n])}
           o == InOrder(P)
           d == Deduped(s)
<1>1. DOMAIN s = 1..Len(s) /\ Len(s) \in Nat /\ DOMAIN s \in SUBSET Nat /\ IsFiniteSet(DOMAIN s)  BY ListedDomain
<1>2. P \in SUBSET (DOMAIN s)  OBVIOUS
<1>3. d = [n \in DOMAIN o |-> s[o[n]]]  BY DEF Deduped, Those
<1>4. \A n \in P : \A i \in 1..(n - 1) : ~SameField(s[i], s[n])  OBVIOUS
<1> HIDE DEF P, d
<1>5. P \in SUBSET Nat /\ IsFiniteSet(P)  BY <1>1, <1>2, FS_Subset
<1>6. Ordered(o, P)  BY <1>5, InOrderIs
<1> HIDE DEF o
<1>7. Len(o) \in Nat /\ DOMAIN o = 1..Len(o) /\ \A n \in DOMAIN o : o[n] \in P /\ o[n] \in Nat  BY <1>5, <1>6 DEF Ordered
<1>8. \A a, b \in 1..Len(o) : a < b => o[a] < o[b]  BY <1>6 DEF Ordered
<1>9. \A a, b \in DOMAIN o : a < b => ~SameField(d[a], d[b])
  <2> SUFFICES ASSUME NEW a \in DOMAIN o, NEW b \in DOMAIN o, a < b PROVE ~SameField(d[a], d[b])  OBVIOUS
  <2>1. o[a] < o[b] /\ o[a] \in P /\ o[b] \in P /\ o[a] \in Nat /\ o[b] \in Nat  BY <1>7, <1>8
  <2>2. o[a] \in 1..(o[b] - 1)  BY <1>1, <1>2, <2>1
  <2>3. ~SameField(s[o[a]], s[o[b]])  BY <1>4, <2>1, <2>2
  <2> QED  BY <1>3, <2>3
<1>10. j \in DOMAIN o /\ k \in DOMAIN o /\ SameField(d[j], d[k]) /\ SameField(d[k], d[j])
  BY <1>3 DEF d, SameField
<1>11. ~(j < k) /\ ~(k < j)  BY <1>9, <1>10
<1> QED  BY <1>7, <1>10, <1>11

LEMMA ResponseDistinct ==
  ASSUME NEW t, IsTrace(t), NEW m, IsMap(m),
         NEW j \in DOMAIN ResponseFields(t, m), NEW k \in DOMAIN ResponseFields(t, m),
         SameField(ResponseFields(t, m)[j], ResponseFields(t, m)[k])
  PROVE  j = k
<1>1. ResponseFields(t, m) = <<>> \/ \E s : Listed(s) /\ ResponseFields(t, m) = Deduped(s)  BY ResponseStands
<1>2. DOMAIN <<>> = {}  OBVIOUS
<1> QED  BY <1>1, <1>2, DedupedDistinct

(* A field is read as its equals are.                                        *)
LEMMA SameRead ==
  ASSUME NEW t, NEW m, NEW f, NEW g, SameField(f, g)
  PROVE  ValueOf(t, m, f) = ValueOf(t, m, g)
<1>1. f.ref = g.ref /\ f.id = g.id /\ f.at = g.at  BY DEF SameField
<1> QED  BY <1>1 DEF ValueOf

(* A contract that has the fields of another, alone by their names.          *)
Covers(more, c, t) ==
  /\ more.map = c.map /\ PlacedFields(more)
  /\ \A k \in DOMAIN c.request : \E j \in DOMAIN more.request : SameField(more.request[j], c.request[k])
  /\ \A k \in DOMAIN c.response : \E j \in DOMAIN more.response : SameField(more.response[j], c.response[k])
  /\ OneName(more.request) /\ ~Clash(more.response, t) /\ ~Shadowed(FieldsOf(more), t)

LEMMA CoveredInputs ==
  ASSUME NEW c, Listed(c.request), NEW more, NEW t, Covers(more, c, t), NEW action, NEW inputs, InputsAccepted(c, action, inputs)
  PROVE  InputsAccepted(more, action, inputs)
<1> SUFFICES ASSUME NEW name \in DOMAIN inputs
             PROVE  /\ \E k \in DOMAIN more.request : more.request[k].name = name
                    /\ LET f == more.request[Max({k \in DOMAIN more.request : more.request[k].name = name})]
                           recorded == {n \in DOMAIN action.inputs : Names(action.inputs[n], f.id, f.at)}
                       IN  recorded # {} /\ inputs[name] \in {REDACTED, action.inputs[Min(recorded)].value}
  BY DEF InputsAccepted
<1> DEFINE K == {k \in DOMAIN c.request : c.request[k].name = name}
           J == {k \in DOMAIN more.request : more.request[k].name = name}
           f == c.request[Max(K)]
           recorded == {n \in DOMAIN action.inputs : Names(action.inputs[n], f.id, f.at)}
<1>1. K # {} /\ recorded # {} /\ inputs[name] \in {REDACTED, action.inputs[Min(recorded)].value}  BY DEF InputsAccepted
<1>2. DOMAIN c.request \in SUBSET Nat /\ IsFiniteSet(DOMAIN c.request)  BY ListedDomain
<1>3. DOMAIN more.request \in SUBSET Nat /\ IsFiniteSet(DOMAIN more.request)  BY ListedDomain DEF Covers, PlacedFields
<1>4. Max(K) \in K
  <2>1. K \in SUBSET (DOMAIN c.request)  OBVIOUS
  <2> HIDE DEF K
  <2> QED  BY <1>1, <1>2, <2>1, FS_Subset, GreatestIs
<1>5. PICK j \in DOMAIN more.request : SameField(more.request[j], f)  BY <1>4 DEF Covers
<1>6. more.request[j].name = name /\ more.request[j].id = f.id /\ more.request[j].at = f.at  BY <1>4, <1>5 DEF SameField
<1>7. Max(J) \in J
  <2>1. J \in SUBSET (DOMAIN more.request) /\ J # {}  BY <1>6
  <2> HIDE DEF J
  <2> QED  BY <1>3, <2>1, FS_Subset, GreatestIs
<1>8. Max(J) = j  BY <1>6, <1>7 DEF Covers, OneName
<1> HIDE DEF f, K
<1> QED  BY <1>1, <1>6, <1>8

LEMMA CoveredFields ==
  ASSUME NEW c, PlacedFields(c), NEW more, NEW t, Covers(more, c, t)
  PROVE  \A k \in DOMAIN FieldsOf(c) : \E j \in DOMAIN FieldsOf(more) : SameField(FieldsOf(more)[j], FieldsOf(c)[k])
<1> SUFFICES ASSUME NEW k \in DOMAIN FieldsOf(c)
             PROVE \E j \in DOMAIN FieldsOf(more) : SameField(FieldsOf(more)[j], FieldsOf(c)[k])
  OBVIOUS
<1>1. /\ \A i \in DOMAIN more.request : \E j \in DOMAIN FieldsOf(more) : FieldsOf(more)[j] = more.request[i]
      /\ \A i \in DOMAIN more.response : \E j \in DOMAIN FieldsOf(more) : FieldsOf(more)[j] = more.response[i]
  BY FieldsOfIs DEF Covers
<1>2. CASE \E i \in DOMAIN c.request : FieldsOf(c)[k] = c.request[i]
  <2>1. PICK i \in DOMAIN c.request : FieldsOf(c)[k] = c.request[i]  BY <1>2
  <2>2. PICK n \in DOMAIN more.request : SameField(more.request[n], c.request[i])  BY DEF Covers
  <2>3. PICK j \in DOMAIN FieldsOf(more) : FieldsOf(more)[j] = more.request[n]  BY <1>1
  <2> QED  BY <2>1, <2>2, <2>3
<1>3. CASE \E i \in DOMAIN c.response : FieldsOf(c)[k] = c.response[i]
  <2>1. PICK i \in DOMAIN c.response : FieldsOf(c)[k] = c.response[i]  BY <1>3
  <2>2. PICK n \in DOMAIN more.response : SameField(more.response[n], c.response[i])  BY DEF Covers
  <2>3. PICK j \in DOMAIN FieldsOf(more) : FieldsOf(more)[j] = more.response[n]  BY <1>1
  <2> QED  BY <2>1, <2>2, <2>3
<1> QED  BY <1>2, <1>3, FieldsOfIs

LEMMA CoveredAnswered ==
  ASSUME NEW c, NEW t, NEW m, NEW redact, ExtractedFrom(c, t, m, redact), IsTrace(t), IsMap(m),
         NEW more, Covers(more, c, t), CaseAnswered(c, c, t)
  PROVE  CaseAnswered(more, c, t)
<1> DEFINE response == c.response
           other == more.response
           names == {response[k].name : k \in DOMAIN response}
           read == DriverResponse(t, DriverMap(c), response)
           reread == DriverResponse(t, DriverMap(more), other)
<1>1. Listed(response) /\ PlacedFields(c) /\ PlacedFields(more) /\ c.map = m /\ more.map = m
  BY DEF ExtractedFrom, PlacedFields, Standing, Covers
<1>2. \A k \in DOMAIN response : Standing(response[k], t, m)  BY DEF ExtractedFrom
<1>3. \A j, k \in DOMAIN response : response[j].name = response[k].name => j = k
  <2> SUFFICES ASSUME NEW j \in DOMAIN response, NEW k \in DOMAIN response, response[j].name = response[k].name PROVE j = k
    OBVIOUS
  <2>1. PICK p \in DOMAIN other : SameField(other[p], response[j])  BY DEF Covers
  <2>2. PICK q \in DOMAIN other : SameField(other[q], response[k])  BY DEF Covers
  <2>3. other[p].name = other[q].name /\ {other[p].ref, other[q].ref} \subseteq Screens(t)
    BY <1>2, <2>1, <2>2 DEF SameField, Standing
  <2>4. p = q  BY <2>3 DEF Covers, Clash
  <2>5. SameField(response[j], response[k])  BY <2>1, <2>2, <2>4 DEF SameField
  <2> QED  BY <2>5, ResponseDistinct DEF ExtractedFrom
<1>4. ASSUME NEW k \in DOMAIN response
      PROVE  ValueOf(t, DriverMap(more), response[k]) = ValueOf(t, DriverMap(c), response[k])
  <2> DEFINE f == response[k]
  <2>1. Standing(f, t, m) /\ Placed(f) /\ f.ref \in Screens(t)  BY <1>2 DEF Standing
  <2>2. PICK n \in DOMAIN FieldsOf(c) : FieldsOf(c)[n] = f  BY <1>1, FieldsOfIs
  <2> HIDE DEF f
  <2>3. PICK j \in DOMAIN FieldsOf(more) : SameField(FieldsOf(more)[j], f)  BY <1>1, <2>2, CoveredFields
  <2>4. \A i \in DOMAIN FieldsOf(more) :
          FieldsOf(more)[i].ref = f.ref /\ f.id # NotGiven /\ FieldsOf(more)[i].id = f.id => FieldsOf(more)[i].at = f.at
    BY <2>1, <2>3 DEF Covers, Shadowed, SameField
  <2>5. HasField(more, f)  BY <2>3, <2>4 DEF HasField
  <2>6. ASSUME NEW i \in DOMAIN FieldsOf(c), FieldsOf(c)[i].ref = f.ref, f.id # NotGiven, FieldsOf(c)[i].id = f.id
        PROVE  FieldsOf(c)[i].at = f.at
    <3>1. PICK h \in DOMAIN FieldsOf(more) : SameField(FieldsOf(more)[h], FieldsOf(c)[i])  BY <1>1, CoveredFields
    <3> QED  BY <2>4, <2>6, <3>1 DEF SameField
  <2>7. SameField(f, f)  BY DEF SameField
  <2>8. HasField(c, f)  BY <2>2, <2>6, <2>7 DEF HasField
  <2>9. ValueOf(t, DriverMap(more), f) = ValueOf(t, DriverMap(c), f)  BY <1>1, <2>1, <2>5, <2>8, DriversAgree
  <2> QED  BY <2>9 DEF f
<1>5. /\ DOMAIN read = names
      /\ \A name \in names :
           LET valued == {k \in DOMAIN response : /\ response[k].name = name /\ response[k].ref \in Screens(t)
                                                  /\ ValueOf(t, DriverMap(c), response[k]) # NotGiven}
           IN  read[name] = IF valued = {} THEN NotGiven ELSE ValueOf(t, DriverMap(c), response[Max(valued)])
  BY DEF DriverResponse
<1>6. /\ DOMAIN reread = {other[k].name : k \in DOMAIN other}
      /\ \A name \in DOMAIN reread :
           LET valued == {k \in DOMAIN other : /\ other[k].name = name /\ other[k].ref \in Screens(t)
                                               /\ ValueOf(t, DriverMap(more), other[k]) # NotGiven}
           IN  reread[name] = IF valued = {} THEN NotGiven ELSE ValueOf(t, DriverMap(more), other[Max(valued)])
  BY DEF DriverResponse
<1>7. DOMAIN c.expected = names  BY DEF ExtractedFrom, ExpectedResponse
<1>8. \A name \in names : c.expected[name] \in {REDACTED} \cup {read[n] : n \in {name} \cap DOMAIN read}
  BY <1>7 DEF CaseAnswered
<1>9. DOMAIN response \in SUBSET Nat /\ DOMAIN other \in SUBSET Nat
  <2>1. Listed(response) /\ Listed(other)  BY <1>1 DEF PlacedFields
  <2> HIDE DEF response, other
  <2> QED  BY <2>1, ListedDomain
<1> HIDE DEF read, reread
<1>10. ASSUME NEW name \in names PROVE name \in DOMAIN reread /\ reread[name] = read[name]
  <2>1. PICK k \in DOMAIN response : response[k].name = name  OBVIOUS
  <2>2. PICK j \in DOMAIN other : SameField(other[j], response[k])  BY DEF Covers
  <2>3. other[j].name = name /\ other[j].ref = response[k].ref /\ response[k].ref \in Screens(t)
    BY <1>2, <2>1, <2>2 DEF SameField, Standing
  <2>4. name \in DOMAIN reread  BY <1>6, <2>3
  <2> DEFINE v == ValueOf(t, DriverMap(c), response[k])
             A == {i \in DOMAIN response : /\ response[i].name = name /\ response[i].ref \in Screens(t)
                                           /\ ValueOf(t, DriverMap(c), response[i]) # NotGiven}
             B == {i \in DOMAIN other : /\ other[i].name = name /\ other[i].ref \in Screens(t)
                                        /\ ValueOf(t, DriverMap(more), other[i]) # NotGiven}
  <2>5. \A i \in A : i = k  BY <1>3, <2>1
  <2>6. \A i \in B : i = j  BY <2>3 DEF Covers, Clash
  <2>7. ValueOf(t, DriverMap(more), other[j]) = v  BY <1>4, <2>2, SameRead
  <2>8. Max({k}) = k /\ Max({j}) = j
    <3>1. Max({k}) \in {k}  BY <1>9, FS_Singleton, GreatestIs
    <3>2. Max({j}) \in {j}  BY <1>9, FS_Singleton, GreatestIs
    <3> QED  BY <3>1, <3>2
  <2>9. read[name] = IF A = {} THEN NotGiven ELSE ValueOf(t, DriverMap(c), response[Max(A)])  BY <1>5
  <2>10. reread[name] = IF B = {} THEN NotGiven ELSE ValueOf(t, DriverMap(more), other[Max(B)])  BY <1>6, <2>4
  <2>11. CASE v = NotGiven
    <3>1. A = {} /\ B = {}  BY <2>5, <2>6, <2>7, <2>11
    <3> HIDE DEF A, B
    <3> QED  BY <2>4, <2>9, <2>10, <3>1
  <2>12. CASE v # NotGiven
    <3>1. A = {k}  BY <2>1, <2>3, <2>5, <2>12
    <3>2. B = {j}  BY <2>3, <2>6, <2>7, <2>12
    <3> HIDE DEF A, B, v
    <3>3. read[name] = v  BY <2>8, <2>9, <3>1 DEF v
    <3>4. reread[name] = v  BY <2>7, <2>8, <2>10, <3>2
    <3> QED  BY <2>4, <3>3, <3>4
  <2> QED  BY <2>11, <2>12
<1>11. \A name \in DOMAIN c.expected : c.expected[name] \in {REDACTED} \cup {reread[n] : n \in {name} \cap DOMAIN reread}
  <2> SUFFICES ASSUME NEW name \in DOMAIN c.expected
               PROVE c.expected[name] \in {REDACTED} \cup {reread[n] : n \in {name} \cap DOMAIN reread}
    OBVIOUS
  <2>1. name \in names /\ name \in DOMAIN reread /\ reread[name] = read[name]  BY <1>7, <1>10
  <2>2. c.expected[name] = REDACTED \/ c.expected[name] = read[name]  BY <1>8, <2>1
  <2> QED  BY <2>1, <2>2
<1> QED  BY <1>11 DEF CaseAnswered, reread

LEMMA CoveredReplays ==
  ASSUME NEW c, NEW t, NEW m, NEW redact, ExtractedFrom(c, t, m, redact), IsTrace(t), IsMap(m),
         NEW more, Covers(more, c, t), ReplayFaults(c, c, t) = {}
  PROVE  ReplayFaults(more, c, t) = {}
<1>1. /\ Screens(t) # {} /\ c.start = <<DriverHash(c, t, 0)>>
      /\ \A k \in DOMAIN c.steps : StepFaults(c, t, c.steps[k], k) = {}
      /\ CaseAnswered(c, c, t) /\ Len(c.steps) = Len(ActionSeq(t))
  BY FaultsIs
<1>2. more.map = c.map /\ Listed(c.request)  BY DEF Covers, ExtractedFrom
<1>3. \A k : DriverHash(more, t, k) = DriverHash(c, t, k)  BY <1>2 DEF DriverHash
<1>4. ASSUME NEW k \in DOMAIN c.steps PROVE StepFaults(more, t, c.steps[k], k) = {}
  <2> DEFINE act == c.steps[k]
  <2>1. StepReplays(c, t, act, k) /\ InputsAccepted(c, t[ActionSeq(t)[k]], act.inputs)  BY <1>1, StepFaultsIs
  <2> HIDE DEF act
  <2>2. StepReplays(more, t, act, k)  BY <1>3, <2>1 DEF StepReplays
  <2>3. InputsAccepted(more, t[ActionSeq(t)[k]], act.inputs)  BY <1>2, <2>1, CoveredInputs
  <2> QED  BY <2>2, <2>3, StepFaultsIs DEF act
<1>5. CaseAnswered(more, c, t)  BY <1>1, CoveredAnswered
<1> QED  BY <1>1, <1>3, <1>4, <1>5, FaultsIs

(* The merged contract has the fields of both.                               *)
LEMMA MergedCovers ==
  ASSUME NEW c, PlacedFields(c), {"request", "response"} \subseteq DOMAIN c, NEW d, PlacedFields(d)
  PROVE  LET more == MergedContract(c, d)
         IN  /\ more.map = c.map /\ PlacedFields(more)
             /\ \A k \in DOMAIN c.request : \E j \in DOMAIN more.request : SameField(more.request[j], c.request[k])
             /\ \A k \in DOMAIN c.response : \E j \in DOMAIN more.response : SameField(more.response[j], c.response[k])
             /\ \A k \in DOMAIN d.request : \E j \in DOMAIN more.request : SameField(more.request[j], d.request[k])
             /\ \A k \in DOMAIN d.response : \E j \in DOMAIN more.response : SameField(more.response[j], d.response[k])
<1> DEFINE more == MergedContract(c, d)
           Both(a, b, s) == /\ Listed(s) /\ \A k \in DOMAIN s : Placed(s[k])
                            /\ \A k \in DOMAIN a : \E j \in DOMAIN s : SameField(s[j], a[k])
                            /\ \A k \in DOMAIN b : \E j \in DOMAIN s : SameField(s[j], b[k])
<1>1. ASSUME NEW a, NEW b, Listed(a), Listed(b), \A k \in DOMAIN a : Placed(a[k]), \A k \in DOMAIN b : Placed(b[k])
      PROVE  Both(a, b, Deduped(a \o b))
  <2> DEFINE s == a \o b
             z == Deduped(s)
  <2>1. Joins(s, a, b)  BY DEF Joins
  <2> HIDE DEF s
  <2>2. /\ Listed(s)
        /\ \A k \in DOMAIN s : (\E j \in DOMAIN a : s[k] = a[j]) \/ \E j \in DOMAIN b : s[k] = b[j]
        /\ \A j \in DOMAIN a : j \in DOMAIN s /\ s[j] = a[j]
        /\ \A j \in DOMAIN b : \E k \in DOMAIN s : s[k] = b[j]
    BY <1>1, <2>1, ConcatIs
  <2>3. /\ Listed(z) /\ \A k \in DOMAIN z : \E p \in DOMAIN s : z[k] = s[p]
        /\ \A p \in DOMAIN s : \E k \in DOMAIN z : SameField(z[k], s[p])
    BY <2>2, DedupedIs
  <2> HIDE DEF z
  <2>4. \A k \in DOMAIN s : Placed(s[k])  BY <1>1, <2>2
  <2>5. \A k \in DOMAIN z : Placed(z[k])  BY <2>3, <2>4
  <2>6. \A k \in DOMAIN a : \E j \in DOMAIN z : SameField(z[j], a[k])  BY <2>2, <2>3
  <2>7. \A k \in DOMAIN b : \E j \in DOMAIN z : SameField(z[j], b[k])
    <3> SUFFICES ASSUME NEW k \in DOMAIN b PROVE \E j \in DOMAIN z : SameField(z[j], b[k])  OBVIOUS
    <3>1. PICK p \in DOMAIN s : s[p] = b[k]  BY <2>2
    <3> QED  BY <2>3, <3>1
  <2>8. Both(a, b, z)  BY <2>3, <2>5, <2>6, <2>7
  <2> QED  BY <2>8 DEF z, s
<1>2. more.map = c.map /\ more.request = Deduped(c.request \o d.request) /\ more.response = Deduped(c.response \o d.response)
  BY DEF MergedContract
<1> HIDE DEF more, Both
<1>3. Both(c.request, d.request, more.request) /\ Both(c.response, d.response, more.response)
  BY <1>1, <1>2 DEF PlacedFields
<1> QED  BY <1>2, <1>3 DEF Both, PlacedFields, more

-----------------------------------------------------------------------------
(* The trace file holds a session whole or nothing; the contract is what the *)
(* file as it stands was extracted to, and what the commands found is of it  *)
(* and of the second trace.                                                  *)
Framed ==
  /\ file \in sessions \cup {<<>>}
  /\ stage \in {"capture", "closing", "ended"} => contract = <<>>
  /\ contract \in {<<>>, Extract(file, ForCase(map, "a"), options)}

Traced == map \in Maps /\ IsTrace(file) /\ IsTrace(events) /\ IsTrace(newer)

Concluded ==
  /\ stage \in {"extracted", "replayed", "again", "compared", "packaged", "package_replayed"} =>
       contract = Extract(file, ForCase(map, "a"), options)
  /\ stage \in {"replayed", "again", "packaged"} => result = ReplayFaults(contract, contract, file)
  /\ stage \in {"packaged", "package_replayed"} => second = Extract(newer, ForCase(map, "b"), options)
  /\ stage = "compared" =>
       result = [changes |-> Changes(contract, newer, contract.map), faults |-> ReplayFaults(contract, contract, newer),
                 own |-> ReplayFaults(contract, contract, file)]
  /\ stage = "package_replayed" =>
       result = [own |-> ReplayFaults(contract, contract, file), alone |-> ReplayFaults(second, second, newer),
                 first |-> ReplayFaults(MergedContract(contract, second), contract, file),
                 second |-> ReplayFaults(MergedContract(contract, second), second, newer)]

CaptureInv == Framed /\ Traced /\ Concluded

(* A trace without screens, as one without events, blocks its contract.      *)
LEMMA NothingIsBlocked ==
  ASSUME NEW t, Screens(t) = {}, NEW m, NEW given
  PROVE  "NO_SCREEN_EVENTS" \in Extract(t, m, given).blockers
<1>1. \A request, response : "NO_SCREEN_EVENTS" \in Blockers(t, m, given.strict, request, response)
  BY DEF Blockers
<1>2. PICK request, response : Extract(t, m, given).blockers = Blockers(t, m, given.strict, request, response)
  BY DEF Extract
<1> QED  BY <1>1, <1>2

(* Another recording is a trace.                                             *)
LEMMA VariationIs ==
  ASSUME NEW t, IsTrace(t), NEW u \in Variations(t)
  PROVE  IsTrace(u)
<1> DEFINE E == EventSet
<1>1. t \in Seq(E) /\ Len(t) \in Nat /\ DOMAIN t = 1..Len(t)  BY DEF IsTrace
<1>2. \A e \in ScreenEvents \cup ChangedScreens \cup ActionEvents \cup {NoteEvent} : e \in E  BY DEF EventSet
<1> HIDE DEF E
<1>3. ASSUME NEW k \in DOMAIN t PROVE RemoveAt(t, k) \in Seq(E)
  <2>1. k \in 1..Len(t) /\ k - 1 \in 0..Len(t) /\ k + 1 \in 1..(Len(t) + 1)  BY <1>1
  <2>2. SubSeq(t, 1, k - 1) \in Seq(E) /\ SubSeq(t, k + 1, Len(t)) \in Seq(E)  BY <1>1, <2>1
  <2> QED  BY <2>2 DEF RemoveAt
<1>4. ASSUME NEW k \in DOMAIN t, NEW e \in E PROVE ReplaceAt(t, k, e) \in Seq(E)
  BY <1>1 DEF ReplaceAt
<1>5. ASSUME NEW k \in DOMAIN t, NEW e \in E PROVE InsertAt(t, k, e) \in Seq(E)
  <2>1. k \in 1..Len(t) /\ k - 1 \in 0..Len(t)  BY <1>1
  <2>2. SubSeq(t, 1, k - 1) \in Seq(E) /\ SubSeq(t, k, Len(t)) \in Seq(E) /\ <<e>> \in Seq(E)  BY <1>1, <2>1
  <2> QED  BY <2>2 DEF InsertAt
<1>6. ASSUME NEW k \in 1..(Len(t) - 1) PROVE [t EXCEPT ![k] = t[k + 1], ![k + 1] = t[k]] \in Seq(E)
  <2>1. k \in 1..Len(t) /\ k + 1 \in 1..Len(t)  BY <1>1
  <2>2. t[k] \in E /\ t[k + 1] \in E  BY <1>1, <2>1
  <2> QED  BY <1>1, <2>1, <2>2
<1>7. \/ \E k \in DOMAIN t : u = RemoveAt(t, k)
      \/ \E k \in DOMAIN t, e \in ScreenEvents \cup ChangedScreens \cup ActionEvents : u = ReplaceAt(t, k, e)
      \/ \E k \in DOMAIN t, e \in ScreenEvents \cup ActionEvents \cup {NoteEvent} : u = InsertAt(t, k, e)
      \/ \E k \in 1..(Len(t) - 1) : u = [t EXCEPT ![k] = t[k + 1], ![k + 1] = t[k]]
  BY DEF Variations
<1>8. CASE \E k \in DOMAIN t : u = RemoveAt(t, k)  BY <1>3, <1>8 DEF IsTrace, E
<1>9. CASE \E k \in DOMAIN t, e \in ScreenEvents \cup ChangedScreens \cup ActionEvents : u = ReplaceAt(t, k, e)
  <2>1. PICK k \in DOMAIN t, e \in ScreenEvents \cup ChangedScreens \cup ActionEvents : u = ReplaceAt(t, k, e)  BY <1>9
  <2>2. e \in E  BY <1>2
  <2> QED  BY <1>4, <2>1, <2>2 DEF IsTrace, E
<1>10. CASE \E k \in DOMAIN t, e \in ScreenEvents \cup ActionEvents \cup {NoteEvent} : u = InsertAt(t, k, e)
  <2>1. PICK k \in DOMAIN t, e \in ScreenEvents \cup ActionEvents \cup {NoteEvent} : u = InsertAt(t, k, e)  BY <1>10
  <2>2. e \in E  BY <1>2
  <2> QED  BY <1>5, <2>1, <2>2 DEF IsTrace, E
<1>11. CASE \E k \in 1..(Len(t) - 1) : u = [t EXCEPT ![k] = t[k + 1], ![k + 1] = t[k]]
  BY <1>6, <1>11 DEF IsTrace, E
<1> QED  BY <1>7, <1>8, <1>9, <1>10, <1>11

LEMMA TracedStep == Traced /\ [CaptureNext]_captureVars => Traced'
<1> SUFFICES ASSUME Traced, [CaptureNext]_captureVars PROVE Traced'  OBVIOUS
<1> USE DEF Traced
<1>1. ASSUME NEW event \in EventSet, Record(event) PROVE Traced'
  <2>1. Append(events, event) \in Seq(EventSet)  BY DEF IsTrace
  <2> QED  BY <1>1, <2>1 DEF Record, IsTrace
<1>2. CASE WriteScreen \/ WriteAction \/ WriteNote
  <2>1. \E event \in EventSet : Record(event)  BY <1>2 DEF WriteScreen, WriteAction, WriteNote, EventSet
  <2> QED  BY <1>1, <2>1
<1>3. CASE CloseTruncates
  <2>1. <<>> \in Seq(EventSet)  OBVIOUS
  <2> QED  BY <1>3, <2>1 DEF CloseTruncates, IsTrace
<1>4. CASE CloseWrites
  <2>1. <<>> \in Seq(EventSet)  OBVIOUS
  <2> QED  BY <1>4, <2>1 DEF CloseWrites, IsTrace
<1>5. CASE Crash
  <2>1. <<>> \in Seq(EventSet)  OBVIOUS
  <2> QED  BY <1>5, <2>1 DEF Crash, IsTrace
<1>6. CASE ExtractTrace  BY <1>6 DEF ExtractTrace
<1>7. CASE ReplayOwn  BY <1>7 DEF ReplayOwn
<1>8. CASE RecordAgain
  <2>1. newer' = file \/ newer' \in Variations(file)  BY <1>8 DEF RecordAgain
  <2>2. IsTrace(newer')  BY <2>1, VariationIs
  <2> QED  BY <1>8, <2>2 DEF RecordAgain, IsTrace
<1>9. CASE Compare  BY <1>9 DEF Compare
<1>10. CASE ExtractSecond  BY <1>10 DEF ExtractSecond
<1>11. CASE ReplayPackage  BY <1>11 DEF ReplayPackage
<1>12. CASE UNCHANGED captureVars  BY <1>12 DEF captureVars
<1> QED
  BY <1>2, <1>3, <1>4, <1>5, <1>6, <1>7, <1>8, <1>9, <1>10, <1>11, <1>12 DEF CaptureNext

LEMMA FramedStep == Framed /\ [CaptureNext]_captureVars => Framed'
<1> SUFFICES ASSUME Framed, [CaptureNext]_captureVars PROVE Framed'  OBVIOUS
<1> USE DEF Framed
<1>1. CASE WriteScreen \/ WriteAction \/ WriteNote
  BY <1>1 DEF WriteScreen, WriteAction, WriteNote, Record
<1>2. CASE CloseTruncates  BY <1>2 DEF CloseTruncates
<1>3. CASE CloseWrites  BY <1>3 DEF CloseWrites
<1>4. CASE Crash  BY <1>4 DEF Crash
<1>5. CASE ExtractTrace  BY <1>5 DEF ExtractTrace
<1>6. CASE ReplayOwn  BY <1>6 DEF ReplayOwn
<1>7. CASE RecordAgain  BY <1>7 DEF RecordAgain
<1>8. CASE Compare  BY <1>8 DEF Compare
<1>9. CASE ExtractSecond  BY <1>9 DEF ExtractSecond
<1>10. CASE ReplayPackage  BY <1>10 DEF ReplayPackage
<1>11. CASE UNCHANGED captureVars  BY <1>11 DEF captureVars
<1> QED
  BY <1>1, <1>2, <1>3, <1>4, <1>5, <1>6, <1>7, <1>8, <1>9, <1>10, <1>11 DEF CaptureNext

LEMMA ConcludedStep == Concluded /\ [CaptureNext]_captureVars => Concluded'
<1> SUFFICES ASSUME Concluded, [CaptureNext]_captureVars PROVE Concluded'  OBVIOUS
<1> USE DEF Concluded
<1>1. CASE WriteScreen \/ WriteAction \/ WriteNote
  BY <1>1 DEF WriteScreen, WriteAction, WriteNote, Record
<1>2. CASE CloseTruncates  BY <1>2 DEF CloseTruncates
<1>3. CASE CloseWrites  BY <1>3 DEF CloseWrites
<1>4. CASE Crash  BY <1>4 DEF Crash
<1>5. CASE ExtractTrace  BY <1>5 DEF ExtractTrace
<1>6. CASE ReplayOwn  BY <1>6 DEF ReplayOwn
<1>7. CASE RecordAgain  BY <1>7 DEF RecordAgain
<1>8. CASE Compare  BY <1>8 DEF Compare
<1>9. CASE ExtractSecond  BY <1>9 DEF ExtractSecond
<1>10. CASE ReplayPackage  BY <1>10 DEF ReplayPackage
<1>11. CASE UNCHANGED captureVars  BY <1>11 DEF captureVars
<1> QED
  BY <1>1, <1>2, <1>3, <1>4, <1>5, <1>6, <1>7, <1>8, <1>9, <1>10, <1>11 DEF CaptureNext

(* The inductive invariant of a capture and the commands after it: the file  *)
(* and the traces are of the events a session may record, and each result is *)
(* of the contract of the file (adapter_protocol.py: TraceWriter, cli.py).   *)
THEOREM CaptureInvHolds == CaptureSpec => []CaptureInv
<1>1. CaptureInit => CaptureInv
  <2> SUFFICES ASSUME CaptureInit PROVE CaptureInv  OBVIOUS
  <2>1. IsTrace(file) /\ IsTrace(events) /\ IsTrace(newer) /\ map \in Maps
    <3>1. <<>> \in Seq(EventSet)  OBVIOUS
    <3> QED  BY <3>1, EventsAssumption DEF CaptureInit, IsTrace
  <2>2. Framed /\ Concluded  BY DEF CaptureInit, Framed, Concluded
  <2> QED  BY <2>1, <2>2 DEF CaptureInv, Traced
<1>2. CaptureInv /\ [CaptureNext]_captureVars => CaptureInv'
  BY FramedStep, TracedStep, ConcludedStep DEF CaptureInv
<1> QED  BY <1>1, <1>2, PTL DEF CaptureSpec

(* Wherever a capturing program ends, a contract without blockers is of the  *)
(* whole of a session that was closed.                                       *)
THEOREM WholeHolds == CaptureSpec => []ContractIsOfAWholeSession
<1>1. CaptureInv => ContractIsOfAWholeSession
  <2> SUFFICES ASSUME CaptureInv, contract # <<>>, contract.blockers = {} PROVE file \in sessions
    BY DEF ContractIsOfAWholeSession
  <2>1. contract = Extract(file, ForCase(map, "a"), options)  BY DEF CaptureInv, Framed
  <2>2. Screens(<<>>) = {}  BY DEF Screens
  <2>3. file # <<>>  BY <2>1, <2>2, NothingIsBlocked
  <2> QED  BY <2>3 DEF CaptureInv, Framed
<1> QED  BY <1>1, CaptureInvHolds, PTL

(* The contract of the file, in the terms of the lemmas.                     *)
LEMMA FileContract ==
  ASSUME CaptureInv, stage \in {"extracted", "replayed", "again", "compared", "packaged", "package_replayed"}
  PROVE  /\ IsMap(ForCase(map, "a")) /\ IsTrace(file) /\ IsTrace(newer)
         /\ ExtractedFrom(contract, file, ForCase(map, "a"), options.redact)
         /\ contract.blockers = {} => Screens(file) # {}
<1>1. map \in Maps /\ IsTrace(file) /\ IsTrace(newer)  BY DEF CaptureInv, Traced
<1>2. IsMap(ForCase(map, "a"))  BY <1>1, ForCaseIs
<1>3. contract = Extract(file, ForCase(map, "a"), options)  BY DEF CaptureInv, Concluded
<1>4. contract.blockers = {} => Screens(file) # {}  BY <1>3, NothingIsBlocked
<1> QED  BY <1>1, <1>2, <1>3, <1>4, ExtractIs

(* The replay test made from a trace passes on it, but for what a reviewer   *)
(* can see in it, whatever the traces and the field maps are.                *)
THEOREM OwnReplayHolds == CaptureSpec => []OwnReplayFailsOnlyFor
<1>1. CaptureInv => OwnReplayFailsOnlyFor
  <2> SUFFICES ASSUME CaptureInv, stage = "replayed", contract.blockers = {},
                      ~Unframed(file), ~ScreensInARow(file, contract.map),
                      OneName(contract.request), OneName(contract.response), ~TypedTwice(file, contract.request),
                      \A k \in DOMAIN contract.response : ~Unsized(file, contract.map, contract.response[k])
               PROVE  result = {}
    BY DEF OwnReplayFailsOnlyFor
  <2> DEFINE m == ForCase(map, "a")
  <2>1. IsMap(m) /\ IsTrace(file) /\ ExtractedFrom(contract, file, m, options.redact) /\ Screens(file) # {}  BY FileContract
  <2>2. contract.map = m  BY <2>1 DEF ExtractedFrom
  <2>3. result = ReplayFaults(contract, contract, file)  BY DEF CaptureInv, Concluded
  <2> HIDE DEF m
  <2>4. ReplayFaults(contract, contract, file) = {}  BY <2>1, <2>2, OwnReplays
  <2> QED  BY <2>3, <2>4
<1> QED  BY <1>1, CaptureInvHolds, PTL

(* A newer trace that is compatible replays the recorded case up to what is  *)
(* put in and shown, and the trace of the contract is compatible.            *)
THEOREM CompatibleHolds == CaptureSpec => []CompatibleReplays
<1>1. CaptureInv => CompatibleReplays
  <2> SUFFICES ASSUME CaptureInv, stage = "compared", result.own = {}
               PROVE  /\ newer = file /\ ~TwoPlaces(file, contract.map) => result.changes = {}
                      /\ DriftStatus(result.changes) = "compatible" /\ SameShape(newer, file)
                           => result.faults \subseteq {"input", "response"}
    BY DEF CompatibleReplays
  <2> DEFINE m == ForCase(map, "a")
  <2>1. IsMap(m) /\ IsTrace(file) /\ IsTrace(newer) /\ ExtractedFrom(contract, file, m, options.redact)  BY FileContract
  <2>2. contract.map = m  BY <2>1 DEF ExtractedFrom
  <2>3. /\ result.changes = Changes(contract, newer, m) /\ result.faults = ReplayFaults(contract, contract, newer)
        /\ result.own = ReplayFaults(contract, contract, file)
    BY <2>2 DEF CaptureInv, Concluded
  <2> HIDE DEF m
  <2>4. ASSUME newer = file, ~TwoPlaces(file, contract.map) PROVE result.changes = {}
    BY <2>1, <2>2, <2>3, <2>4, OwnChanges
  <2>5. ASSUME DriftStatus(result.changes) = "compatible", SameShape(newer, file)
        PROVE  result.faults \subseteq {"input", "response"}
    <3>1. result.changes = {}  BY <2>5 DEF DriftStatus
    <3> QED  BY <2>1, <2>3, <2>5, <3>1, UnchangedReplays
  <2> QED  BY <2>4, <2>5
<1> QED  BY <1>1, CaptureInvHolds, PTL

(* A case that replays by itself replays in its package.                     *)
THEOREM PackageHolds == CaptureSpec => []PackageKeepsReplay
<1>1. CaptureInv => PackageKeepsReplay
  <2> DEFINE more == MergedContract(contract, second)
             Mixed(trace) == Clash(more.response, trace) \/ Shadowed(more.request \o more.response, trace)
  <2> SUFFICES ASSUME CaptureInv, stage = "package_replayed", contract.map = second.map, OneName(more.request)
               PROVE  /\ result.own = {} /\ ~Mixed(file) => result.first = {}
                      /\ result.alone = {} /\ ~Mixed(newer) => result.second = {}
    BY DEF PackageKeepsReplay
  <2> DEFINE m == ForCase(map, "a")
             n == ForCase(map, "b")
  <2>1. IsMap(m) /\ IsTrace(file) /\ IsTrace(newer) /\ ExtractedFrom(contract, file, m, options.redact)  BY FileContract
  <2>2. IsMap(n) /\ ExtractedFrom(second, newer, n, options.redact)
    <3>1. map \in Maps /\ second = Extract(newer, n, options)  BY DEF CaptureInv, Traced, Concluded
    <3>2. IsMap(n)  BY <3>1, ForCaseIs
    <3> HIDE DEF n
    <3> QED  BY <2>1, <3>1, <3>2, ExtractIs
  <2>3. /\ result.own = ReplayFaults(contract, contract, file) /\ result.alone = ReplayFaults(second, second, newer)
        /\ result.first = ReplayFaults(more, contract, file) /\ result.second = ReplayFaults(more, second, newer)
    BY DEF CaptureInv, Concluded
  <2> HIDE DEF m, n
  <2>4. PlacedFields(contract) /\ PlacedFields(second) /\ {"request", "response"} \subseteq DOMAIN contract
    BY <2>1, <2>2 DEF ExtractedFrom, PlacedFields, Standing
  <2>5. /\ more.map = contract.map /\ PlacedFields(more)
        /\ \A k \in DOMAIN contract.request : \E j \in DOMAIN more.request : SameField(more.request[j], contract.request[k])
        /\ \A k \in DOMAIN contract.response : \E j \in DOMAIN more.response : SameField(more.response[j], contract.response[k])
        /\ \A k \in DOMAIN second.request : \E j \in DOMAIN more.request : SameField(more.request[j], second.request[k])
        /\ \A k \in DOMAIN second.response : \E j \in DOMAIN more.response : SameField(more.response[j], second.response[k])
    BY <2>4, MergedCovers
  <2> HIDE DEF more
  <2>6. ASSUME result.own = {}, ~Mixed(file) PROVE result.first = {}
    <3>1. Covers(more, contract, file)  BY <2>5, <2>6 DEF Covers, FieldsOf
    <3> QED  BY <2>1, <2>3, <2>6, <3>1, CoveredReplays
  <2>7. ASSUME result.alone = {}, ~Mixed(newer) PROVE result.second = {}
    <3>1. Covers(more, second, newer)  BY <2>5, <2>7 DEF Covers, FieldsOf
    <3> QED  BY <2>1, <2>2, <2>3, <2>7, <3>1, CoveredReplays
  <2> QED  BY <2>6, <2>7
<1> QED  BY <1>1, CaptureInvHolds, PTL
=============================================================================
