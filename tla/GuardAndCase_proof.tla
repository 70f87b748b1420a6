------------------------- MODULE GuardAndCase_proof -------------------------
(* Two parts that decide by what they keep.                                  *)
(*                                                                           *)
(* The browser extension: for every page, every set of policies and every    *)
(* text, the page's type invariant, the accounting of confirmed submits, and *)
(* the refinement of the gate.  Every step of the page is one of six moves   *)
(* (lemma Moves); the theorems then look at the moves only.  Before them,    *)
(* what the decision promises for every score, every set of matched          *)
(* categories and every policy that validatePolicy accepts.  After them,     *)
(* what the audit list keeps, for any number of calls and tabs, any limits   *)
(* and any order of their steps.                                             *)
(*                                                                           *)
(* The case file (from Good on), which write_text saves: however many        *)
(* processes update it, whatever records they bring, however they overlap    *)
(* and wherever they are killed.                                             *)
EXTENDS EgressGuard, AuditStore, CaseFile,
        FiniteSetTheorems, SequenceTheorems, NaturalsInduction, WellFoundedInduction, TLAPS

-----------------------------------------------------------------------------
(* strongestAction returns an action that no action it was given outranks,   *)
(* and one of them unless it is ALLOW (scoring.ts: strongestAction).         *)
LEMMA StrongestIsStrongest ==
  ASSUME NEW S \in SUBSET Action
  PROVE  /\ StrongestAction(S) \in S \cup {"ALLOW"}
         /\ \A b \in S \cup {"ALLOW"} : ActionRank[b] <= ActionRank[StrongestAction(S)]
<1> DEFINE T == S \cup {"ALLOW"}
<1>1. T \subseteq Action  BY DEF Action
<1>2. \E a \in T : \A b \in T : ActionRank[b] <= ActionRank[a]
  <2>1. CASE "BLOCK" \in T                     BY <2>1, <1>1 DEF Action, ActionRank
  <2>2. CASE "BLOCK" \notin T /\ "REDIRECT" \in T
    BY <2>2, <1>1 DEF Action, ActionRank
  <2>3. CASE "BLOCK" \notin T /\ "REDIRECT" \notin T /\ "WARN" \in T
    BY <2>3, <1>1 DEF Action, ActionRank
  <2>4. CASE "BLOCK" \notin T /\ "REDIRECT" \notin T /\ "WARN" \notin T
    BY <2>4, <1>1 DEF Action, ActionRank
  <2> QED  BY <2>1, <2>2, <2>3, <2>4
<1> QED  BY <1>2 DEF StrongestAction

LEMMA StrongestInAction ==
  ASSUME NEW S \in SUBSET Action
  PROVE  StrongestAction(S) \in Action
BY StrongestIsStrongest DEF Action

(* The thresholds name an action, the default one included.                  *)
LEMMA ThresholdsInAction ==
  ASSUME NEW rules, PolicyValid(rules), NEW score
  PROVE  ActionFromThresholds(score, rules) \in Action
BY DEF PolicyValid, ActionFromThresholds, Action

LEMMA ModeInAction ==
  ASSUME NEW a \in Action, NEW mode
  PROVE  ApplyPolicyMode(a, mode) \in Action
BY DEF ApplyPolicyMode, Action

(* A higher score never gets a weaker action from the thresholds, under a    *)
(* default action no stronger than WARN.                                     *)
LEMMA ThresholdsMonotone ==
  ASSUME NEW rules, PolicyValid(rules),
         ActionRank[rules.default_action] <= ActionRank["WARN"],
         NEW low \in Nat, NEW high \in Nat, low <= high
  PROVE  ActionRank[ActionFromThresholds(low, rules)]
           <= ActionRank[ActionFromThresholds(high, rules)]
<1> DEFINE a == ActionFromThresholds(low, rules)
           b == ActionFromThresholds(high, rules)
<1>a. /\ rules.warn_score \in Nat /\ rules.redirect_score \in Nat /\ rules.block_score \in Nat
      /\ rules.block_score > rules.redirect_score /\ rules.redirect_score > rules.warn_score
      /\ rules.default_action \in {"ALLOW", "WARN"}
  <2>1. /\ rules.warn_score \in 0..100 /\ rules.redirect_score \in 0..100 /\ rules.block_score \in 0..100
        /\ rules.block_score > rules.redirect_score /\ rules.redirect_score > rules.warn_score
        /\ rules.default_action \in Action
    BY DEF PolicyValid
  <2>2. \A x \in Action : ActionRank[x] <= ActionRank["WARN"] => x \in {"ALLOW", "WARN"}  BY DEF Action, ActionRank
  <2>3. rules.default_action \in {"ALLOW", "WARN"}  BY <2>1, <2>2
  <2> QED  BY <2>1, <2>3
<1>b. a \in {"ALLOW", "WARN", "REDIRECT", "BLOCK"} /\ b \in {"ALLOW", "WARN", "REDIRECT", "BLOCK"}
  BY <1>a DEF ActionFromThresholds
<1>1. CASE high >= rules.block_score
  <2>1. b = "BLOCK"  BY <1>a, <1>1 DEF ActionFromThresholds
  <2> QED  BY <1>b, <2>1 DEF ActionRank
<1>2. CASE high < rules.block_score /\ high >= rules.redirect_score
  <2>1. b = "REDIRECT"  BY <1>a, <1>2 DEF ActionFromThresholds
  <2>2. a # "BLOCK"  BY <1>a, <1>2 DEF ActionFromThresholds
  <2> QED  BY <1>b, <2>1, <2>2 DEF ActionRank
<1>3. CASE high < rules.redirect_score /\ high >= rules.warn_score
  <2>1. b = "WARN"  BY <1>a, <1>3 DEF ActionFromThresholds
  <2>2. a \in {"ALLOW", "WARN"}  BY <1>a, <1>3 DEF ActionFromThresholds
  <2> QED  BY <2>1, <2>2 DEF ActionRank
<1>4. CASE high < rules.warn_score
  <2>1. b = rules.default_action  BY <1>a, <1>4 DEF ActionFromThresholds
  <2>2. a = rules.default_action  BY <1>a, <1>4 DEF ActionFromThresholds
  <2> QED  BY <1>a, <2>1, <2>2 DEF ActionRank
<1> QED  BY <1>a, <1>1, <1>2, <1>3, <1>4

LEMMA ModeMonotone ==
  ASSUME NEW a \in Action, NEW b \in Action, NEW mode, ActionRank[a] <= ActionRank[b]
  PROVE  ActionRank[ApplyPolicyMode(a, mode)] <= ActionRank[ApplyPolicyMode(b, mode)]
BY DEF ApplyPolicyMode, Action, ActionRank

(* More of what strongestAction looks at never weakens its answer.           *)
LEMMA StrongestMonotone ==
  ASSUME NEW S \in SUBSET Action, NEW T \in SUBSET Action,
         \A a \in S : \E b \in T \cup {"ALLOW"} : ActionRank[a] <= ActionRank[b]
  PROVE  ActionRank[StrongestAction(S)] <= ActionRank[StrongestAction(T)]
<1> DEFINE s == StrongestAction(S)
           t == StrongestAction(T)
<1>1. s \in S \cup {"ALLOW"} /\ t \in Action
  BY StrongestIsStrongest, StrongestInAction
<1>2. \A b \in T \cup {"ALLOW"} : ActionRank[b] <= ActionRank[t]
  BY StrongestIsStrongest
<1>3. PICK b \in T \cup {"ALLOW"} : ActionRank[s] <= ActionRank[b]
  <2> HIDE DEF s, t
  <2>1. CASE s \in S  BY <2>1
  <2>2. CASE s = "ALLOW"
    <3>1. ActionRank[s] <= ActionRank["ALLOW"]  BY <2>2 DEF ActionRank
    <3> QED  BY <3>1
  <2> QED  BY <1>1, <2>1, <2>2
<1>4. ActionRank[b] <= ActionRank[t]  BY <1>2
<1>5. s \in Action /\ b \in Action  BY <1>1 DEF Action
<1> HIDE DEF s, t
<1>6. ActionRank[s] \in Nat /\ ActionRank[b] \in Nat /\ ActionRank[t] \in Nat
  BY <1>1, <1>5 DEF Action, ActionRank
<1>7. ActionRank[s] <= ActionRank[t]  BY <1>3, <1>4, <1>6
<1> QED  BY <1>7 DEF s, t

(* The action of a scan is always one of the four (decision.ts: scanPrompt). *)
THEOREM DecisionInAction ==
  ASSUME NEW rules, PolicyValid(rules), NEW score, NEW C \in SUBSET Category
  PROVE  DecideAction(score, C, rules) \in Action
<1> DEFINE S == {ActionFromThresholds(score, rules)} \cup {rules.category_actions[c] : c \in C}
<1>1. S \subseteq Action  BY ThresholdsInAction DEF PolicyValid
<1>2. StrongestAction(S) \in Action  BY <1>1, StrongestInAction
<1> QED  BY <1>2, ModeInAction DEF DecideAction

(* A higher score and more matched categories never weaken the decision of   *)
(* scoring.ts: decideAction, under a default action no stronger than WARN.   *)
THEOREM DecisionMonotone ==
  ASSUME NEW rules, PolicyValid(rules),
         ActionRank[rules.default_action] <= ActionRank["WARN"],
         NEW low \in Nat, NEW high \in Nat, low <= high,
         NEW C \in SUBSET Category, NEW D \in SUBSET Category, C \subseteq D
  PROVE  ActionRank[DecideAction(low, C, rules)] <= ActionRank[DecideAction(high, D, rules)]
<1> DEFINE S == {ActionFromThresholds(low, rules)} \cup {rules.category_actions[c] : c \in C}
           T == {ActionFromThresholds(high, rules)} \cup {rules.category_actions[c] : c \in D}
<1>1. S \subseteq Action /\ T \subseteq Action  BY ThresholdsInAction DEF PolicyValid
<1>2. \A a \in S : \E b \in T \cup {"ALLOW"} : ActionRank[a] <= ActionRank[b]
  <2> SUFFICES ASSUME NEW a \in S
               PROVE  \E b \in T : ActionRank[a] <= ActionRank[b]
    OBVIOUS
  <2>1. CASE a = ActionFromThresholds(low, rules)
    BY <2>1, ThresholdsMonotone
  <2>2. CASE a \in {rules.category_actions[c] : c \in C}
    <3>1. a \in T  BY <2>2
    <3>2. ActionRank[a] <= ActionRank[a]  BY <1>1 DEF Action, ActionRank
    <3> QED  BY <3>1, <3>2
  <2> QED  BY <2>1, <2>2
<1>3. ActionRank[StrongestAction(S)] <= ActionRank[StrongestAction(T)]
  BY <1>1, <1>2, StrongestMonotone
<1>4. StrongestAction(S) \in Action /\ StrongestAction(T) \in Action
  BY <1>1, StrongestInAction
<1> QED  BY <1>3, <1>4, ModeMonotone DEF DecideAction

(* In enforce mode a prompt is let through exactly when neither the score,   *)
(* nor the default action, nor a matched category objects: the decision part *)
(* of ScanAction (decision.ts), for every policy.                            *)
THEOREM AllowedOnlyUnobjected ==
  ASSUME NEW rules, PolicyValid(rules), rules.mode = "enforce",
         NEW score \in Nat, NEW C \in SUBSET Category
  PROVE  DecideAction(score, C, rules) = "ALLOW" <=>
           /\ score < rules.warn_score
           /\ rules.default_action = "ALLOW"
           /\ \A c \in C : rules.category_actions[c] = "ALLOW"
<1> DEFINE base == ActionFromThresholds(score, rules)
           S == {base} \cup {rules.category_actions[c] : c \in C}
<1>1. S \subseteq Action  BY ThresholdsInAction DEF PolicyValid
<1>2. DecideAction(score, C, rules) = StrongestAction(S)
  BY DEF DecideAction, ApplyPolicyMode
<1>3. StrongestAction(S) = "ALLOW" <=> \A a \in S : a = "ALLOW"
  <2>1. ASSUME StrongestAction(S) = "ALLOW", NEW a \in S  PROVE a = "ALLOW"
    <3>1. ActionRank[a] <= 0  BY <1>1, <2>1, StrongestIsStrongest DEF ActionRank
    <3> QED  BY <3>1, <1>1 DEF Action, ActionRank
  <2>2. ASSUME \A a \in S : a = "ALLOW"  PROVE StrongestAction(S) = "ALLOW"
    BY <1>1, <2>2, StrongestIsStrongest
  <2> QED  BY <2>1, <2>2
<1>4. base = "ALLOW" <=> score < rules.warn_score /\ rules.default_action = "ALLOW"
  <2>0. /\ score \in Int /\ rules.warn_score \in Int
        /\ rules.redirect_score \in Int /\ rules.block_score \in Int
        /\ rules.block_score > rules.redirect_score /\ rules.redirect_score > rules.warn_score
    BY DEF PolicyValid
  <2>1. CASE score < rules.warn_score
    BY <2>0, <2>1, SMTT(30) DEF ActionFromThresholds
  <2>2. CASE score >= rules.warn_score
    <3>1. base \in {"WARN", "REDIRECT", "BLOCK"}  BY <2>0, <2>2, SMTT(30) DEF ActionFromThresholds
    <3> HIDE DEF base
    <3>2. ~(score < rules.warn_score)  BY <2>0, <2>2
    <3> QED  BY <3>1, <3>2
  <2> QED  BY <2>0, <2>1, <2>2
<1> QED  BY <1>2, <1>3, <1>4

-----------------------------------------------------------------------------

Safe == {p \in Prompts : Verdict(p) = "ALLOW"}

(* A marked form went through unscanned.                                     *)
Bypassed(marks) ==
  /\ \E f \in marks \cap Forms : confirmed' = marks \ {f}
  /\ bypasses' = bypasses + 1
  /\ sent \subseteq sent' /\ sent' \subseteq Prompts
  /\ UNCHANGED <<overlays, audits, misread>>

(* A scan allowed a submit, or no submit event was dispatched.               *)
Scanned ==
  /\ sent \subseteq sent' /\ sent' \subseteq Prompts
  /\ \/ sent' \subseteq sent \cup Safe /\ misread' = misread
     \/ misread' = TRUE
  /\ UNCHANGED <<confirmed, bypasses, overlays, audits, continues>>

Stopped ==
  /\ overlays' \in Seq(Overlay) /\ Len(overlays') = Len(overlays) + 1
  /\ audits' = [audits EXCEPT !["none"] = @ + 1]
  /\ UNCHANGED <<confirmed, bypasses, sent, misread, continues>>

Quiet ==
  /\ overlays' \in Seq(Overlay) /\ Len(overlays') <= Len(overlays)
  /\ audits' \in [UserDecision -> Nat] /\ audits'["none"] = audits["none"]
  /\ audits'["redirect_opened"] # audits["redirect_opened"] => Len(overlays) > 0
  /\ UNCHANGED <<confirmed, bypasses, sent, misread, continues>>

Paid ==
  /\ "WARN" \in policy.continue
  /\ Len(overlays) > 0
  /\ continues' = continues + 1

Marked(t) ==
  /\ confirmed' = confirmed \cup {t}
  /\ UNCHANGED <<bypasses, overlays, audits, sent, misread>>

Typed ==
  /\ policy' = policy
  /\ text' \in [Boxes -> Prompts \cup {Blank}]
  /\ active' \in Boxes \cup {NoFocus}

-----------------------------------------------------------------------------
LEMMA LoadedType ==
  ASSUME NEW p \in LoadedPolicies
  PROVE  p.verdict \in [Prompts -> Action] /\ p.continue \subseteq Action
<1>1. PICK q \in Policies : p = Loaded(q)  BY DEF LoadedPolicies
<1>2. PolicyValid(q) /\ q.continue \subseteq {"WARN", "REDIRECT", "BLOCK"}
  BY PolicyAssumption
<1>3. \A x \in Prompts : ScanAction(PatternsIn[x], q) \in Action
  <2> TAKE x \in Prompts
  <2>1. Matched(PatternsIn[x]) \in SUBSET Category  BY DEF Matched
  <2> QED  BY <1>2, <2>1, DecisionInAction DEF ScanAction
<1> QED  BY <1>1, <1>2, <1>3 DEF Loaded, Action

LEMMA VerdictType ==
  ASSUME TypeOK, NEW p \in Prompts \cup {Blank}
  PROVE  Verdict(p) \in Action
BY LoadedType DEF TypeOK, Verdict, Action

LEMMA CapturedType ==
  ASSUME TypeOK, NEW form
  PROVE  Captured(form) \subseteq Prompts \cup {Blank}
<1>1. CapturedBoxes(form) \subseteq Boxes  BY DEF CapturedBoxes, Candidates
<1> QED  BY <1>1 DEF Captured, TypeOK

LEMMA TextsType ==
  ASSUME TypeOK, NEW form
  PROVE  TextsOf(form) \subseteq Prompts
BY DEF TextsOf, TypeOK

(* What a submit lets out when the scan judged the text that is sent.        *)
LEMMA ReleaseEffect ==
  ASSUME TypeOK, NEW form, Release(form)
  PROVE  /\ sent \subseteq sent' /\ sent' \subseteq Prompts
         /\ text' \in [Boxes -> Prompts \cup {Blank}]
BY TextsType DEF TypeOK, Release

LEMMA StopEffect ==
  ASSUME TypeOK, NEW t \in Elements, NEW p \in Prompts \cup {Blank},
         Verdict(p) # "ALLOW", Stop(t, p), UNCHANGED <<confirmed, continues>>
  PROVE  Stopped /\ text' = text
<1>1. p \in Prompts  BY DEF Verdict
<1>2. [target |-> t, action |-> Verdict(p), prompt |-> p] \in Overlay
  BY <1>1, VerdictType DEF Overlay
<1>3. overlays' \in Seq(Overlay) /\ Len(overlays') = Len(overlays) + 1
  BY <1>2, AppendProperties DEF Stop, TypeOK
<1> QED  BY <1>3 DEF Stopped, Stop, Audit, Hold

(* What the submit listener does to an unmarked form.                        *)
LEMMA ScanEffect ==
  ASSUME TypeOK, NEW form \in Forms, form \notin confirmed,
         SubmitEvent(form, confirmed), UNCHANGED continues
  PROVE  (Scanned \/ Stopped) /\ text' \in [Boxes -> Prompts \cup {Blank}]
<1>1. confirmed' = confirmed  BY DEF SubmitEvent
<1>2. PICK p \in Captured(form) :
        \/ /\ Verdict(p) = "ALLOW"
           /\ Release(form)
           /\ misread' = (misread \/ ~ TextsOf(form) \subseteq {p})
           /\ UNCHANGED <<overlays, audits, bypasses>>
        \/ Verdict(p) # "ALLOW" /\ Stop(form, p)
  BY DEF SubmitEvent
<1>3. p \in Prompts \cup {Blank}  BY CapturedType
<1>4. CASE Verdict(p) = "ALLOW"
  <2>1. sent \subseteq sent' /\ sent' \subseteq Prompts
        /\ text' \in [Boxes -> Prompts \cup {Blank}]
    BY <1>2, <1>4, ReleaseEffect
  <2>2. CASE TextsOf(form) \subseteq {p}
    <3>1. sent' \subseteq sent \cup Safe
      BY <1>2, <1>4, <2>2, TextsType DEF Release, Safe
    <3>2. misread' = misread  BY <1>2, <1>4, <2>2 DEF TypeOK
    <3> QED  BY <1>1, <1>2, <1>4, <2>1, <3>1, <3>2 DEF Scanned
  <2>3. CASE ~ TextsOf(form) \subseteq {p}
    BY <1>1, <1>2, <1>4, <2>1, <2>3 DEF Scanned
  <2> QED  BY <2>2, <2>3
<1>5. CASE Verdict(p) # "ALLOW"
  BY <1>1, <1>2, <1>3, <1>5, StopEffect DEF Elements, TypeOK
<1> QED  BY <1>4, <1>5

LEMMA BypassEffect ==
  ASSUME TypeOK, NEW form \in Forms, NEW marks, form \in marks, SubmitEvent(form, marks)
  PROVE  Bypassed(marks) /\ text' \in [Boxes -> Prompts \cup {Blank}]
BY ReleaseEffect DEF SubmitEvent, Bypassed

(* A submit the browser is asked for, with the marks as they are.            *)
LEMMA RequestEffect ==
  ASSUME TypeOK, NEW form \in Forms, RequestSubmit(form, confirmed), UNCHANGED continues
  PROVE  /\ Bypassed(confirmed) \/ Scanned \/ Stopped
         /\ text' \in [Boxes -> Prompts \cup {Blank}]
<1>1. CASE SubmitEvent(form, confirmed) /\ form \in confirmed
  BY <1>1, BypassEffect
<1>2. CASE SubmitEvent(form, confirmed) /\ form \notin confirmed
  BY <1>2, ScanEffect
<1>3. CASE confirmed' = confirmed /\ Hold /\ UNCHANGED <<overlays, audits, bypasses>>
  BY <1>3 DEF Hold, Scanned, TypeOK
<1> QED  BY <1>1, <1>2, <1>3 DEF RequestSubmit

LEMMA GestureEffect ==
  ASSUME TypeOK, NEW t \in Boxes \cup Buttons, ScannedGesture(t), UNCHANGED continues
  PROVE  /\ Bypassed(confirmed) \/ Scanned \/ Stopped
         /\ text' \in [Boxes -> Prompts \cup {Blank}]
<1>1. FormOf[t] \in Forms  BY PageAssumption
<1>2. PICK p \in Captured(FormOf[t]) :
        \/ Verdict(p) # "ALLOW" /\ Stop(t, p) /\ UNCHANGED confirmed
        \/ Verdict(p) = "ALLOW" /\ RequestSubmit(FormOf[t], confirmed)
  BY DEF ScannedGesture
<1>3. p \in Prompts \cup {Blank}  BY CapturedType
<1>4. CASE Verdict(p) # "ALLOW"
  BY <1>2, <1>3, <1>4, StopEffect DEF Elements, TypeOK
<1>5. CASE Verdict(p) = "ALLOW"
  BY <1>1, <1>2, <1>5, RequestEffect
<1> QED  BY <1>4, <1>5

LEMMA ContinueEffect ==
  ASSUME TypeOK, NEW i \in DOMAIN overlays, Continue(i)
  PROVE  /\ Typed
         /\ \/ /\ UNCHANGED continues
               /\ Bypassed(confirmed) \/ Scanned \/ Stopped
            \/ /\ Paid
               /\ \E t \in Elements : Bypassed(confirmed \cup {t}) \/ Marked(t)
<1> DEFINE o == overlays[i]
<1>1. o \in Overlay /\ Len(overlays) > 0
  BY LenProperties DEF TypeOK
<1>2. o.target \in Elements /\ active \in Boxes \cup {NoFocus}
  BY <1>1 DEF Overlay, TypeOK
<1>3. policy' = policy /\ active' = active  BY DEF Continue
<1>4. CASE o.action = "WARN"
  <2>1. Paid  BY <1>1, <1>4 DEF Continue, Paid
  <2>2. CASE o.target \in Forms /\ SubmitEvent(o.target, confirmed \cup {o.target})
    <3>1. Bypassed(confirmed \cup {o.target}) /\ text' \in [Boxes -> Prompts \cup {Blank}]
      BY <2>2, BypassEffect
    <3> QED  BY <1>2, <1>3, <2>1, <3>1 DEF Typed
  <2>3. CASE confirmed' = confirmed \cup {o.target} /\ Hold /\ UNCHANGED <<overlays, audits, bypasses>>
    BY <1>2, <1>3, <2>1, <2>3 DEF Hold, Marked, Typed, TypeOK
  <2>4. \/ o.target \in Forms /\ RequestSubmit(o.target, confirmed \cup {o.target})
        \/ confirmed' = confirmed \cup {o.target} /\ Hold /\ UNCHANGED <<overlays, audits, bypasses>>
    BY <1>4 DEF Continue
  <2> QED  BY <2>2, <2>3, <2>4 DEF RequestSubmit
<1>5. CASE o.action # "WARN"
  <2>1. continues' = continues  BY <1>5 DEF Continue
  <2>2. CASE o.target \in Forms /\ RequestSubmit(o.target, confirmed)
    BY <1>2, <1>3, <2>1, <2>2, RequestEffect DEF Typed
  <2>3. CASE confirmed' = confirmed /\ Hold /\ UNCHANGED <<overlays, audits, bypasses>>
    BY <1>2, <1>3, <2>1, <2>3 DEF Hold, Scanned, Typed, TypeOK
  <2>4. \/ o.target \in Forms /\ RequestSubmit(o.target, confirmed)
        \/ confirmed' = confirmed /\ Hold /\ UNCHANGED <<overlays, audits, bypasses>>
    BY <1>5 DEF Continue
  <2> QED  BY <2>2, <2>3, <2>4
<1> QED  BY <1>4, <1>5

(* The buttons of an overlay that submit nothing.                            *)
LEMMA ButtonEffect ==
  ASSUME TypeOK, NEW i \in DOMAIN overlays, Redirect(i) \/ CopyPrompt(i) \/ Cancel(i)
  PROVE  Typed /\ Quiet
<1>1. Len(overlays) \in Nat /\ Len(overlays) > 0 /\ i \in 1..Len(overlays)
  BY LenProperties DEF TypeOK
<1>2. CASE Redirect(i)
  BY <1>1, <1>2 DEF Redirect, Audit, Quiet, Typed, TypeOK, UserDecision
<1>3. CASE CopyPrompt(i)
  BY <1>1, <1>3 DEF CopyPrompt, Audit, Quiet, Typed, TypeOK, UserDecision
<1>4. CASE Cancel(i)
  <2> DEFINE front == SubSeq(overlays, 1, i - 1)
             back  == SubSeq(overlays, i + 1, Len(overlays))
  <2>1. front \in Seq(Overlay) /\ Len(front) = i - 1
    BY <1>1, SubSeqProperties DEF TypeOK
  <2>2. back \in Seq(Overlay) /\ Len(back) = Len(overlays) - i
    BY <1>1, SubSeqProperties DEF TypeOK
  <2>3. overlays' = front \o back  BY <1>4 DEF Cancel, RemoveAt
  <2> HIDE DEF front, back
  <2>4. overlays' \in Seq(Overlay) /\ Len(overlays') <= Len(overlays)
    BY <1>1, <2>1, <2>2, <2>3, ConcatProperties
  <2> QED  BY <1>4, <2>4 DEF Cancel, Quiet, Typed, TypeOK
<1> QED  BY <1>2, <1>3, <1>4

LEMMA Moves ==
  ASSUME TypeOK, Next
  PROVE  /\ Typed
         /\ \/ UNCHANGED continues /\ Bypassed(confirmed)
            \/ Scanned
            \/ Stopped
            \/ Quiet
            \/ Paid /\ \E t \in Elements : Bypassed(confirmed \cup {t})
            \/ Paid /\ \E t \in Elements : Marked(t)
<1>1. ASSUME NEW x \in Boxes, NEW p \in Prompts \cup {Blank}, Type(x, p)
      PROVE  Typed /\ Quiet
  BY <1>1, LenProperties DEF Type, Typed, Quiet, TypeOK
<1>2. ASSUME NEW x \in Boxes \cup {NoFocus}, Focus(x)
      PROVE  Typed /\ Quiet
  BY <1>2, LenProperties DEF Focus, Typed, Quiet, TypeOK
<1>3. ASSUME NEW f \in Forms, Submit(f)
      PROVE  Typed /\ ((UNCHANGED continues /\ Bypassed(confirmed)) \/ Scanned \/ Stopped)
  BY <1>3, RequestEffect DEF Submit, Typed, TypeOK
<1>4. ASSUME NEW b \in Buttons, Click(b)
      PROVE  Typed /\ ((UNCHANGED continues /\ Bypassed(confirmed)) \/ Scanned \/ Stopped)
  BY <1>4, GestureEffect DEF Click, Typed, TypeOK
<1>5. ASSUME PressEnter
      PROVE  Typed /\ ((UNCHANGED continues /\ Bypassed(confirmed)) \/ Scanned \/ Stopped)
  BY <1>5, GestureEffect DEF PressEnter, Typed, TypeOK
<1> QED  BY <1>1, <1>2, <1>3, <1>4, <1>5, ContinueEffect, ButtonEffect DEF Next

-----------------------------------------------------------------------------
(* Marks and what they cost.                                                 *)
MarksPaid ==
  /\ IsFiniteSet(confirmed)
  /\ OneContinueOneBypass
  /\ continues > 0 => "WARN" \in policy.continue

LEMMA MarkCost ==
  ASSUME NEW M, IsFiniteSet(M), NEW t
  PROVE  /\ IsFiniteSet(M \cup {t})
         /\ Cardinality(M \cap Forms) \in Nat
         /\ Cardinality((M \cup {t}) \cap Forms) \in Nat
         /\ Cardinality((M \cup {t}) \cap Forms) <= Cardinality(M \cap Forms) + 1
<1>1. IsFiniteSet(M \cap Forms)  BY FS_Intersection
<1>2. IsFiniteSet(M \cup {t})  BY FS_AddElement
<1>3. Cardinality(M \cap Forms) \in Nat  BY <1>1, FS_CardinalityType
<1>4. CASE t \in Forms
  <2>1. (M \cup {t}) \cap Forms = (M \cap Forms) \cup {t}  BY <1>4
  <2>2. \/ Cardinality((M \cap Forms) \cup {t}) = Cardinality(M \cap Forms)
        \/ Cardinality((M \cap Forms) \cup {t}) = Cardinality(M \cap Forms) + 1
    BY <1>1, FS_AddElement
  <2> QED  BY <1>2, <1>3, <2>1, <2>2
<1>5. CASE t \notin Forms
  <2>1. (M \cup {t}) \cap Forms = M \cap Forms  BY <1>5
  <2> QED  BY <1>2, <1>3, <2>1
<1> QED  BY <1>4, <1>5

LEMMA UseCost ==
  ASSUME NEW M, IsFiniteSet(M), NEW f \in M \cap Forms
  PROVE  /\ IsFiniteSet(M \ {f})
         /\ Cardinality(M \cap Forms) \in Nat
         /\ Cardinality(M \cap Forms) > 0
         /\ Cardinality((M \ {f}) \cap Forms) = Cardinality(M \cap Forms) - 1
         /\ Cardinality((M \ {f}) \cap Forms) \in Nat
<1>1. IsFiniteSet(M \cap Forms)  BY FS_Intersection
<1>2. IsFiniteSet(M \ {f})  BY FS_RemoveElement
<1>3. (M \ {f}) \cap Forms = (M \cap Forms) \ {f}  OBVIOUS
<1>4. Cardinality((M \cap Forms) \ {f}) = Cardinality(M \cap Forms) - 1
  BY <1>1, FS_RemoveElement
<1>5. IsFiniteSet((M \cap Forms) \ {f})  BY <1>1, FS_RemoveElement
<1> QED  BY <1>1, <1>2, <1>3, <1>4, <1>5, FS_CardinalityType

-----------------------------------------------------------------------------
LEMMA InitTypeOK == Init => TypeOK
<1> SUFFICES ASSUME Init PROVE TypeOK  OBVIOUS
<1>1. overlays \in Seq(Overlay)  BY EmptySeq DEF Init
<1>2. confirmed \subseteq Elements  BY DEF Init
<1> QED  BY <1>1, <1>2 DEF Init, TypeOK

LEMMA NextTypeOK == TypeOK /\ [Next]_vars => TypeOK'
<1> SUFFICES ASSUME TypeOK, [Next]_vars PROVE TypeOK'  OBVIOUS
<1>1. CASE UNCHANGED vars  BY <1>1 DEF vars, TypeOK
<1>2. CASE Next
  <2>1. Typed  BY <1>2, Moves
  <2>2. policy' \in LoadedPolicies /\ text' \in [Boxes -> Prompts \cup {Blank}]
        /\ active' \in Boxes \cup {NoFocus}
    BY <2>1 DEF Typed, TypeOK
  <2>3. CASE UNCHANGED continues /\ Bypassed(confirmed)
    BY <2>2, <2>3 DEF Bypassed, TypeOK
  <2>4. CASE Scanned
    BY <2>2, <2>4 DEF Scanned, TypeOK
  <2>5. CASE Stopped
    BY <2>2, <2>5 DEF Stopped, TypeOK, UserDecision
  <2>6. CASE Quiet
    BY <2>2, <2>6 DEF Quiet, TypeOK
  <2>7. CASE Paid /\ \E t \in Elements : Bypassed(confirmed \cup {t})
    BY <2>2, <2>7 DEF Paid, Bypassed, TypeOK
  <2>8. CASE Paid /\ \E t \in Elements : Marked(t)
    BY <2>2, <2>8 DEF Paid, Marked, TypeOK
  <2> QED  BY <1>2, <2>3, <2>4, <2>5, <2>6, <2>7, <2>8, Moves
<1> QED  BY <1>1, <1>2

(* The page's type invariant, for every page and every policy.               *)
THEOREM TypeCorrect == Spec => []TypeOK
BY InitTypeOK, NextTypeOK, PTL DEF Spec

LEMMA NextMarksPaid == TypeOK /\ MarksPaid /\ [Next]_vars => MarksPaid'
<1> SUFFICES ASSUME TypeOK, MarksPaid, [Next]_vars PROVE MarksPaid'  OBVIOUS
<1> USE DEF OneContinueOneBypass
<1>1. CASE UNCHANGED vars  BY <1>1 DEF vars, MarksPaid
<1>2. CASE Next
  <2>1. policy' = policy  BY <1>2, Moves DEF Typed
  <2>2. bypasses \in Nat /\ continues \in Nat  BY DEF TypeOK
  <2>3. IsFiniteSet(confirmed) /\ Cardinality(confirmed \cap Forms) \in Nat
    BY MarkCost DEF MarksPaid
  <2>4. CASE UNCHANGED continues /\ Bypassed(confirmed)
    <3>1. PICK f \in confirmed \cap Forms : confirmed' = confirmed \ {f}
      BY <2>4 DEF Bypassed
    <3>2. /\ IsFiniteSet(confirmed')
          /\ Cardinality(confirmed' \cap Forms) = Cardinality(confirmed \cap Forms) - 1
      BY <2>3, <3>1, UseCost
    <3> QED  BY <2>1, <2>2, <2>3, <2>4, <3>2 DEF Bypassed, MarksPaid
  <2>5. CASE Scanned \/ Stopped \/ Quiet
    BY <2>1, <2>5 DEF Scanned, Stopped, Quiet, MarksPaid
  <2>6. CASE Paid /\ \E t \in Elements : Bypassed(confirmed \cup {t})
    <3>1. PICK t \in Elements : Bypassed(confirmed \cup {t})  BY <2>6
    <3>2. PICK f \in (confirmed \cup {t}) \cap Forms : confirmed' = (confirmed \cup {t}) \ {f}
      BY <3>1 DEF Bypassed
    <3>3. /\ IsFiniteSet(confirmed \cup {t})
          /\ Cardinality((confirmed \cup {t}) \cap Forms) <= Cardinality(confirmed \cap Forms) + 1
          /\ Cardinality((confirmed \cup {t}) \cap Forms) \in Nat
      BY <2>3, MarkCost
    <3>4. /\ IsFiniteSet(confirmed')
          /\ Cardinality(confirmed' \cap Forms) = Cardinality((confirmed \cup {t}) \cap Forms) - 1
      BY <3>2, <3>3, UseCost
    <3> QED  BY <2>1, <2>2, <2>3, <2>6, <3>1, <3>3, <3>4 DEF Bypassed, Paid, MarksPaid
  <2>7. CASE Paid /\ \E t \in Elements : Marked(t)
    <3>1. PICK t \in Elements : Marked(t)  BY <2>7
    <3>2. confirmed' = confirmed \cup {t}  BY <3>1 DEF Marked
    <3>3. /\ IsFiniteSet(confirmed')
          /\ Cardinality(confirmed' \cap Forms) <= Cardinality(confirmed \cap Forms) + 1
          /\ Cardinality(confirmed' \cap Forms) \in Nat
      BY <2>3, <3>2, MarkCost
    <3>4. OneContinueOneBypass'  BY <2>2, <2>3, <2>7, <3>1, <3>3 DEF Marked, Paid, MarksPaid
    <3>5. (continues > 0 => "WARN" \in policy.continue)'  BY <2>1, <2>7 DEF Paid
    <3> QED  BY <3>3, <3>4, <3>5 DEF MarksPaid
  <2> QED  BY <1>2, <2>4, <2>5, <2>6, <2>7, Moves
<1> QED  BY <1>1, <1>2

LEMMA InitMarksPaid == Init => MarksPaid
<1> SUFFICES ASSUME Init PROVE MarksPaid  OBVIOUS
<1>1. confirmed \cap Forms = {} /\ IsFiniteSet(confirmed)  BY FS_EmptySet DEF Init
<1> QED  BY <1>1, FS_EmptySet DEF Init, MarksPaid, OneContinueOneBypass

(* Every unscanned submit, and every mark that waits for one, was paid for   *)
(* by a press of Continue on a WARN overlay.                                 *)
THEOREM BypassesPaid == Spec => []OneContinueOneBypass
<1>1. Spec => []MarksPaid
  BY InitTypeOK, NextTypeOK, InitMarksPaid, NextMarksPaid, PTL DEF Spec
<1>2. MarksPaid => OneContinueOneBypass  BY DEF MarksPaid
<1> QED  BY <1>1, <1>2, PTL

-----------------------------------------------------------------------------
(* Risky prompts, once the marks are paid for.                               *)
LEMMA SafetyOfVerdicts ==
  ASSUME TypeOK
  PROVE  (\E p \in sent : Risky(p)) <=> ~ sent \subseteq Safe
BY DEF Risky, Safe, TypeOK

LEMMA NextRisky ==
  TypeOK /\ MarksPaid /\ RiskySentOnlyOnContinue /\ [Next]_vars => RiskySentOnlyOnContinue'
<1> SUFFICES ASSUME TypeOK, MarksPaid, RiskySentOnlyOnContinue, [Next]_vars
             PROVE  RiskySentOnlyOnContinue'
  OBVIOUS
<1> DEFINE Excuse == misread \/ (bypasses > 0 /\ "WARN" \in policy.continue)
<1>1. CASE UNCHANGED vars
  BY <1>1 DEF vars, RiskySentOnlyOnContinue, Risky, Verdict
<1>2. CASE Next
  <2>1. policy' = policy  BY <1>2, Moves DEF Typed
  <2>2. Safe' = Safe  BY <2>1 DEF Safe, Verdict
  <2>3. bypasses \in Nat /\ continues \in Nat /\ misread \in BOOLEAN  BY DEF TypeOK
  <2>4. Cardinality(confirmed \cap Forms) \in Nat  BY MarkCost DEF MarksPaid
  <2>5. sent \subseteq Safe \/ Excuse
    BY SafetyOfVerdicts DEF RiskySentOnlyOnContinue
  <2>6. sent' \subseteq Safe \/ Excuse'
    <3>1. CASE UNCHANGED continues /\ Bypassed(confirmed)
      <4>1. PICK f \in confirmed \cap Forms : TRUE  BY <3>1 DEF Bypassed
      <4>2. Cardinality(confirmed \cap Forms) > 0
        BY <4>1, UseCost DEF MarksPaid
      <4>3. continues > 0  BY <2>3, <2>4, <4>2 DEF MarksPaid, OneContinueOneBypass
      <4> QED  BY <2>1, <2>3, <3>1, <4>3 DEF Bypassed, MarksPaid
    <3>2. CASE Scanned
      BY <2>1, <2>5, <3>2 DEF Scanned
    <3>3. CASE Stopped \/ Quiet
      BY <2>1, <2>5, <3>3 DEF Stopped, Quiet
    <3>4. CASE Paid /\ \E t \in Elements : Bypassed(confirmed \cup {t})
      BY <2>1, <2>3, <3>4 DEF Paid, Bypassed
    <3>5. CASE Paid /\ \E t \in Elements : Marked(t)
      BY <2>1, <2>5, <3>5 DEF Marked
    <3> QED  BY <1>2, <3>1, <3>2, <3>3, <3>4, <3>5, Moves
  <2>7. TypeOK'  BY NextTypeOK
  <2>8. (\E p \in sent' : Risky(p)') => ~ sent' \subseteq Safe
    BY <2>1, <2>7 DEF Risky, Safe, TypeOK, Verdict
  <2> QED  BY <2>6, <2>8 DEF RiskySentOnlyOnContinue
<1> QED  BY <1>1, <1>2

(* A prompt the policy would stop reaches the site only after a Continue the *)
(* policy offers on WARN, or past a scan of another box.                     *)
THEOREM RiskyOnlyOnContinue == Spec => []RiskySentOnlyOnContinue
<1>1. Init => RiskySentOnlyOnContinue  BY DEF Init, RiskySentOnlyOnContinue
<1> QED
  BY <1>1, InitTypeOK, NextTypeOK, InitMarksPaid, NextMarksPaid, NextRisky, PTL DEF Spec

-----------------------------------------------------------------------------
(* The page implements the gate.                                             *)
LEMMA InitGate == Init => Gate!Init
<1> SUFFICES ASSUME Init PROVE Gate!Init  OBVIOUS
<1> QED  BY DEF Init, Gate!Init

LEMMA NextGate ==
  TypeOK /\ MarksPaid /\ [Next]_vars => [Gate!Next]_(Gate!gateVars)
<1> SUFFICES ASSUME TypeOK, MarksPaid, [Next]_vars
             PROVE  Gate!Next \/ UNCHANGED Gate!gateVars
  OBVIOUS
<1> USE DEF Gate!gateVars
<1>1. CASE UNCHANGED vars  BY <1>1 DEF vars, Verdict
<1>2. CASE Next
  <2>1. policy' = policy  BY <1>2, Moves DEF Typed
  <2>2. Safe' = Safe  BY <2>1 DEF Safe, Verdict
  <2>3. bypasses \in Nat /\ continues \in Nat  BY DEF TypeOK
  <2>4. Cardinality(confirmed \cap Forms) \in Nat  BY MarkCost DEF MarksPaid
  <2>5. CASE UNCHANGED continues /\ Bypassed(confirmed)
    <3>1. PICK f \in confirmed \cap Forms : TRUE  BY <2>5 DEF Bypassed
    <3>2. Cardinality(confirmed \cap Forms) > 0
      BY <3>1, UseCost DEF MarksPaid
    <3>3. continues - bypasses > 0
      BY <2>3, <2>4, <3>2 DEF MarksPaid, OneContinueOneBypass
    <3>4. (continues - bypasses)' = (continues - bypasses) - 1
      BY <2>3, <2>5 DEF Bypassed
    <3>5. Gate!SendOnCredit
      BY <2>1, <2>2, <2>5, <3>3, <3>4 DEF Bypassed, Gate!SendOnCredit, Safe
    <3> QED  BY <3>5 DEF Gate!Next
  <2>6. CASE Scanned
    <3>1. CASE sent' \subseteq sent \cup Safe /\ misread' = misread
      <4>1. Gate!SendScanned
        BY <2>1, <2>2, <2>6, <3>1 DEF Scanned, Gate!SendScanned, Safe
      <4> QED  BY <4>1 DEF Gate!Next
    <3>2. CASE misread' = TRUE
      <4>1. Gate!SendMisread
        BY <2>1, <2>2, <2>6, <3>2 DEF Scanned, Gate!SendMisread, Safe
      <4> QED  BY <4>1 DEF Gate!Next
    <3> QED  BY <2>6, <3>1, <3>2 DEF Scanned
  <2>7. CASE Stopped \/ Quiet
    BY <2>1, <2>2, <2>7 DEF Stopped, Quiet, Safe
  <2>8. CASE Paid /\ \E t \in Elements : Bypassed(confirmed \cup {t})
    <3>1. (continues - bypasses)' = continues - bypasses
      BY <2>3, <2>8 DEF Paid, Bypassed
    <3>2. Gate!AcknowledgeAndSend
      BY <2>1, <2>2, <2>8, <3>1 DEF Paid, Bypassed, Gate!AcknowledgeAndSend, Safe
    <3> QED  BY <3>2 DEF Gate!Next
  <2>9. CASE Paid /\ \E t \in Elements : Marked(t)
    <3>1. (continues - bypasses)' = (continues - bypasses) + 1
      BY <2>3, <2>9 DEF Paid, Marked
    <3>2. Gate!Acknowledge
      BY <2>1, <2>2, <2>9, <3>1 DEF Paid, Marked, Gate!Acknowledge, Safe
    <3> QED  BY <3>2 DEF Gate!Next
  <2> QED  BY <1>2, <2>5, <2>6, <2>7, <2>8, <2>9, Moves
<1> QED  BY <1>1, <1>2

(* The content script refines the gate: one acknowledgement, one submit.     *)
THEOREM PageImplementsGate == Spec => ImplementsGate
<1>1. Spec => Gate!Init /\ [][Gate!Next]_(Gate!gateVars)
  BY InitGate, InitTypeOK, NextTypeOK, InitMarksPaid, NextMarksPaid, NextGate, PTL DEF Spec
<1> QED  BY <1>1 DEF ImplementsGate, Gate!Spec

-----------------------------------------------------------------------------
LEMMA NextAudited == TypeOK /\ StopsAreAudited /\ [Next]_vars => StopsAreAudited'
<1> SUFFICES ASSUME TypeOK, StopsAreAudited, [Next]_vars PROVE StopsAreAudited'  OBVIOUS
<1>0. /\ Len(overlays) \in Nat
      /\ continues \in Nat
      /\ audits \in [UserDecision -> Nat]
  BY LenProperties DEF TypeOK
<1> USE DEF StopsAreAudited, UserDecision
<1>1. CASE UNCHANGED vars  BY <1>1 DEF vars
<1>2. CASE Next
  <2>1. CASE UNCHANGED continues /\ Bypassed(confirmed)  BY <2>1 DEF Bypassed
  <2>2. CASE Scanned  BY <2>2 DEF Scanned
  <2>3. CASE Stopped  BY <1>0, <2>3 DEF Stopped
  <2>4. CASE Quiet
    <3>1. Len(overlays') \in Nat  BY <2>4, LenProperties DEF Quiet
    <3> QED  BY <1>0, <2>4, <3>1 DEF Quiet
  <2>5. CASE Paid /\ \E t \in Elements : Bypassed(confirmed \cup {t})
    BY <1>0, <2>5 DEF Paid, Bypassed
  <2>6. CASE Paid /\ \E t \in Elements : Marked(t)
    BY <1>0, <2>6 DEF Paid, Marked
  <2> QED  BY <1>2, <2>1, <2>2, <2>3, <2>4, <2>5, <2>6, Moves
<1> QED  BY <1>1, <1>2

(* No overlay, mark or redirect without an audit of the scan that stopped    *)
(* the prompt.                                                               *)
THEOREM EveryStopAudited == Spec => []StopsAreAudited
<1>1. Init => StopsAreAudited
  BY EmptySeq DEF Init, StopsAreAudited, UserDecision
<1> QED  BY <1>1, InitTypeOK, NextTypeOK, NextAudited, PTL DEF Spec

-----------------------------------------------------------------------------
(* What a call in flight will have seen written once it writes itself.       *)
Horizon(c) == IF pc[c] = "setting" THEN Written \cup {event[c]} ELSE Written

Gone(e, events) == e.time < now - Retention \/ Cardinality(Later(e, events)) >= MaxEvents

Past ==
  \A c \in Calls : event[c].made <= made /\ (~turned => event[c].time <= now)

StoreKeeps ==
  ~turned => \A e \in Written \ disturbed : e \in stored \/ Gone(e, Written)

ListsKeep ==
  ~turned => \A c \in Calls : InFlight(c) =>
    \A e \in Written \ disturbed : e \in list[c] \/ Gone(e, Horizon(c))

OwnIsListed ==
  ~turned => \A c \in Calls : pc[c] = "setting" => event[c] \in list[c]

(* The stored list is put right or wrong by lists in flight, so what holds   *)
(* of it must hold of each of them, about all it may have missed.            *)
StoreInv == StoreTypeOK /\ now \in Nat /\ Past /\ StoreKeeps /\ ListsKeep /\ OwnIsListed

-----------------------------------------------------------------------------
LEMMA WrittenIsFinite == IsFiniteSet(Written)
<1> DEFINE S == {d \in Calls : pc[d] = "done"}
           f == [d \in S |-> event[d]]
<1>1. IsFiniteSet(S)  BY CallsAssumption, FS_Subset
<1>2. f \in Surjection(S, Written)  BY DEF Surjection, Written
<1> QED  BY <1>1, <1>2, FS_Surjection

LEMMA WrittenAreEvents == ASSUME StoreTypeOK PROVE Written \subseteq Event
  BY DEF Written, StoreTypeOK

(* What is gone stays gone as more is written.                               *)
LEMMA GoneGrows ==
  ASSUME NEW A, NEW B, A \subseteq B, IsFiniteSet(B), NEW e, Gone(e, A)
  PROVE  Gone(e, B)
<1>1. CASE e.time < now - Retention  BY <1>1 DEF Gone
<1>2. CASE Cardinality(Later(e, A)) >= MaxEvents
  <2>1. Later(e, A) \subseteq Later(e, B) /\ Later(e, B) \subseteq B  BY DEF Later
  <2>2. IsFiniteSet(Later(e, B))  BY <2>1, FS_Subset
  <2>3. IsFiniteSet(Later(e, A)) /\ Cardinality(Later(e, A)) <= Cardinality(Later(e, B))
    BY <2>1, <2>2, FS_Subset
  <2>4. Cardinality(Later(e, A)) \in Nat /\ Cardinality(Later(e, B)) \in Nat
    BY <2>2, <2>3, FS_CardinalityType
  <2>5. Cardinality(Later(e, B)) >= MaxEvents  BY <1>2, <2>3, <2>4, LimitAssumption
  <2> QED  BY <2>5 DEF Gone
<1> QED  BY <1>1, <1>2 DEF Gone

(* Pruning drops only what is gone.                                          *)
LEMMA PruneDropsGone ==
  ASSUME NEW events, IsFiniteSet(events), NEW new, NEW e \in events \cup {new},
         e.time \in Int, now \in Int, e \notin PruneEvents(events, new, now)
  PROVE  Gone(e, events \cup {new})
<1> DEFINE all == events \cup {new}
           fresh == {x \in all : x.time >= now - Retention}
<1>1. CASE e \notin fresh
  <2>1. ~(e.time >= now - Retention)  BY <1>1
  <2>2. e.time < now - Retention  BY <2>1, LimitAssumption
  <2> QED  BY <2>2 DEF Gone
<1>2. CASE e \in fresh
  <2>1. ~(Cardinality(Later(e, fresh)) < MaxEvents)  BY <1>2 DEF PruneEvents
  <2>2. IsFiniteSet(all)  BY FS_AddElement
  <2>3. fresh \subseteq all /\ Later(e, fresh) \subseteq Later(e, all) /\ Later(e, all) \subseteq all
    BY DEF Later
  <2>4. IsFiniteSet(Later(e, all))  BY <2>2, <2>3, FS_Subset
  <2>5. IsFiniteSet(Later(e, fresh)) /\ Cardinality(Later(e, fresh)) <= Cardinality(Later(e, all))
    BY <2>3, <2>4, FS_Subset
  <2>6. Cardinality(Later(e, fresh)) \in Nat /\ Cardinality(Later(e, all)) \in Nat
    BY <2>4, <2>5, FS_CardinalityType
  <2> HIDE DEF fresh, all
  <2>7. Cardinality(Later(e, all)) >= MaxEvents  BY <2>1, <2>5, <2>6, LimitAssumption
  <2> QED  BY <2>7 DEF Gone, all
<1> QED  BY <1>1, <1>2

(* The newest event survives its own pruning.                                *)
LEMMA PruneKeepsNewest ==
  ASSUME NEW events \in SUBSET Event, now \in Int, made \in Nat,
         \A x \in events : x.time <= now /\ x.made <= made
  PROVE  [time |-> now, made |-> made + 1]
           \in PruneEvents(events, [time |-> now, made |-> made + 1], now)
<1> DEFINE new == [time |-> now, made |-> made + 1]
           fresh == {x \in events \cup {new} : x.time >= now - Retention}
<1>1. new.time = now /\ new.made = made + 1  OBVIOUS
<1>2. new \in fresh  BY <1>1, LimitAssumption
<1>3. ASSUME NEW y \in fresh PROVE ~Before(new, y)
  <2>1. CASE y \in events
    <3>1. y.time <= now /\ y.made <= made /\ y.time \in Int /\ y.made \in Nat  BY <2>1 DEF Event
    <3> QED  BY <1>1, <3>1 DEF Before
  <2>2. CASE y = new  BY <1>1, <2>2 DEF Before
  <2> QED  BY <2>1, <2>2
<1>4. Later(new, fresh) = {}  BY <1>3 DEF Later
<1>5. Cardinality(Later(new, fresh)) = 0  BY <1>4, FS_EmptySet
<1>6. Cardinality(Later(new, fresh)) < MaxEvents
  <2> HIDE DEF new, fresh
  <2> QED  BY <1>5, LimitAssumption
<1> QED  BY <1>2, <1>6 DEF PruneEvents

-----------------------------------------------------------------------------
LEMMA TypeStep == ASSUME StoreTypeOK, [StoreNext]_storeVars PROVE StoreTypeOK'
<1>1. ASSUME NEW c \in Calls, Get(c) PROVE StoreTypeOK'
  <2>1. Written' = Written  BY <1>1 DEF Get, Written, StoreTypeOK
  <2>2. stored \subseteq Event  BY WrittenAreEvents DEF StoreTypeOK
  <2>3. list' \in [Calls -> SUBSET Event]  BY <1>1, <2>2 DEF Get, StoreTypeOK
  <2>4. pc' \in [Calls -> {"idle", "got", "setting", "done", "lost"}]  BY <1>1 DEF Get, StoreTypeOK
  <2>5. ASSUME NEW d \in Calls, pc'[d] = "got" PROVE list'[d] \subseteq Written'
    BY <1>1, <2>1, <2>5 DEF Get, StoreTypeOK
  <2>6. ASSUME NEW d \in Calls, pc'[d] = "setting" PROVE list'[d] \subseteq Written' \cup {event'[d]}
    BY <1>1, <2>1, <2>6 DEF Get, StoreTypeOK
  <2> QED  BY <1>1, <2>1, <2>3, <2>4, <2>5, <2>6 DEF Get, StoreTypeOK
<1>2. ASSUME NEW c \in Calls, Extend(c) PROVE StoreTypeOK'
  <2> DEFINE new == [time |-> now, made |-> made + 1]
  <2>1. new \in Event  BY DEF Event, StoreTypeOK
  <2>2. PruneEvents(list[c], new, now) \subseteq list[c] \cup {new}  BY DEF PruneEvents
  <2> HIDE DEF new
  <2>3. Written' = Written  BY <1>2 DEF Extend, Written, StoreTypeOK
  <2>4. event' = [event EXCEPT ![c] = new]
        /\ list' = [list EXCEPT ![c] = PruneEvents(list[c], new, now)]
        /\ pc' = [pc EXCEPT ![c] = "setting"] /\ pc[c] = "got"
    BY <1>2 DEF Extend, new
  <2>5. event' \in [Calls -> Event]  BY <2>1, <2>4 DEF StoreTypeOK
  <2>6. list' \in [Calls -> SUBSET Event]  BY <2>1, <2>2, <2>4 DEF StoreTypeOK
  <2>7. pc' \in [Calls -> {"idle", "got", "setting", "done", "lost"}]  BY <2>4 DEF StoreTypeOK
  <2>8. ASSUME NEW d \in Calls, pc'[d] = "got" PROVE list'[d] \subseteq Written'
    BY <2>3, <2>4, <2>8 DEF StoreTypeOK
  <2>9. ASSUME NEW d \in Calls, pc'[d] = "setting" PROVE list'[d] \subseteq Written' \cup {event'[d]}
    BY <2>2, <2>3, <2>4, <2>9 DEF StoreTypeOK
  <2>10. UNCHANGED <<now, stored, turned, disturbed>> /\ made' = made + 1  BY <1>2 DEF Extend
  <2> QED  BY <2>3, <2>5, <2>6, <2>7, <2>8, <2>9, <2>10 DEF StoreTypeOK
<1>3. ASSUME NEW c \in Calls, Set(c) PROVE StoreTypeOK'
  <2>1. Written' = Written \cup {event[c]}  BY <1>3 DEF Set, Written, StoreTypeOK
  <2>2. pc' \in [Calls -> {"idle", "got", "setting", "done", "lost"}]  BY <1>3 DEF Set, StoreTypeOK
  <2>3. stored' \subseteq Written' /\ disturbed' \subseteq Written'  BY <1>3, <2>1 DEF Set, StoreTypeOK
  <2>4. ASSUME NEW d \in Calls, pc'[d] = "got" PROVE list'[d] \subseteq Written'
    BY <1>3, <2>1, <2>4 DEF Set, StoreTypeOK
  <2>5. ASSUME NEW d \in Calls, pc'[d] = "setting" PROVE list'[d] \subseteq Written' \cup {event'[d]}
    BY <1>3, <2>1, <2>5 DEF Set, StoreTypeOK
  <2> QED  BY <1>3, <2>2, <2>3, <2>4, <2>5 DEF Set, StoreTypeOK
<1>4. ASSUME NEW c \in Calls, Lose(c) PROVE StoreTypeOK'
  <2>1. Written' = Written  BY <1>4 DEF Lose, InFlight, Written, StoreTypeOK
  <2>2. pc' \in [Calls -> {"idle", "got", "setting", "done", "lost"}]  BY <1>4 DEF Lose, StoreTypeOK
  <2>3. \A d \in Calls : pc'[d] # "lost" => pc'[d] = pc[d]  BY <1>4 DEF Lose, StoreTypeOK
  <2> QED  BY <1>4, <2>1, <2>2, <2>3 DEF Lose, StoreTypeOK
<1>5. ASSUME NEW time \in 0..MaxTime, SetClock(time) PROVE StoreTypeOK'
  <2>1. now' \in Int /\ Written' = Written  BY <1>5, LimitAssumption DEF SetClock, Written
  <2>2. turned' \in BOOLEAN  BY <1>5 DEF SetClock
  <2> QED  BY <1>5, <2>1, <2>2 DEF SetClock, StoreTypeOK
<1>6. CASE UNCHANGED storeVars  BY <1>6 DEF storeVars, StoreTypeOK, Written
<1> QED  BY <1>1, <1>2, <1>3, <1>4, <1>5, <1>6 DEF StoreNext

LEMMA TypeInit == ASSUME StoreInit PROVE StoreTypeOK
<1>1. NoEvent \in Event  BY DEF NoEvent, Event
<1>2. Written = {}  BY DEF StoreInit, Written
<1>3. pc \in [Calls -> {"idle", "got", "setting", "done", "lost"}]  BY DEF StoreInit
<1>4. turned \in BOOLEAN  BY DEF StoreInit
<1>5. event \in [Calls -> Event] /\ list \in [Calls -> SUBSET Event]  BY <1>1 DEF StoreInit
<1>6. \A c \in Calls : pc[c] = "idle"  BY DEF StoreInit
<1> QED  BY <1>2, <1>3, <1>4, <1>5, <1>6 DEF StoreInit, StoreTypeOK

(* The variables keep their types, for any calls (storage.ts:                *)
(* writeLocalAudit).                                                         *)
THEOREM StoreTypeCorrect == StoreSpec => []StoreTypeOK
<1>1. StoreInit => StoreTypeOK  BY TypeInit
<1>2. StoreTypeOK /\ [StoreNext]_storeVars => StoreTypeOK'  BY TypeStep
<1> QED  BY <1>1, <1>2, PTL DEF StoreSpec

-----------------------------------------------------------------------------
LEMMA InitHolds == ASSUME StoreInit PROVE now \in Nat /\ Past /\ StoreKeeps /\ ListsKeep /\ OwnIsListed
<1>1. Written = {} /\ \A c \in Calls : pc[c] = "idle"  BY DEF StoreInit, Written
<1>2. now \in Nat /\ Past  BY DEF StoreInit, Past, NoEvent
<1> QED  BY <1>1, <1>2 DEF StoreKeeps, ListsKeep, OwnIsListed, InFlight

LEMMA PastStep == ASSUME StoreInv, [StoreNext]_storeVars PROVE now' \in Nat /\ Past'
<1> USE DEF StoreInv
<1>1. ASSUME NEW c \in Calls, Get(c) \/ Set(c) \/ Lose(c) PROVE now' \in Nat /\ Past'
  BY <1>1 DEF Get, Set, Lose, Past
<1>2. ASSUME NEW c \in Calls, Extend(c) PROVE now' \in Nat /\ Past'
  <2>1. UNCHANGED <<now, turned>> /\ made' = made + 1  BY <1>2 DEF Extend
  <2>2. ASSUME NEW d \in Calls
        PROVE  event'[d].made <= made' /\ (~turned => event'[d].time <= now)
    <3>1. CASE d = c
      <4>1. event'[d] = [time |-> now, made |-> made + 1]  BY <1>2, <3>1 DEF Extend, StoreTypeOK
      <4> QED  BY <2>1, <4>1 DEF StoreTypeOK
    <3>2. CASE d # c
      <4>1. event'[d] = event[d]  BY <1>2, <3>2 DEF Extend, StoreTypeOK
      <4>2. event[d].made \in Nat  BY DEF StoreTypeOK, Event
      <4> QED  BY <2>1, <4>1, <4>2 DEF Past, StoreTypeOK
    <3> QED  BY <3>1, <3>2
  <2> QED  BY <2>1, <2>2 DEF Past
<1>3. ASSUME NEW time \in 0..MaxTime, SetClock(time) PROVE now' \in Nat /\ Past'
  <2>1. now' = time /\ time \in Nat /\ UNCHANGED <<made, event>> /\ turned' = (turned \/ time < now)
    BY <1>3, LimitAssumption DEF SetClock
  <2>2. ASSUME NEW d \in Calls, ~turned' PROVE event'[d].time <= now'
    <3>1. ~turned /\ ~(time < now)  BY <2>1, <2>2
    <3>2. event[d].time <= now /\ event[d].time \in Int  BY <3>1 DEF Past, StoreTypeOK, Event
    <3> QED  BY <2>1, <3>1, <3>2
  <2> QED  BY <2>1, <2>2 DEF Past
<1>4. CASE UNCHANGED storeVars  BY <1>4 DEF storeVars, Past
<1> QED  BY <1>1, <1>2, <1>3, <1>4 DEF StoreNext

(* Time that goes on and lists that grow only add to what is gone.           *)
LEMMA GoneLater ==
  ASSUME StoreTypeOK, now' \in Int, now <= now', NEW e \in Event,
         NEW A, NEW B, A \subseteq B, IsFiniteSet(B), Gone(e, A)
  PROVE  e.time < now' - Retention \/ Cardinality(Later(e, B)) >= MaxEvents
<1>1. Gone(e, B)  BY GoneGrows
<1>2. CASE e.time < now - Retention
  <2>1. e.time \in Int /\ now \in Int  BY DEF Event, StoreTypeOK
  <2> QED  BY <1>2, <2>1, LimitAssumption
<1>3. CASE Cardinality(Later(e, B)) >= MaxEvents  BY <1>3
<1> QED  BY <1>1, <1>2, <1>3 DEF Gone

LEMMA KeepStep ==
  ASSUME StoreInv, [StoreNext]_storeVars
  PROVE  StoreKeeps' /\ ListsKeep' /\ OwnIsListed'
<1> USE DEF StoreInv
<1>0. StoreTypeOK' /\ IsFiniteSet(Written)  BY TypeStep, WrittenIsFinite
<1>1. ASSUME NEW c \in Calls, Get(c) PROVE StoreKeeps' /\ ListsKeep' /\ OwnIsListed'
  <2>1. /\ Written' = Written /\ UNCHANGED <<now, stored, event, turned, disturbed>>
        /\ pc' = [pc EXCEPT ![c] = "got"] /\ list' = [list EXCEPT ![c] = stored]
    BY <1>1 DEF Get, Written, StoreTypeOK
  <2>2. StoreKeeps'  BY <2>1 DEF StoreKeeps, Gone, Later, Before
  <2>3. ASSUME NEW d \in Calls, ~turned', InFlight(d)', NEW e \in Written' \ disturbed'
        PROVE  (e \in list[d] \/ Gone(e, Horizon(d)))'
    <3>1. CASE d = c
      <4>1. e \in stored \/ Gone(e, Written)  BY <2>1, <2>3 DEF StoreKeeps
      <4>2. list'[d] = stored /\ Horizon(d)' = Written  BY <2>1, <3>1 DEF Horizon, StoreTypeOK
      <4> QED  BY <2>1, <4>1, <4>2 DEF Gone, Later, Before
    <3>2. CASE d # c
      <4>1. list'[d] = list[d] /\ pc'[d] = pc[d] /\ Horizon(d)' = Horizon(d)
        BY <2>1, <3>2 DEF Horizon, StoreTypeOK
      <4>2. e \in list[d] \/ Gone(e, Horizon(d))  BY <2>1, <2>3, <4>1 DEF ListsKeep, InFlight
      <4> QED  BY <2>1, <4>1, <4>2 DEF Gone, Later, Before
    <3> QED  BY <3>1, <3>2
  <2>4. ListsKeep'  BY <2>3 DEF ListsKeep
  <2>5. OwnIsListed'  BY <2>1 DEF OwnIsListed, StoreTypeOK
  <2> QED  BY <2>2, <2>4, <2>5
<1>2. ASSUME NEW c \in Calls, Extend(c) PROVE StoreKeeps' /\ ListsKeep' /\ OwnIsListed'
  <2> DEFINE new == [time |-> now, made |-> made + 1]
  <2>1. /\ Written' = Written /\ UNCHANGED <<now, stored, turned, disturbed>>
        /\ pc[c] = "got" /\ pc' = [pc EXCEPT ![c] = "setting"]
        /\ event' = [event EXCEPT ![c] = new]
        /\ list' = [list EXCEPT ![c] = PruneEvents(list[c], new, now)]
    BY <1>2 DEF Extend, Written, StoreTypeOK
  <2>2. StoreKeeps'  BY <2>1 DEF StoreKeeps, Gone, Later, Before
  <2>3. list[c] \subseteq Written /\ IsFiniteSet(list[c]) /\ Written \subseteq Event
    BY <1>0, <2>1, FS_Subset, WrittenAreEvents DEF StoreTypeOK
  <2>4. ~turned => new \in PruneEvents(list[c], new, now)
    <3>1. ASSUME ~turned, NEW x \in list[c] PROVE x.time <= now /\ x.made <= made
      BY <2>3, <3>1 DEF Written, Past
    <3>2. list[c] \in SUBSET Event /\ now \in Int /\ made \in Nat  BY <2>3 DEF StoreTypeOK
    <3> QED  BY <3>1, <3>2, PruneKeepsNewest
  <2> HIDE DEF new
  <2>5. ASSUME NEW d \in Calls, ~turned', InFlight(d)', NEW e \in Written' \ disturbed'
        PROVE  (e \in list[d] \/ Gone(e, Horizon(d)))'
    <3>1. CASE d = c
      <4>1. e \in list[c] \/ Gone(e, Written)
        BY <2>1, <2>5 DEF ListsKeep, InFlight, Horizon
      <4>2. list'[d] = PruneEvents(list[c], new, now) /\ Horizon(d)' = Written \cup {new}
        BY <2>1, <3>1 DEF Horizon, StoreTypeOK
      <4>3. IsFiniteSet(Written \cup {new})  BY <1>0, FS_AddElement
      <4>4. CASE Gone(e, Written)
        <5>1. Gone(e, Written \cup {new})  BY <4>3, <4>4, GoneGrows
        <5> QED  BY <2>1, <4>2, <5>1 DEF Gone, Later, Before
      <4>5. CASE e \in list[c] /\ e \notin PruneEvents(list[c], new, now)
        <5>1. e.time \in Int /\ now \in Int  BY <2>3, <4>5 DEF Event, StoreTypeOK
        <5>2. Gone(e, list[c] \cup {new})  BY <2>3, <4>5, <5>1, PruneDropsGone
        <5>3. Gone(e, Written \cup {new})  BY <2>3, <4>3, <5>2, GoneGrows
        <5> QED  BY <2>1, <4>2, <5>3 DEF Gone, Later, Before
      <4>6. CASE e \in PruneEvents(list[c], new, now)  BY <4>2, <4>6
      <4> QED  BY <4>1, <4>4, <4>5, <4>6
    <3>2. CASE d # c
      <4>1. list'[d] = list[d] /\ pc'[d] = pc[d] /\ Horizon(d)' = Horizon(d)
        BY <2>1, <3>2 DEF Horizon, StoreTypeOK
      <4>2. e \in list[d] \/ Gone(e, Horizon(d))  BY <2>1, <2>5, <4>1 DEF ListsKeep, InFlight
      <4> QED  BY <2>1, <4>1, <4>2 DEF Gone, Later, Before
    <3> QED  BY <3>1, <3>2
  <2>6. ListsKeep'  BY <2>5 DEF ListsKeep
  <2>7. OwnIsListed'  BY <2>1, <2>4 DEF OwnIsListed, StoreTypeOK
  <2> QED  BY <2>2, <2>6, <2>7
<1>3. ASSUME NEW c \in Calls, Set(c) PROVE StoreKeeps' /\ ListsKeep' /\ OwnIsListed'
  <2>1. /\ pc[c] = "setting" /\ pc' = [pc EXCEPT ![c] = "done"]
        /\ Written' = Written \cup {event[c]} /\ stored' = list[c]
        /\ UNCHANGED <<now, list, event, turned>>
        /\ disturbed \subseteq disturbed'
        /\ (\E d \in Calls \ {c} : InFlight(d)) => event[c] \in disturbed'
    BY <1>3 DEF Set, Written, StoreTypeOK
  <2>2. Horizon(c) = Written' /\ InFlight(c)  BY <2>1 DEF Horizon, InFlight
  <2>3. ASSUME ~turned', NEW e \in Written' \ disturbed' PROVE (e \in stored \/ Gone(e, Written))'
    <3>1. CASE e = event[c]  BY <2>1, <2>3, <3>1 DEF OwnIsListed
    <3>2. CASE e # event[c]
      <4>1. e \in Written \ disturbed  BY <2>1, <2>3, <3>2
      <4>2. e \in list[c] \/ Gone(e, Written')  BY <2>1, <2>2, <2>3, <4>1 DEF ListsKeep
      <4> QED  BY <2>1, <4>2 DEF Gone, Later, Before
    <3> QED  BY <3>1, <3>2
  <2>4. ASSUME NEW d \in Calls, ~turned', InFlight(d)', NEW e \in Written' \ disturbed'
        PROVE  (e \in list[d] \/ Gone(e, Horizon(d)))'
    <3>1. d # c /\ pc'[d] = pc[d] /\ InFlight(d)  BY <2>1, <2>4 DEF InFlight, StoreTypeOK
    <3>2. event[c] \in disturbed'  BY <2>1, <3>1
    <3>3. e \in Written \ disturbed  BY <2>1, <2>4, <3>2
    <3>4. e \in list[d] \/ Gone(e, Horizon(d))  BY <2>1, <2>4, <3>1, <3>3 DEF ListsKeep
    <3>5. Horizon(d) \subseteq Horizon(d)' /\ Horizon(d)' \subseteq (Written \cup {event[c]}) \cup {event[d]}
      BY <2>1, <3>1 DEF Horizon
    <3>6. IsFiniteSet(Horizon(d)')  BY <1>0, <3>5, FS_AddElement, FS_Subset
    <3>7. CASE Gone(e, Horizon(d))
      <4>1. e \in Event /\ now' = now /\ now \in Int  BY <2>1, <3>3, WrittenAreEvents DEF StoreTypeOK
      <4>2. e.time < now' - Retention \/ Cardinality(Later(e, Horizon(d)')) >= MaxEvents
        BY <3>5, <3>6, <3>7, <4>1, GoneLater
      <4> QED  BY <4>2 DEF Gone, Later, Before
    <3> QED  BY <2>1, <3>4, <3>7
  <2>5. StoreKeeps'  BY <2>3 DEF StoreKeeps
  <2>6. ListsKeep'  BY <2>4 DEF ListsKeep
  <2>7. OwnIsListed'  BY <2>1 DEF OwnIsListed, StoreTypeOK
  <2> QED  BY <2>5, <2>6, <2>7
<1>4. ASSUME NEW c \in Calls, Lose(c) PROVE StoreKeeps' /\ ListsKeep' /\ OwnIsListed'
  <2>1. /\ Written' = Written /\ UNCHANGED <<now, stored, list, event, turned, disturbed>>
        /\ pc' = [pc EXCEPT ![c] = "lost"]
    BY <1>4 DEF Lose, InFlight, Written, StoreTypeOK
  <2>2. StoreKeeps'  BY <2>1 DEF StoreKeeps, Gone, Later, Before
  <2>3. ASSUME NEW d \in Calls, ~turned', InFlight(d)', NEW e \in Written' \ disturbed'
        PROVE  (e \in list[d] \/ Gone(e, Horizon(d)))'
    <3>1. pc'[d] = pc[d] /\ Horizon(d)' = Horizon(d)  BY <2>1, <2>3 DEF InFlight, Horizon, StoreTypeOK
    <3>2. e \in list[d] \/ Gone(e, Horizon(d))  BY <2>1, <2>3, <3>1 DEF ListsKeep, InFlight
    <3> QED  BY <2>1, <3>1, <3>2 DEF Gone, Later, Before
  <2>4. ListsKeep'  BY <2>3 DEF ListsKeep
  <2>5. OwnIsListed'  BY <2>1 DEF OwnIsListed, StoreTypeOK
  <2> QED  BY <2>2, <2>4, <2>5
<1>5. ASSUME NEW time \in 0..MaxTime, SetClock(time) PROVE StoreKeeps' /\ ListsKeep' /\ OwnIsListed'
  <2>1. /\ Written' = Written /\ UNCHANGED <<stored, pc, list, event, disturbed>>
        /\ now' = time /\ turned' = (turned \/ time < now)
    BY <1>5 DEF SetClock, Written
  <2>2. ~turned' => ~turned /\ now <= now' /\ now' \in Int
    <3>1. ~turned' => ~turned /\ ~(time < now)  BY <2>1
    <3>2. now \in Int /\ now' = time /\ time \in Int  BY <2>1 DEF StoreTypeOK
    <3>3. ~(time < now) => now <= now'  BY <3>2
    <3> QED  BY <3>1, <3>2, <3>3
  <2>3. ASSUME ~turned', NEW e \in Written' \ disturbed' PROVE (e \in stored \/ Gone(e, Written))'
    <3>1. e \in stored \/ Gone(e, Written)  BY <2>1, <2>2, <2>3 DEF StoreKeeps
    <3>2. e \in Event  BY <2>1, <2>3, WrittenAreEvents
    <3>3. Gone(e, Written) => e.time < now' - Retention \/ Cardinality(Later(e, Written)) >= MaxEvents
      BY <1>0, <2>2, <2>3, <3>2, GoneLater
    <3> QED  BY <2>1, <3>1, <3>3 DEF Gone, Later, Before
  <2>4. ASSUME NEW d \in Calls, ~turned', InFlight(d)', NEW e \in Written' \ disturbed'
        PROVE  (e \in list[d] \/ Gone(e, Horizon(d)))'
    <3>1. Horizon(d)' = Horizon(d) /\ InFlight(d)  BY <2>1, <2>4 DEF InFlight, Horizon
    <3>2. e \in list[d] \/ Gone(e, Horizon(d))  BY <2>1, <2>2, <2>4, <3>1 DEF ListsKeep
    <3>3. e \in Event  BY <2>1, <2>4, WrittenAreEvents
    <3>4. IsFiniteSet(Horizon(d))  BY <1>0, FS_AddElement DEF Horizon
    <3>5. Gone(e, Horizon(d)) =>
            e.time < now' - Retention \/ Cardinality(Later(e, Horizon(d))) >= MaxEvents
      BY <2>2, <2>4, <3>3, <3>4, GoneLater
    <3> QED  BY <2>1, <3>1, <3>2, <3>5 DEF Gone, Later, Before
  <2>5. StoreKeeps'  BY <2>3 DEF StoreKeeps
  <2>6. ListsKeep'  BY <2>4 DEF ListsKeep
  <2>7. OwnIsListed'  BY <2>1, <2>2 DEF OwnIsListed
  <2> QED  BY <2>5, <2>6, <2>7
<1>6. CASE UNCHANGED storeVars
  <2>1. Written' = Written  BY <1>6 DEF storeVars, Written
  <2> QED  BY <1>6, <2>1 DEF storeVars, StoreKeeps, ListsKeep, OwnIsListed, Gone, Later, Before, Horizon, InFlight
<1> QED  BY <1>1, <1>2, <1>3, <1>4, <1>5, <1>6 DEF StoreNext

LEMMA StoreInductive == StoreSpec => []StoreInv
<1>1. StoreInit => StoreInv  BY InitHolds, TypeInit DEF StoreInv
<1>2. StoreInv /\ [StoreNext]_storeVars => StoreInv'
  <2> SUFFICES ASSUME StoreInv, [StoreNext]_storeVars PROVE StoreInv'  OBVIOUS
  <2>1. StoreTypeOK'  BY TypeStep DEF StoreInv
  <2>2. now' \in Nat /\ Past'  BY PastStep
  <2>3. StoreKeeps' /\ ListsKeep' /\ OwnIsListed'  BY KeepStep
  <2> QED  BY <2>1, <2>2, <2>3 DEF StoreInv
<1> QED  BY <1>1, <1>2, PTL DEF StoreSpec

-----------------------------------------------------------------------------
(* However many tabs write, an event that was written is gone only when it   *)
(* was due to go or another call had read the list before it was written     *)
(* (storage.ts: writeLocalAudit).                                            *)
THEOREM LossHolds == StoreSpec => []LostOnlyToOverlap
<1>1. StoreInv => LostOnlyToOverlap  BY DEF StoreInv, StoreKeeps, Gone, LostOnlyToOverlap
<1> QED  BY <1>1, StoreInductive, PTL

(* A call that ends well has stored its own event, overlap or not            *)
(* (storage.ts: writeLocalAudit).                                            *)
THEOREM OwnEventHolds == StoreSpec => OwnEventIsStored
<1>1. StoreInv /\ [StoreNext]_storeVars =>
        [\A c \in Calls : pc[c] # "done" /\ pc'[c] = "done" /\ ~turned => event'[c] \in stored']_storeVars
  <2> SUFFICES ASSUME StoreInv, StoreNext, NEW c \in Calls, pc[c] # "done", pc'[c] = "done", ~turned
               PROVE  event'[c] \in stored'
    OBVIOUS
  <2>1. Set(c)
    BY DEF StoreInv, StoreTypeOK, StoreNext, Get, Extend, Set, Lose, SetClock
  <2> QED  BY <2>1 DEF Set, StoreInv, OwnIsListed
<1> QED  BY <1>1, StoreInductive, PTL DEF StoreSpec, OwnEventIsStored

-----------------------------------------------------------------------------
(* What every command keeps of a case, and so of every file and every case   *)
(* held in memory: the type, the lifecycle, and an origin if any field.      *)
Good(case) ==
  /\ case \in Case
  /\ BorneOut(case)
  /\ case.described => case.origin # "unknown"

LEMMA NoRecords == <<>> \in Seq(Review) /\ <<>> \in Seq(Outcome)
  BY EmptySeq

LEMMA BlankGood == Good(BlankCase)
<1>1. BlankCase \in Case  BY NoRecords DEF BlankCase, Case, Life
<1>2. BorneOut(BlankCase)  BY DEF BlankCase, BorneOut
<1> QED  BY <1>1, <1>2 DEF BlankCase, Good

LEMMA NewGood ==
  ASSUME NEW case \in NewCases
  PROVE  /\ Good(case)
         /\ case.origin \in {"real", "generated"}
         /\ case.reviews = <<>> /\ case.outcomes = <<>> /\ case.impacts = 0
<1>1. PICK origin \in {"real", "generated"}, life \in {"engine_analyzed", "created"} :
        case = [BlankCase EXCEPT !.described = TRUE, !.origin = origin, !.life = life]
  BY DEF NewCases
<1>2. case \in Case  BY <1>1, NoRecords DEF BlankCase, Case, Life
<1>3. BorneOut(case)  BY <1>1 DEF BlankCase, BorneOut
<1> QED  BY <1>1, <1>2, <1>3 DEF BlankCase, Good

LEMMA ReviewGood ==
  ASSUME NEW case, Good(case), NEW review \in Review
  PROVE  Good(WithReview(case, review))
<1> DEFINE new == WithReview(case, review)
<1>1. case \in Case /\ case.reviews \in Seq(Review)  BY DEF Good, Case
<1>2. /\ Append(case.reviews, review) \in Seq(Review)
      /\ Len(Append(case.reviews, review)) = Len(case.reviews) + 1
      /\ Len(case.reviews) \in Nat
  BY <1>1, AppendProperties, LenProperties
<1>3. new \in Case  BY <1>1, <1>2 DEF WithReview, Case, Life
<1>4. /\ new.reviews = Append(case.reviews, review)
      /\ new.described = case.described /\ new.origin = case.origin
      /\ new.life = IF Len(new.reviews) < 2 THEN "review_in_progress"
                    ELSE IF Consensus(new.reviews) # NoFit THEN "expert_reviewed" ELSE "needs_adjudication"
  BY <1>1, <1>3 DEF WithReview, Case
<1>5. BorneOut(new)
  <2>1. PICK n \in Nat : Len(new.reviews) = n + 1  BY <1>2, <1>4
  <2>2. CASE Len(new.reviews) < 2
    <3>1. Len(new.reviews) = 1
      <4> HIDE DEF new
      <4> QED  BY <2>1, <2>2
    <3> QED  BY <3>1, <2>2, <1>4 DEF BorneOut
  <2>3. CASE ~(Len(new.reviews) < 2) /\ Consensus(new.reviews) # NoFit
    <3>1. Len(new.reviews) >= 2
      <4> HIDE DEF new
      <4> QED  BY <2>1, <2>3
    <3> QED  BY <3>1, <2>3, <1>4 DEF BorneOut, Agreed
  <2>4. CASE ~(Len(new.reviews) < 2) /\ ~(Consensus(new.reviews) # NoFit)
    <3>1. Len(new.reviews) >= 2
      <4> HIDE DEF new
      <4> QED  BY <2>1, <2>4
    <3> QED  BY <3>1, <2>4, <1>4 DEF BorneOut, Agreed
  <2> QED  BY <2>2, <2>3, <2>4
<1> QED  BY <1>3, <1>4, <1>5 DEF Good

LEMMA AdjudicationGood ==
  ASSUME NEW case, Good(case), NEW fit \in Fit
  PROVE  Good(WithAdjudication(case, fit))
<1>1. case \in Case /\ fit # NoFit  BY DEF Good, Fit, NoFit
<1>2. WithAdjudication(case, fit) \in Case  BY <1>1 DEF WithAdjudication, Case, Life
<1>3. BorneOut(WithAdjudication(case, fit))  BY <1>1 DEF WithAdjudication, Case, BorneOut
<1> QED  BY <1>1, <1>2, <1>3 DEF Good, WithAdjudication, Case

LEMMA OutcomeGood ==
  ASSUME NEW case, Good(case), NEW outcome \in Outcome
  PROVE  Good(WithOutcome(case, outcome))
<1> DEFINE new == WithOutcome(case, outcome)
<1>1. case \in Case /\ case.outcomes \in Seq(Outcome) /\ BorneOut(case)  BY DEF Good, Case
<1>2. /\ Append(case.outcomes, outcome) \in Seq(Outcome)
      /\ Len(Append(case.outcomes, outcome)) = Len(case.outcomes) + 1
      /\ Len(case.outcomes) \in Nat
      /\ DOMAIN case.outcomes = 1..Len(case.outcomes)
      /\ DOMAIN Append(case.outcomes, outcome) = 1..(Len(case.outcomes) + 1)
      /\ Append(case.outcomes, outcome)[Len(case.outcomes) + 1] = outcome
      /\ \A i \in 1..Len(case.outcomes) : Append(case.outcomes, outcome)[i] = case.outcomes[i]
  BY <1>1, AppendProperties, LenProperties
<1>3. new \in Case  BY <1>1, <1>2 DEF WithOutcome, Case, Life
<1>4. /\ new.outcomes = Append(case.outcomes, outcome)
      /\ new.described = case.described /\ new.origin = case.origin
      /\ new.life = IF Decisive(outcome) THEN "outcome_linked"
                    ELSE IF case.life = "outcome_linked" THEN case.life ELSE "awaiting_outcome"
  BY <1>1, <1>3 DEF WithOutcome, Case
<1>5. BorneOut(new)
  <2>1. CASE Decisive(outcome)
    <3>1. DecisiveOutcome(new)  BY <2>1, <1>2, <1>4 DEF DecisiveOutcome
    <3> QED  BY <3>1, <2>1, <1>4 DEF BorneOut
  <2>2. CASE ~Decisive(outcome) /\ case.life = "outcome_linked"
    <3>1. DecisiveOutcome(case)  BY <1>1, <2>2 DEF BorneOut
    <3>2. DecisiveOutcome(new)  BY <3>1, <1>2, <1>4 DEF DecisiveOutcome
    <3> QED  BY <3>2, <2>2, <1>4 DEF BorneOut
  <2>3. CASE ~Decisive(outcome) /\ case.life # "outcome_linked"
    <3>1. new.outcomes # <<>> /\ new.outcomes[Len(new.outcomes)] = outcome
      BY <1>2, <1>4, EmptySeq
    <3> QED  BY <3>1, <2>3, <1>4 DEF BorneOut
  <2> QED  BY <2>1, <2>2, <2>3
<1> QED  BY <1>3, <1>4, <1>5 DEF Good

LEMMA ImpactGood ==
  ASSUME NEW case, Good(case)
  PROVE  Good(WithImpact(case))
<1>1. case \in Case /\ BorneOut(case)  BY DEF Good
<1>2. WithImpact(case) \in Case  BY <1>1 DEF WithImpact, Case
<1>3. BorneOut(WithImpact(case))
  BY <1>1, <1>2 DEF WithImpact, Case, BorneOut, Agreed, DecisiveOutcome
<1> QED  BY <1>1, <1>2, <1>3 DEF Good, WithImpact, Case

LEMMA ConsensusInFit ==
  ASSUME NEW reviews \in Seq(Review), Consensus(reviews) # NoFit
  PROVE  Consensus(reviews) \in Fit
<1>1. reviews # <<>> /\ Consensus(reviews) = reviews[1].fit  BY DEF Consensus
<1>2. reviews[1] \in Review  BY <1>1, EmptySeq, LenProperties, ElementOfSeq
<1> QED  BY <1>1, <1>2 DEF Review

-----------------------------------------------------------------------------
IInv == CaseTypeOK /\ Good(content) /\ \A p \in Processes : Good(held[p])

Commands == {"create", "reviews", "adjudication", "outcomes", "impacts"}

Counts(case) ==
  [reviews |-> Len(case.reviews), outcomes |-> Len(case.outcomes), impacts |-> case.impacts]

After(counts, command) ==
  CASE command = "create" -> None
    [] command \in DOMAIN None -> [counts EXCEPT ![command] = @ + 1]
    [] OTHER -> counts

(* What the six commands have in common: they begin with a good case, whose  *)
(* records are those of the file and the one the command brings.             *)
Brings(p, command, case) ==
  /\ command \in Commands
  /\ Good(case)
  /\ Counts(case) = After(Counts(content), command)
  /\ Begin(p, command, case)
  /\ \/ /\ command # "create" /\ shape # "torn" /\ case.origin = content.origin
        /\ wiped' = (wiped \/ shape = "empty") /\ origins' = origins
     \/ /\ command = "create" /\ case.origin \in {"real", "generated"}
        /\ wiped' = wiped /\ origins' = origins \cup {case.origin}

LEMMA Beginning ==
  ASSUME IInv, NEW p \in Processes,
         AddReview(p) \/ Adjudicate(p) \/ PromoteConsensus(p) \/ AddOutcome(p) \/ AddImpact(p)
           \/ CreateCase(p)
  PROVE  \E command, case : Brings(p, command, case)
<1>0. Good(content) /\ content \in Case  BY DEF IInv, Good
<1>1. CASE AddReview(p)
  <2>1. PICK review \in Review : Load(p, "reviews", WithReview(content, review))
    BY <1>1, RecordsAssumption DEF AddReview
  <2>2. Good(WithReview(content, review))  BY <1>0, ReviewGood
  <2>3. /\ WithReview(content, review).origin = content.origin
        /\ Counts(WithReview(content, review)) = After(Counts(content), "reviews")
    <3>1. content.reviews \in Seq(Review)  BY <1>0 DEF Case
    <3>2. Len(Append(content.reviews, review)) = Len(content.reviews) + 1  BY <3>1, AppendProperties
    <3> QED  BY <1>0, <3>2 DEF WithReview, Counts, After, None, Case
  <2>4. Brings(p, "reviews", WithReview(content, review))
    BY <2>1, <2>2, <2>3 DEF Brings, Commands, Load
  <2> QED  BY <2>4
<1>2. CASE Adjudicate(p) \/ PromoteConsensus(p)
  <2>1. PICK fit \in Fit : Load(p, "adjudication", WithAdjudication(content, fit))
    <3>1. CASE Adjudicate(p)  BY <3>1, RecordsAssumption DEF Adjudicate
    <3>2. CASE PromoteConsensus(p)
      <4>1. content.reviews \in Seq(Review)  BY <1>0 DEF Case
      <4> QED  BY <3>2, <4>1, ConsensusInFit DEF PromoteConsensus
    <3> QED  BY <1>2, <3>1, <3>2
  <2>2. Good(WithAdjudication(content, fit))  BY <1>0, AdjudicationGood
  <2>3. /\ WithAdjudication(content, fit).origin = content.origin
        /\ Counts(WithAdjudication(content, fit)) = After(Counts(content), "adjudication")
    BY <1>0 DEF WithAdjudication, Counts, After, None, Case
  <2>4. Brings(p, "adjudication", WithAdjudication(content, fit))
    BY <2>1, <2>2, <2>3 DEF Brings, Commands, Load
  <2> QED  BY <2>4
<1>3. CASE AddOutcome(p)
  <2>1. PICK outcome \in Outcome : Load(p, "outcomes", WithOutcome(content, outcome))
    BY <1>3, RecordsAssumption DEF AddOutcome
  <2>2. Good(WithOutcome(content, outcome))  BY <1>0, OutcomeGood
  <2>3. /\ WithOutcome(content, outcome).origin = content.origin
        /\ Counts(WithOutcome(content, outcome)) = After(Counts(content), "outcomes")
    <3>1. content.outcomes \in Seq(Outcome)  BY <1>0 DEF Case
    <3>2. Len(Append(content.outcomes, outcome)) = Len(content.outcomes) + 1  BY <3>1, AppendProperties
    <3> QED  BY <1>0, <3>2 DEF WithOutcome, Counts, After, None, Case
  <2>4. Brings(p, "outcomes", WithOutcome(content, outcome))
    BY <2>1, <2>2, <2>3 DEF Brings, Commands, Load
  <2> QED  BY <2>4
<1>4. CASE AddImpact(p)
  <2>1. Load(p, "impacts", WithImpact(content))  BY <1>4 DEF AddImpact
  <2>2. Good(WithImpact(content))  BY <1>0, ImpactGood
  <2>3. /\ WithImpact(content).origin = content.origin
        /\ Counts(WithImpact(content)) = After(Counts(content), "impacts")
    BY <1>0 DEF WithImpact, Counts, After, None, Case
  <2>4. Brings(p, "impacts", WithImpact(content))
    BY <2>1, <2>2, <2>3 DEF Brings, Commands, Load
  <2> QED  BY <2>4
<1>5. CASE CreateCase(p)
  <2>1. PICK case \in NewCases :
          /\ Begin(p, "create", case)
          /\ origins' = origins \cup {case.origin}
          /\ UNCHANGED wiped
    BY <1>5 DEF CreateCase
  <2>2. Counts(case) = After(Counts(content), "create")  BY NewGood, EmptySeq DEF Counts, After, None
  <2>3. Brings(p, "create", case)  BY <2>1, <2>2, NewGood DEF Brings, Commands
  <2> QED  BY <2>3
<1> QED  BY <1>1, <1>2, <1>3, <1>4, <1>5

(* Every step is a command's beginning, or one of the three that follow.     *)
LEMMA CaseMoves ==
  ASSUME IInv, [CaseNext]_caseVars
  PROVE  \/ UNCHANGED caseVars
         \/ \E p \in Processes :
              \/ \E command, case : Brings(p, command, case)
              \/ OpenForWriting(p) \/ WriteCase(p) \/ Kill(p)
  BY Beginning DEF CaseNext

LEMMA FinishEffect ==
  ASSUME IInv, NEW p \in Processes, Finish(p)
  PROVE  /\ stage' = [stage EXCEPT ![p] = "idle"]
         /\ stage' \in [Processes -> {"idle", "loaded", "open"}]
         /\ held' = [held EXCEPT ![p] = BlankCase]
         /\ held' \in [Processes -> Case]
         /\ \A q \in Processes : Good(held'[q])
         /\ verb' \in [Processes -> Commands \cup {"none"}]
<1>1. BlankCase \in Case  BY BlankGood DEF Good
<1> QED  BY <1>1, BlankGood DEF IInv, CaseTypeOK, Finish, Commands

LEMMA AckedEffect ==
  ASSUME NEW command, acked \in [DOMAIN None -> Nat], AcknowledgeCommand(command)
  PROVE  acked' = After(acked, command) /\ acked' \in [DOMAIN None -> Nat]
<1>1. DOMAIN acked = DOMAIN None  OBVIOUS
<1>2. acked' = After(acked, command)  BY <1>1 DEF AcknowledgeCommand, After
<1>3. None \in [DOMAIN None -> Nat]  BY DEF None
<1> QED  BY <1>2, <1>3 DEF After

(* The types and the goodness of all cases are inductive together.           *)
LEMMA Inductive == CaseSpec => []IInv
<1>1. CaseInit => IInv
  <2> SUFFICES ASSUME CaseInit PROVE IInv  OBVIOUS
  <2>1. Good(content) /\ content \in Case /\ origins \subseteq {"real", "generated"}
    BY NewGood DEF CaseInit, Good
  <2>2. held \in [Processes -> Case] /\ \A p \in Processes : Good(held[p])
    BY BlankGood DEF CaseInit, Good
  <2>3. interfered \in BOOLEAN /\ wiped \in BOOLEAN  BY DEF CaseInit
  <2>4. acked \in [DOMAIN None -> Nat]  BY DEF CaseInit, None
  <2> QED  BY <2>1, <2>2, <2>3, <2>4 DEF CaseInit, IInv, CaseTypeOK
<1>2. IInv /\ [CaseNext]_caseVars => IInv'
  <2> SUFFICES ASSUME IInv, [CaseNext]_caseVars PROVE IInv'  OBVIOUS
  <2>0. CaseTypeOK /\ Good(content)  BY DEF IInv
  <2>1. ASSUME NEW p \in Processes, NEW command, NEW case, Brings(p, command, case) PROVE IInv'
    <3>1. /\ Good(case) /\ case \in Case /\ command \in Commands
          /\ Begin(p, command, case)
      BY <2>1 DEF Brings, Good
    <3>2. held' \in [Processes -> Case] /\ \A q \in Processes : Good(held'[q])
      BY <3>1 DEF IInv, CaseTypeOK, Begin
    <3>3. interfered' \in BOOLEAN  BY <2>0, <3>1 DEF CaseTypeOK, Begin
    <3>4. wiped' \in BOOLEAN /\ origins' \subseteq {"real", "generated"}
      BY <2>0, <2>1 DEF CaseTypeOK, Brings
    <3>5. /\ stage' \in [Processes -> {"idle", "loaded", "open"}]
          /\ verb' \in [Processes -> {"none", "create", "reviews", "adjudication", "outcomes", "impacts"}]
          /\ used' \in Nat
      BY <2>0, <3>1 DEF CaseTypeOK, Begin, Commands
    <3> QED  BY <2>0, <3>1, <3>2, <3>3, <3>4, <3>5 DEF IInv, CaseTypeOK, Begin, onDisk
  <2>2. ASSUME NEW p \in Processes, OpenForWriting(p) PROVE IInv'
    <3>1. Good(content') /\ content' \in Case  BY <2>2, BlankGood DEF OpenForWriting, Good
    <3> QED  BY <2>2, <3>1 DEF OpenForWriting, IInv, CaseTypeOK, history
  <2>3. ASSUME NEW p \in Processes, WriteCase(p) PROVE IInv'
    <3>1. Good(content') /\ content' \in Case  BY <2>3, BlankGood DEF WriteCase, Good, IInv
    <3>2. acked' \in [DOMAIN None -> Nat]  BY <2>0, <2>3, AckedEffect DEF WriteCase, CaseTypeOK
    <3>3. Finish(p)  BY <2>3 DEF WriteCase
    <3> QED  BY <2>0, <2>3, <3>1, <3>2, <3>3, FinishEffect DEF WriteCase, IInv, CaseTypeOK, Commands
  <2>4. ASSUME NEW p \in Processes, Kill(p) PROVE IInv'
    <3>1. interfered' \in BOOLEAN  BY <2>0, <2>4 DEF Kill, CaseTypeOK
    <3>2. Finish(p)  BY <2>4 DEF Kill
    <3> QED  BY <2>0, <2>4, <3>1, <3>2, FinishEffect DEF Kill, IInv, CaseTypeOK, onDisk, Commands
  <2>5. CASE UNCHANGED caseVars
    BY <2>5 DEF IInv, CaseTypeOK, caseVars, onDisk, local, history, Good, BorneOut
  <2> QED  BY <2>1, <2>2, <2>3, <2>4, <2>5, CaseMoves
<1> QED  BY <1>1, <1>2, PTL DEF CaseSpec

-----------------------------------------------------------------------------
(* The variables of a case file keep their types, for any processes and any  *)
(* records of the right form (workflow.py).                                  *)
THEOREM CaseTypeCorrect == CaseSpec => []CaseTypeOK
<1>1. IInv => CaseTypeOK  BY DEF IInv
<1> QED  BY <1>1, Inductive, PTL

(* No overlap of commands and no kill makes a file show a lifecycle state    *)
(* its records do not bear out (workflow.py: save_case saves a case whole).  *)
THEOREM LifecycleHolds == CaseSpec => []LifecycleBorneOut
<1>1. IInv => LifecycleBorneOut  BY DEF IInv, Good, LifecycleBorneOut
<1> QED  BY <1>1, Inductive, PTL

(* A case of lost or generated origin counts neither for the calibration     *)
(* gate nor for the corpus evaluation, whatever happened to its file.        *)
THEOREM OriginsHold == CaseSpec => []OnlyKnownOriginsCount
<1>1. IInv => OnlyKnownOriginsCount
  <2> SUFFICES ASSUME IInv PROVE OnlyKnownOriginsCount  OBVIOUS
  <2>1. /\ content.described => content.origin # "unknown"
        /\ content.origin \in {"real", "generated", "unknown"}
    BY DEF IInv, Good, Case
  <2>2. CalibrationGate(content) \/ TrustedInCorpus(content) =>
          content.described /\ content.origin # "generated"
    BY DEF CalibrationGate, CalibrationReady, TrustedLabel, Valid, TrustedInCorpus, Synthetic
  <2>3. CalibrationGate(content) =>
          (content.adjudication # NoFit \/ Agreed(content)) /\ DecisiveOutcome(content)
    BY DEF CalibrationGate, CalibrationReady, TrustedLabel
  <2> QED  BY <2>1, <2>2, <2>3 DEF OnlyKnownOriginsCount
<1> QED  BY <1>1, Inductive, PTL

(* What validate-case lets through the gate, evaluate-corpus trusts, with    *)
(* the status of the adjudication where there is one.                        *)
THEOREM GatedHolds == CaseSpec => []GatedIsTrustedInCorpus
<1>1. IInv => GatedIsTrustedInCorpus
  <2> SUFFICES ASSUME IInv, CalibrationGate(content)
               PROVE  /\ TrustedInCorpus(content)
                      /\ ExpectedStatus(content) \in Fit
                      /\ content.adjudication # NoFit => ExpectedStatus(content) = content.adjudication
    BY DEF GatedIsTrustedInCorpus
  <2>1. /\ content.described /\ DecisiveOutcome(content) /\ ~Synthetic(content)
        /\ content.adjudication # NoFit \/ Agreed(content)
    BY DEF CalibrationGate, CalibrationReady, TrustedLabel, Valid
  <2>2. TrustedInCorpus(content)  BY <2>1 DEF TrustedInCorpus, LabelSource
  <2>3. content.reviews \in Seq(Review) /\ content.adjudication \in Fit \cup {NoFit}
    BY DEF IInv, Good, Case
  <2>4. ExpectedStatus(content) \in Fit
    <3>1. CASE content.adjudication # NoFit  BY <3>1, <2>3 DEF ExpectedStatus
    <3>2. CASE content.adjudication = NoFit
      BY <3>2, <2>1, <2>3, ConsensusInFit DEF ExpectedStatus, Agreed
    <3> QED  BY <3>1, <3>2
  <2> QED  BY <2>2, <2>4 DEF ExpectedStatus
<1> QED  BY <1>1, Inductive, PTL

-----------------------------------------------------------------------------
(* Until a command meets the file empty, every case comes from a create.     *)
OriginInv ==
  /\ shape # "case" => content = BlankCase
  /\ ~wiped =>
       /\ shape = "case" => content.origin \in origins
       /\ \A p \in Processes : stage[p] # "idle" => held[p].origin \in origins

LEMMA OriginStep == IInv /\ OriginInv /\ [CaseNext]_caseVars => OriginInv'
<1> SUFFICES ASSUME IInv, OriginInv, [CaseNext]_caseVars PROVE OriginInv'  OBVIOUS
<1>0. CaseTypeOK  BY DEF IInv
<1>1. ASSUME NEW p \in Processes, NEW command, NEW case, Brings(p, command, case) PROVE OriginInv'
  <2>1. /\ UNCHANGED <<shape, content>>
        /\ stage' = [stage EXCEPT ![p] = "loaded"] /\ held' = [held EXCEPT ![p] = case]
        /\ origins \subseteq origins'
    BY <1>1 DEF Brings, Begin, onDisk
  <2>2. ASSUME ~wiped' PROVE ~wiped /\ case.origin \in origins'
    <3>1. CASE command = "create"  BY <3>1, <2>2, <1>1 DEF Brings
    <3>2. CASE command # "create"
      <4>1. /\ case.origin = content.origin /\ shape # "torn" /\ origins' = origins
            /\ wiped' = (wiped \/ shape = "empty")
        BY <3>2, <1>1 DEF Brings
      <4>2. ~wiped /\ shape # "empty"  BY <4>1, <2>2
      <4>3. shape = "case"  BY <4>1, <4>2, <1>0 DEF CaseTypeOK
      <4> QED  BY <4>1, <4>2, <4>3 DEF OriginInv
    <3> QED  BY <3>1, <3>2
  <2>3. ASSUME ~wiped', NEW q \in Processes, stage'[q] # "idle" PROVE held'[q].origin \in origins'
    <3>1. CASE q = p  BY <3>1, <2>1, <2>2, <2>3, <1>0 DEF CaseTypeOK
    <3>2. CASE q # p  BY <3>2, <2>1, <2>2, <2>3, <1>0 DEF CaseTypeOK, OriginInv
    <3> QED  BY <3>1, <3>2
  <2> QED  BY <2>1, <2>2, <2>3 DEF OriginInv
<1>2. ASSUME NEW p \in Processes, OpenForWriting(p) PROVE OriginInv'
  BY <1>0, <1>2 DEF OpenForWriting, OriginInv, CaseTypeOK, history
<1>3. ASSUME NEW p \in Processes, WriteCase(p) PROVE OriginInv'
  <2>1. Finish(p) /\ UNCHANGED <<wiped, origins>> /\ stage[p] = "open"  BY <1>3 DEF WriteCase
  <2>2. \A q \in Processes : stage'[q] # "idle" => q # p /\ held'[q] = held[q] /\ stage[q] # "idle"
    BY <1>0, <2>1 DEF Finish, CaseTypeOK
  <2>3. \/ shape' = "case" /\ content' = held[p]
        \/ shape' = "torn" /\ content' = BlankCase
    BY <1>3 DEF WriteCase
  <2> QED  BY <2>1, <2>2, <2>3 DEF OriginInv
<1>4. ASSUME NEW p \in Processes, Kill(p) PROVE OriginInv'
  <2>1. Finish(p) /\ UNCHANGED <<shape, content, wiped, origins>>  BY <1>4 DEF Kill, onDisk
  <2>2. \A q \in Processes : stage'[q] # "idle" => held'[q] = held[q] /\ stage[q] # "idle"
    BY <1>0, <2>1 DEF Finish, CaseTypeOK
  <2> QED  BY <2>1, <2>2 DEF OriginInv
<1>5. CASE UNCHANGED caseVars  BY <1>5 DEF OriginInv, caseVars, onDisk, local, history
<1> QED  BY <1>1, <1>2, <1>3, <1>4, <1>5, CaseMoves

(* A case that was only ever created from generated data is not ready for    *)
(* calibration unless a command has met its file empty.                      *)
THEOREM GeneratedHolds == CaseSpec => []GeneratedReadyOnlyIfWiped
<1>1. CaseInit => OriginInv  BY DEF CaseInit, OriginInv
<1>2. OriginInv => GeneratedReadyOnlyIfWiped
  <2> SUFFICES ASSUME OriginInv, origins = {"generated"}, ~wiped PROVE ~CalibrationReady(content)
    BY DEF GeneratedReadyOnlyIfWiped
  <2>1. CASE shape = "case"
    BY <2>1 DEF OriginInv, CalibrationReady, TrustedLabel, Synthetic
  <2>2. CASE shape # "case"
    <3>1. content = BlankCase  BY <2>2 DEF OriginInv
    <3>2. ~DecisiveOutcome(BlankCase)  BY EmptySeq DEF DecisiveOutcome, BlankCase
    <3> QED  BY <3>1, <3>2 DEF CalibrationReady
  <2> QED  BY <2>1, <2>2
<1> QED  BY <1>1, <1>2, OriginStep, Inductive, PTL DEF CaseSpec

-----------------------------------------------------------------------------
(* Without interference at most one command runs, and the file or the case   *)
(* it holds has all that was acknowledged.                                   *)
AllIdle == \A p \in Processes : stage[p] = "idle"

Stored == shape = "case" /\ Counts(content) = acked

LossInv ==
  ~interfered =>
    \/ AllIdle /\ Stored
    \/ \E p \in Processes :
         /\ Alone(p) /\ Counts(held[p]) = After(acked, verb[p])
         /\ \/ stage[p] = "loaded" /\ Stored
            \/ stage[p] = "open" /\ shape = "empty"

(* When one process is busy and nothing has interfered, it is that process.  *)
LEMMA TheBusyOne ==
  ASSUME LossInv, ~interfered, NEW p \in Processes, stage[p] # "idle"
  PROVE  /\ Alone(p) /\ Counts(held[p]) = After(acked, verb[p])
         /\ \/ stage[p] = "loaded" /\ Stored
            \/ stage[p] = "open" /\ shape = "empty"
<1>1. PICK q \in Processes :
        /\ Alone(q) /\ Counts(held[q]) = After(acked, verb[q])
        /\ \/ stage[q] = "loaded" /\ Stored
           \/ stage[q] = "open" /\ shape = "empty"
  BY DEF LossInv, AllIdle
<1>2. q = p  BY <1>1 DEF Alone
<1> QED  BY <1>1, <1>2

LEMMA LossStep == IInv /\ LossInv /\ [CaseNext]_caseVars => LossInv'
<1> SUFFICES ASSUME IInv, LossInv, [CaseNext]_caseVars, ~interfered' PROVE LossInv'  BY DEF LossInv
<1>0. CaseTypeOK  BY DEF IInv
<1>1. ASSUME NEW p \in Processes, NEW command, NEW case, Brings(p, command, case) PROVE LossInv'
  <2>1. /\ UNCHANGED <<shape, content, acked>> /\ stage[p] = "idle"
        /\ stage' = [stage EXCEPT ![p] = "loaded"] /\ held' = [held EXCEPT ![p] = case]
        /\ verb' = [verb EXCEPT ![p] = command]
        /\ Alone(p) /\ ~interfered
    BY <1>1 DEF Brings, Begin, onDisk
  <2>2. AllIdle  BY <2>1 DEF AllIdle, Alone
  <2>3. \A q \in Processes : stage[q] = "idle"  BY <2>2 DEF AllIdle
  <2>4. Stored
    BY <2>1, <2>3 DEF LossInv
  <2>5. Counts(case) = After(acked, command)  BY <2>4, <1>1 DEF Brings, Stored
  <2>6. Alone(p)' /\ stage'[p] = "loaded" /\ held'[p] = case /\ verb'[p] = command
    BY <1>0, <2>1 DEF CaseTypeOK, Alone
  <2>7. Stored'  BY <2>1, <2>4 DEF Stored, Counts
  <2>8. Counts(held[p])' = After(acked, verb[p])'  BY <2>1, <2>5, <2>6 DEF Counts, After
  <2> QED  BY <2>6, <2>7, <2>8 DEF LossInv
<1>2. ASSUME NEW p \in Processes, OpenForWriting(p) PROVE LossInv'
  <2>1. /\ stage[p] = "loaded" /\ stage' = [stage EXCEPT ![p] = "open"] /\ shape' = "empty"
        /\ UNCHANGED <<held, verb, acked, interfered>>
    BY <1>2 DEF OpenForWriting, history
  <2>2. Alone(p) /\ Counts(held[p]) = After(acked, verb[p])  BY <2>1, TheBusyOne
  <2>3. Alone(p)' /\ stage'[p] = "open"  BY <1>0, <2>1, <2>2 DEF CaseTypeOK, Alone
  <2>4. Counts(held[p])' = After(acked, verb[p])'  BY <2>1, <2>2 DEF Counts, After
  <2> QED  BY <2>1, <2>3, <2>4 DEF LossInv
<1>3. ASSUME NEW p \in Processes, WriteCase(p) PROVE LossInv'
  <2>1. /\ stage[p] = "open" /\ stage' = [stage EXCEPT ![p] = "idle"] /\ UNCHANGED interfered
        /\ AcknowledgeCommand(verb[p])
    BY <1>3 DEF WriteCase, Finish
  <2>2. /\ Alone(p) /\ Counts(held[p]) = After(acked, verb[p]) /\ shape = "empty"
    BY <2>1, TheBusyOne
  <2>3. shape' = "case" /\ content' = held[p]  BY <1>3, <2>2 DEF WriteCase
  <2>4. acked' = After(acked, verb[p])  BY <1>0, <2>1, AckedEffect DEF CaseTypeOK
  <2>5. AllIdle'  BY <1>0, <2>1, <2>2 DEF AllIdle, Alone, CaseTypeOK
  <2>6. Stored'  BY <2>2, <2>3, <2>4 DEF Stored, Counts
  <2> QED  BY <2>5, <2>6 DEF LossInv
<1>4. ASSUME NEW p \in Processes, Kill(p) PROVE LossInv'
  <2>1. /\ stage[p] # "idle" /\ stage[p] # "open" /\ ~interfered
        /\ stage' = [stage EXCEPT ![p] = "idle"] /\ UNCHANGED <<shape, content, acked>>
    BY <1>4 DEF Kill, Finish, onDisk
  <2>2. Alone(p) /\ Stored  BY <2>1, TheBusyOne
  <2>3. AllIdle'  BY <1>0, <2>1, <2>2 DEF AllIdle, Alone, CaseTypeOK
  <2>4. Stored'  BY <2>1, <2>2 DEF Stored, Counts
  <2> QED  BY <2>3, <2>4 DEF LossInv
<1>5. CASE UNCHANGED caseVars
  BY <1>5 DEF LossInv, AllIdle, Stored, Alone, Counts, After, caseVars, onDisk, local, history
<1> QED  BY <1>1, <1>2, <1>3, <1>4, <1>5, CaseMoves

(* As long as commands run one at a time and no save is cut short, the file  *)
(* has every acknowledged record, and nothing else.                          *)
THEOREM CaseLossHolds == CaseSpec => []LossNeedsInterference
<1>1. CaseInit => LossInv
  <2> SUFFICES ASSUME CaseInit PROVE LossInv  OBVIOUS
  <2>1. AllIdle  BY DEF CaseInit, AllIdle
  <2>2. Stored  BY NewGood, EmptySeq DEF CaseInit, Stored, Counts, None
  <2> QED  BY <2>1, <2>2 DEF LossInv
<1>2. LossInv => LossNeedsInterference
  <2> SUFFICES ASSUME LossInv, ~interfered, AllIdle
               PROVE  /\ shape = "case"
                      /\ Len(content.reviews) = acked.reviews
                      /\ Len(content.outcomes) = acked.outcomes
                      /\ content.impacts = acked.impacts
    BY DEF LossNeedsInterference, AllIdle
  <2>1. Stored  BY DEF LossInv, AllIdle
  <2> QED  BY <2>1 DEF Stored, Counts
<1> QED  BY <1>1, <1>2, LossStep, Inductive, PTL DEF CaseSpec
=============================================================================
