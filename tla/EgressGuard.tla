---------------------------- MODULE EgressGuard ----------------------------
(* The content script on one page of a monitored site: the capture-phase     *)
(* submit, click and keydown listeners, the overlays they open and the marks *)
(* that let one confirmed submit through.  Each action is one browser task,  *)
(* with every event the task dispatches synchronously.                       *)
(*                                                                           *)
(* External, from how src/ uses it: the page honours preventDefault; an      *)
(* allowed click or Enter makes the browser submit the form; a submit the    *)
(* form's own validation refuses dispatches no submit event; a form that was *)
(* sent is cleared.                                                          *)
EXTENDS EgressDecision, Sequences, SequencesExt

CONSTANTS Boxes,        \* elements that match prompt_selectors
          Buttons,      \* elements that match submit_selectors
          Forms,        \* HTMLFormElements
          FormOf,       \* the closest form of a box or a button
          Prompts,      \* the texts a user may type
          Blank,        \* a box without text
          NoFocus,      \* document.activeElement is not a box
          PatternsIn,   \* the patterns the detectors find in a prompt
          Policies,     \* the policies the extension may be built with
          MaxOverlays,  \* bound: overlays on the page at a time
          MaxAudits     \* bound: audit writes and continues in one session

Elements == Boxes \cup Buttons \cup Forms

ASSUME PageAssumption ==
  /\ FormOf \in [Boxes \cup Buttons -> Forms]
  /\ Forms \cap (Boxes \cup Buttons) = {}
  /\ Boxes \cap Buttons = {}
  /\ Blank \notin Prompts
  /\ NoFocus \notin Boxes

ASSUME PromptAssumption == PatternsIn \in [Prompts -> SUBSET Pattern]

ASSUME PolicyAssumption ==
  \A p \in Policies :
    /\ PolicyValid(p)
    /\ p.continue \subseteq {"WARN", "REDIRECT", "BLOCK"}
    /\ p.destination \in BOOLEAN
    /\ p.copy \in BOOLEAN

ASSUME BoundAssumption == MaxOverlays \in Nat /\ MaxAudits \in Nat

UserDecision == {"none", "redirect_opened", "clipboard_copy_requested"}

VARIABLES
  policy,     \* the policy the listeners were installed with
  text,       \* the text in each box
  active,     \* document.activeElement, if it is a box
  confirmed,  \* the elements marked for one unscanned resubmit
  overlays,   \* the overlays on the page, oldest first
  audits,     \* calls of writeLocalAudit, by the user decision they record
  sent,       \* (history) the prompts the site has received
  bypasses,   \* (history) submits let through without a scan
  continues,  \* (history) presses of Continue that marked an element
  misread     \* (history) whether a scan judged another text than was sent

vars == <<policy, text, active, confirmed, overlays, audits, sent, bypasses, continues, misread>>

(* What the listeners use of a policy: the action scanPrompt gives each      *)
(* prompt under it, and what the overlay may offer.                          *)
Loaded(p) ==
  [verdict     |-> [q \in Prompts |-> ScanAction(PatternsIn[q], p)],
   continue    |-> p.continue,
   destination |-> p.destination,
   copy        |-> p.copy]

LoadedPolicies == {Loaded(p) : p \in Policies}

(* scanPrompt: a blank prompt is allowed whatever the policy's default.      *)
Verdict(p) == IF p = Blank THEN "ALLOW" ELSE policy.verdict[p]

Overlay == [target : Elements, action : Action, prompt : Prompts]

AuditCount == audits["none"] + audits["redirect_opened"] + audits["clipboard_copy_requested"]

Init ==
  /\ policy \in LoadedPolicies
  /\ text = [x \in Boxes |-> Blank]
  /\ active = NoFocus
  /\ confirmed = {}
  /\ overlays = <<>>
  /\ audits = [d \in UserDecision |-> 0]
  /\ sent = {} /\ bypasses = 0 /\ continues = 0 /\ misread = FALSE

-----------------------------------------------------------------------------
(* capturePrompt: the focused candidate, else one in the submitted form,     *)
(* else the longest (lengths are abstracted: any); none found captures "".   *)
Candidates == {x \in Boxes : text[x] # Blank}

CapturedBoxes(form) ==
  LET inForm == {x \in Candidates : FormOf[x] = form}
  IN  CASE active \in Candidates                        -> {active}
        [] active \notin Candidates /\ inForm # {}      -> inForm
        [] OTHER                                        -> Candidates

Captured(form) ==
  IF Candidates = {} THEN {Blank} ELSE {text[x] : x \in CapturedBoxes(form)}

TextsOf(form) == {text[x] : x \in {y \in Boxes : FormOf[y] = form}} \ {Blank}

-----------------------------------------------------------------------------
(* The site receives what the form holds, and the form is cleared (external).*)
Release(form) ==
  /\ sent' = sent \cup TextsOf(form)
  /\ text' = [x \in Boxes |-> IF FormOf[x] = form THEN Blank ELSE text[x]]

Hold == UNCHANGED <<sent, text, misread>>

Audit(decision) ==
  /\ AuditCount < MaxAudits
  /\ audits' = [audits EXCEPT ![decision] = @ + 1]

(* onDecision for an action other than ALLOW: one audit write is started and *)
(* one more overlay is put on the page, over those already there.            *)
Stop(target, prompt) ==
  /\ Len(overlays) < MaxOverlays
  /\ Audit("none")
  /\ overlays' = Append(overlays, [target |-> target, action |-> Verdict(prompt), prompt |-> prompt])
  /\ Hold
  /\ UNCHANGED bypasses

(* The submit listener, with the marks the task has made so far: a marked    *)
(* form loses its mark and goes through unscanned; any other is scanned.     *)
SubmitEvent(form, marks) ==
  \/ /\ form \in marks
     /\ confirmed' = marks \ {form}
     /\ bypasses' = bypasses + 1
     /\ Release(form)
     /\ UNCHANGED <<overlays, audits, misread>>
  \/ /\ form \notin marks
     /\ confirmed' = marks
     /\ \E prompt \in Captured(form) :
          \/ /\ Verdict(prompt) = "ALLOW"
             /\ Release(form)
             /\ misread' = (misread \/ ~ TextsOf(form) \subseteq {prompt})
             /\ UNCHANGED <<overlays, audits, bypasses>>
          \/ /\ Verdict(prompt) # "ALLOW"
             /\ Stop(form, prompt)

(* requestSubmit, or the browser's own submission of a form: no event at all *)
(* when the form's constraint validation fails (external).                   *)
RequestSubmit(form, marks) ==
  \/ SubmitEvent(form, marks)
  \/ confirmed' = marks /\ Hold /\ UNCHANGED <<overlays, audits, bypasses>>

(* Mutant: a click or Enter trusts the mark of the form without using it up. *)
GestureTrustsMark(target) ==
  \E prompt \in Captured(FormOf[target]) :
    \/ /\ Verdict(prompt) # "ALLOW" /\ FormOf[target] \notin confirmed
       /\ Stop(target, prompt)
       /\ UNCHANGED confirmed
    \/ /\ Verdict(prompt) = "ALLOW" \/ FormOf[target] \in confirmed
       /\ Release(FormOf[target])
       /\ UNCHANGED <<confirmed, overlays, audits, bypasses, misread>>

(* The click and keydown listeners: scan whatever the marks say, and either  *)
(* prevent the default action or leave the browser to submit the form.       *)
ScannedGesture(target) ==
  \E prompt \in Captured(FormOf[target]) :
    \/ /\ Verdict(prompt) # "ALLOW"
       /\ Stop(target, prompt)
       /\ UNCHANGED confirmed
    \/ /\ Verdict(prompt) = "ALLOW"
       /\ RequestSubmit(FormOf[target], confirmed)

-----------------------------------------------------------------------------
Type(x, p) ==
  /\ text' = [text EXCEPT ![x] = p]
  /\ active' = x
  /\ UNCHANGED <<policy, confirmed, overlays, audits, sent, bypasses, continues, misread>>

Focus(x) ==
  /\ active' = x
  /\ UNCHANGED <<policy, text, confirmed, overlays, audits, sent, bypasses, continues, misread>>

(* A submit that no click or key press precedes: the page's own script.      *)
Submit(form) ==
  /\ RequestSubmit(form, confirmed)
  /\ UNCHANGED <<policy, active, continues>>

Click(button) ==
  /\ ScannedGesture(button)
  /\ UNCHANGED <<policy, active, continues>>

(* Enter with the modifiers that keyboard_submit names, in the focused box.  *)
PressEnter ==
  /\ active \in Boxes
  /\ ScannedGesture(active)
  /\ UNCHANGED <<policy, active, continues>>

(* Mutant: Continue marks the target of a REDIRECT or BLOCK overlay as well. *)
ContinueMarksAny(i) ==
  LET o == overlays[i]
      marks == confirmed \cup {o.target}
  IN  /\ o.action \in policy.continue
      /\ continues < MaxAudits
      /\ continues' = continues + 1
      /\ \/ o.target \in Forms /\ RequestSubmit(o.target, marks)
         \/ /\ o.target \notin Forms
            /\ confirmed' = marks
            /\ Hold
            /\ UNCHANGED <<overlays, audits, bypasses>>
      /\ UNCHANGED <<policy, active>>

(* The Continue button: offered where the policy allows it for the action,   *)
(* marks the event target of a WARN only, and resubmits only when the target *)
(* is the form itself.  The overlay stays on the page.                       *)
Continue(i) ==
  LET o == overlays[i]
      marks == IF o.action = "WARN" THEN confirmed \cup {o.target} ELSE confirmed
  IN  /\ o.action \in policy.continue
      /\ continues < MaxAudits
      /\ continues' = IF o.action = "WARN" THEN continues + 1 ELSE continues
      /\ \/ o.target \in Forms /\ RequestSubmit(o.target, marks)
         \/ /\ o.target \notin Forms
            /\ confirmed' = marks
            /\ Hold
            /\ UNCHANGED <<overlays, audits, bypasses>>
      /\ UNCHANGED <<policy, active>>

(* Open approved endpoint: throws before the audit write when the policy     *)
(* names no destination.                                                     *)
Redirect(i) ==
  /\ overlays[i].action = "REDIRECT"
  /\ policy.destination
  /\ Audit("redirect_opened")
  /\ UNCHANGED <<policy, text, active, confirmed, overlays, sent, bypasses, continues, misread>>

CopyPrompt(i) ==
  /\ overlays[i].action = "REDIRECT"
  /\ policy.destination /\ policy.copy
  /\ Audit("clipboard_copy_requested")
  /\ UNCHANGED <<policy, text, active, confirmed, overlays, sent, bypasses, continues, misread>>

Cancel(i) ==
  /\ overlays' = RemoveAt(overlays, i)
  /\ UNCHANGED <<policy, text, active, confirmed, audits, sent, bypasses, continues, misread>>

Next ==
  \/ \E x \in Boxes, p \in Prompts \cup {Blank} : Type(x, p)
  \/ \E x \in Boxes \cup {NoFocus} : Focus(x)
  \/ \E f \in Forms : Submit(f)
  \/ \E b \in Buttons : Click(b)
  \/ PressEnter
  \/ \E i \in DOMAIN overlays : Continue(i) \/ Redirect(i) \/ CopyPrompt(i) \/ Cancel(i)

Spec == Init /\ [][Next]_vars

-----------------------------------------------------------------------------
TypeOK ==
  /\ policy \in LoadedPolicies
  /\ text \in [Boxes -> Prompts \cup {Blank}]
  /\ active \in Boxes \cup {NoFocus}
  /\ confirmed \subseteq Elements
  /\ overlays \in Seq(Overlay)
  /\ audits \in [UserDecision -> Nat]
  /\ sent \subseteq Prompts
  /\ bypasses \in Nat /\ continues \in Nat
  /\ misread \in BOOLEAN

(* Every unscanned submit was paid for by one press of Continue on a WARN    *)
(* overlay, and so is every mark still waiting: a mark is used once          *)
(* (submit_intercept.ts:27-30).                                              *)
OneContinueOneBypass == bypasses + Cardinality(confirmed \cap Forms) <= continues

Risky(p) == Verdict(p) # "ALLOW"

(* A prompt the policy would stop reaches the site only in a session where   *)
(* the policy lets users continue on WARN, a user did, and a mark was used - *)
(* or where a page with several prompt boxes made the scan judge another box *)
(* than the one that was sent.  REDIRECT and BLOCK overlays, whatever        *)
(* allow_continue_on_redirect and allow_continue_on_block say, never are the *)
(* reason.                                                                   *)
RiskySentOnlyOnContinue ==
  (\E p \in sent : Risky(p)) =>
    misread \/ (bypasses > 0 /\ "WARN" \in policy.continue)

(* The gate this page implements: what a press of Continue buys is exactly   *)
(* one submit, and only a misread gets a risky prompt out without it.        *)
Gate == INSTANCE PromptGate WITH
          safe        <- {p \in Prompts : Verdict(p) = "ALLOW"},
          mayContinue <- "WARN" \in policy.continue,
          credit      <- continues - bypasses

(* The page refines the gate (content_script.ts and submit_intercept.ts      *)
(* together).                                                                *)
ImplementsGate == Gate!Spec

(* Every overlay on the page, and every mark, goes back to a scan that       *)
(* stopped a prompt and was handed to the local audit (content_script.ts).   *)
StopsAreAudited ==
  /\ Len(overlays) <= audits["none"]
  /\ continues > 0 \/ audits["redirect_opened"] > 0 => audits["none"] > 0

=============================================================================
