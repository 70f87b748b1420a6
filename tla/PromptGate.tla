----------------------------- MODULE PromptGate -----------------------------
(* What the extension promises about a page, without events, overlays or     *)
(* marks: prompts the policy allows may be sent freely; any other prompt     *)
(* goes out only on an acknowledgement the policy lets users give, and each  *)
(* acknowledgement is good for one submit.                                   *)
EXTENDS Naturals

CONSTANT Prompts

VARIABLES safe,        \* the prompts the policy allows
          mayContinue, \* whether the policy lets users continue on a warning
          credit,      \* acknowledgements not used yet
          sent,        \* the prompts the site has received
          misread      \* whether a scan has judged another text than was sent

gateVars == <<safe, mayContinue, credit, sent, misread>>

Init ==
  /\ safe \subseteq Prompts
  /\ mayContinue \in BOOLEAN
  /\ credit = 0
  /\ sent = {}
  /\ misread = FALSE

SendScanned ==
  /\ sent \subseteq sent' /\ sent' \subseteq sent \cup safe
  /\ UNCHANGED <<safe, mayContinue, credit, misread>>

(* A page with several prompt boxes may scan one and send another.           *)
SendMisread ==
  /\ sent \subseteq sent' /\ sent' \subseteq Prompts
  /\ misread' = TRUE
  /\ UNCHANGED <<safe, mayContinue, credit>>

Acknowledge ==
  /\ mayContinue
  /\ credit' = credit + 1
  /\ UNCHANGED <<safe, mayContinue, sent, misread>>

SendOnCredit ==
  /\ credit > 0
  /\ credit' = credit - 1
  /\ sent \subseteq sent' /\ sent' \subseteq Prompts
  /\ UNCHANGED <<safe, mayContinue, misread>>

(* Acknowledging and sending in one browser task.                            *)
AcknowledgeAndSend ==
  /\ mayContinue
  /\ sent \subseteq sent' /\ sent' \subseteq Prompts
  /\ UNCHANGED <<safe, mayContinue, credit, misread>>

Next == SendScanned \/ SendMisread \/ Acknowledge \/ SendOnCredit \/ AcknowledgeAndSend

Spec == Init /\ [][Next]_gateVars
=============================================================================
