------------------------------ MODULE CaseFile ------------------------------
(* stateful-storage-fit: one case file, updated by commands run as separate  *)
(* processes, with no lock between them.  A command loads the whole case,    *)
(* changes it in memory and saves it whole: opening the file for writing     *)
(* empties it, and the new text is written in a step of its own.  A process  *)
(* may be killed between any two steps.  A command that refuses (a file it   *)
(* cannot parse, reviews that do not agree) changes nothing: it has no step. *)
EXTENDS CaseRecord

CONSTANTS Processes,
          Reviews, Adjudications, Outcomes,  \* the records users supply
          MaxCommands                        \* (bound) the commands of a behaviour

ASSUME RecordsAssumption ==
  Reviews \subseteq Review /\ Adjudications \subseteq Fit /\ Outcomes \subseteq Outcome

VARIABLES
  shape,      \* what the file holds: "case", "empty", or "torn" text
  content,    \* the case it holds, BlankCase when it holds none
  stage,      \* of each process: "idle", "loaded" or "open" (for writing)
  held,       \* of each process: the case it is about to save
  verb,       \* of each process: the command it runs
  used,       \* the commands begun
  acked,      \* (history) the records of the commands that ended, by kind
  interfered, \* (history) commands have overlapped, or a save was cut short
  wiped,      \* (history) a command has loaded an empty file
  origins     \* (history) the origins create-case was given

onDisk == <<shape, content>>
local == <<stage, held, verb>>
history == <<acked, interfered, wiped, origins>>
caseVars == <<onDisk, local, used, history>>

None == [reviews |-> 0, outcomes |-> 0, impacts |-> 0]

CaseInit ==
  /\ content \in NewCases /\ origins = {content.origin}
  /\ shape = "case"
  /\ stage = [p \in Processes |-> "idle"]
  /\ held = [p \in Processes |-> BlankCase]
  /\ verb = [p \in Processes |-> "none"]
  /\ used = 0
  /\ acked = None
  /\ interfered = FALSE /\ wiped = FALSE

-----------------------------------------------------------------------------
Alone(p) == \A q \in Processes \ {p} : stage[q] = "idle"

Begin(p, command, case) ==
  /\ stage[p] = "idle" /\ used < MaxCommands
  /\ used' = used + 1
  /\ stage' = [stage EXCEPT ![p] = "loaded"]
  /\ held' = [held EXCEPT ![p] = case]
  /\ verb' = [verb EXCEPT ![p] = command]
  /\ interfered' = (interfered \/ ~Alone(p))
  /\ UNCHANGED <<onDisk, acked>>

(* load_case: an empty file loads as a case without fields.                  *)
Load(p, command, case) ==
  /\ shape # "torn"
  /\ Begin(p, command, case)
  /\ wiped' = (wiped \/ shape = "empty")
  /\ UNCHANGED origins

AddReview(p) == \E review \in Reviews : Load(p, "reviews", WithReview(content, review))

Adjudicate(p) == \E fit \in Adjudications : Load(p, "adjudication", WithAdjudication(content, fit))

PromoteConsensus(p) ==
  LET fit == Consensus(content.reviews)
  IN  fit # NoFit /\ Load(p, "adjudication", WithAdjudication(content, fit))

AddOutcome(p) == \E outcome \in Outcomes : Load(p, "outcomes", WithOutcome(content, outcome))

AddImpact(p) == Load(p, "impacts", WithImpact(content))

(* create-case and case-template do not look whether the file is there.      *)
CreateCase(p) ==
  \E case \in NewCases :
    /\ Begin(p, "create", case)
    /\ origins' = origins \cup {case.origin}
    /\ UNCHANGED wiped

OpenForWriting(p) ==
  /\ stage[p] = "loaded"
  /\ stage' = [stage EXCEPT ![p] = "open"]
  /\ shape' = "empty" /\ content' = BlankCase
  /\ UNCHANGED <<held, verb, used, history>>

Finish(p) ==
  /\ stage' = [stage EXCEPT ![p] = "idle"]
  /\ held' = [held EXCEPT ![p] = BlankCase]
  /\ verb' = [verb EXCEPT ![p] = "none"]

AcknowledgeCommand(command) ==
  acked' = CASE command = "create" -> None
             [] command \in DOMAIN acked -> [acked EXCEPT ![command] = @ + 1]
             [] OTHER -> acked

(* The text goes to the start of the file.  When another process has written *)
(* there since this one emptied it, and its text was longer, its end stays:  *)
(* the file is torn (that the rest happens to parse is left out).            *)
WriteCase(p) ==
  /\ stage[p] = "open"
  /\ \/ shape' = "case" /\ content' = held[p]
     \/ shape # "empty" /\ shape' = "torn" /\ content' = BlankCase
  /\ Finish(p)
  /\ AcknowledgeCommand(verb[p])
  /\ UNCHANGED <<used, interfered, wiped, origins>>

(* A kill before the file is opened loses nothing but the command.           *)
Kill(p) ==
  /\ stage[p] # "idle"
  /\ Finish(p)
  /\ interfered' = (interfered \/ stage[p] = "open")
  /\ UNCHANGED <<onDisk, used, acked, wiped, origins>>

CaseNext ==
  \E p \in Processes :
    \/ AddReview(p) \/ Adjudicate(p) \/ PromoteConsensus(p) \/ AddOutcome(p) \/ AddImpact(p)
    \/ CreateCase(p) \/ OpenForWriting(p) \/ WriteCase(p) \/ Kill(p)

CaseSpec == CaseInit /\ [][CaseNext]_caseVars

-----------------------------------------------------------------------------
(* The variables keep their types.                                           *)
CaseTypeOK ==
  /\ shape \in {"case", "empty", "torn"} /\ content \in Case
  /\ stage \in [Processes -> {"idle", "loaded", "open"}]
  /\ held \in [Processes -> Case]
  /\ verb \in [Processes -> {"none", "create", "reviews", "adjudication", "outcomes", "impacts"}]
  /\ used \in Nat
  /\ acked \in [DOMAIN None -> Nat]
  /\ interfered \in BOOLEAN /\ wiped \in BOOLEAN
  /\ origins \subseteq {"real", "generated"}

(* The records of a case bear out the lifecycle state it shows.              *)
BorneOut(case) ==
  CASE case.life \in {"unknown", "created", "engine_analyzed"} ->
         case.reviews = <<>> /\ case.outcomes = <<>> /\ case.adjudication = NoFit
    [] case.life = "review_in_progress" -> Len(case.reviews) = 1
    [] case.life = "expert_reviewed" -> Agreed(case)
    [] case.life = "needs_adjudication" -> Len(case.reviews) >= 2 /\ ~Agreed(case)
    [] case.life = "adjudicated" -> case.adjudication # NoFit
    [] case.life = "outcome_linked" -> DecisiveOutcome(case)
    [] case.life = "awaiting_outcome" ->
         case.outcomes # <<>> /\ ~Decisive(case.outcomes[Len(case.outcomes)])

(* However commands overlap or are cut short, the file never shows a         *)
(* lifecycle state that its own records do not bear out (workflow.py:        *)
(* add_review, adjudicate_case, add_outcome).                                *)
LifecycleBorneOut == BorneOut(content)

(* As long as commands run one at a time and no save is cut short, every     *)
(* review, outcome and impact a command has acknowledged since the case was  *)
(* created is in the file, and nothing else is (workflow.py: save_case).     *)
LossNeedsInterference ==
  ~interfered /\ (\A p \in Processes : stage[p] = "idle") =>
    /\ shape = "case"
    /\ Len(content.reviews) = acked.reviews
    /\ Len(content.outcomes) = acked.outcomes
    /\ content.impacts = acked.impacts

(* Neither the calibration gate nor the corpus evaluation counts a case      *)
(* whose origin is generated or lost, whatever happened to its file, and the *)
(* gate wants an adjudication or two agreeing reviews, and a decisive        *)
(* outcome (governance.py: quality_gate, corpus.py: evaluate_corpus).        *)
OnlyKnownOriginsCount ==
  /\ CalibrationGate(content) \/ TrustedInCorpus(content) => content.origin = "real"
  /\ CalibrationGate(content) =>
       (content.adjudication # NoFit \/ Agreed(content)) /\ DecisiveOutcome(content)

(* A case that was only ever created from generated data is not ready for    *)
(* calibration, unless a command has met the file empty (workflow.py:        *)
(* validate_case reads a lost data_origin as "unknown").                     *)
GeneratedReadyOnlyIfWiped ==
  origins = {"generated"} /\ ~wiped => ~CalibrationReady(content)

(* validate-case and evaluate-corpus decide on trust separately: a case that *)
(* passes the gate of the one is trusted by the other, with the adjudicated  *)
(* status if there is one (workflow.py: validate_case, corpus.py:            *)
(* _case_quality).                                                           *)
GatedIsTrustedInCorpus ==
  CalibrationGate(content) =>
    /\ TrustedInCorpus(content)
    /\ ExpectedStatus(content) \in Fit
    /\ content.adjudication # NoFit => ExpectedStatus(content) = content.adjudication
=============================================================================
