------------------------------ MODULE HostReplay ------------------------------
(* host-screen-contracts: the contract and replay case extracted from a      *)
(* trace, the driver that replays a case on a trace, the comparison of a     *)
(* contract with a newer trace, and the merge of the contracts of a package. *)
EXTENDS HostContract

MatchingRequest(request, ref, input) ==
  {k \in DOMAIN request : request[k].ref = ref /\ Names(request[k], input.id, input.at)}

(* What the map says of a field: "yes", "no" or "unset".                     *)
Sensitive(map, f) ==
  IF EntriesNamed(map, f.ref, f.id, f.at) = {} THEN "unset" ELSE FirstNamed(map, f.ref, f.id, f.at).sensitive

ShouldRedact(map, f) ==
  CASE Sensitive(map, f) = "no" -> FALSE
    [] Sensitive(map, f) = "yes" -> TRUE
    [] OTHER -> f.name \in SensitiveNames

(* The inputs of a step by name: of two inputs of one name the later.        *)
StepInputs(trace, i, request, map, redact) ==
  LET ref == PreviousScreen(trace, i)
      inputs == trace[i].inputs
      field == [j \in {n \in DOMAIN inputs : MatchingRequest(request, ref, inputs[n]) # {}} |->
                  request[Min(MatchingRequest(request, ref, inputs[j]))]]
      Named(name) == Max({j \in DOMAIN field : field[j].name = name})
  IN  [name \in {field[j].name : j \in DOMAIN field} |->
         IF redact /\ Sensitive(map, field[Named(name)]) # "no" THEN REDACTED ELSE inputs[Named(name)].value]

ValueOf(trace, map, f) == FindField(trace[f.ref], map, f.ref, f.id, f.at, NotGiven)[1].value

(* The response the driver reads: of the fields of a name the last with a    *)
(* value.                                                                    *)
DriverResponse(trace, map, fields) ==
  [name \in {fields[k].name : k \in DOMAIN fields} |->
     LET valued == {k \in DOMAIN fields : /\ fields[k].name = name /\ fields[k].ref \in Screens(trace)
                                          /\ ValueOf(trace, map, fields[k]) # NotGiven}
     IN  IF valued = {} THEN NotGiven ELSE ValueOf(trace, map, fields[Max(valued)])]

(* The response the case expects: of the fields of a name the last.          *)
ExpectedResponse(trace, response, map, redact) ==
  [name \in {response[k].name : k \in DOMAIN response} |->
     LET f == response[Max({k \in DOMAIN response : response[k].name = name})]
     IN  IF redact /\ ShouldRedact(map, f) THEN REDACTED ELSE ValueOf(trace, map, f)]

Blockers(trace, map, strict, request, response) ==
  (IF Screens(trace) = {} THEN {"NO_SCREEN_EVENTS"} ELSE {})
    \cup (IF Actions(trace) = {} THEN {"NO_ACTION_EVENTS"} ELSE {})
    \cup (IF strict /\ \E i \in Actions(trace) : ~Followed(trace, i) THEN {"TRACE_SEQUENCE_INVALID"} ELSE {})
    \cup (IF strict /\ MapErrors(trace, map) THEN {"FIELD_MAP_INVALID"} ELSE {})
    \cup (IF request = <<>> THEN {"NO_INPUT_FIELDS"} ELSE {})
    \cup (IF response = <<>> THEN {"NO_FINAL_OUTPUT_FIELDS"} ELSE {})

Transitions(trace, request, map, redact) ==
  LET recorded == RecordedActions(trace)
  IN  [k \in DOMAIN recorded |->
         LET i == recorded[k]
             from == PreviousScreen(trace, i)
             to == ScreenAfter(trace, i)
         IN  [from |-> from, aid |-> trace[i].aid, to |-> to, hash |-> ScreenHash(trace[to], map, to),
              inputs |-> StepInputs(trace, i, request, map, redact)]]

(* Contract and case in one record.                                          *)
Extract(trace, map, options) ==
  LET request == RequestFields(trace, map)
      response == ResponseFields(trace, map)
      transitions == Transitions(trace, request, map, options.redact)
      refs == InOrder(Screens(trace))
      Hash(ref) == ScreenHash(trace[ref], map, ref)
  IN  [blockers |-> Blockers(trace, map, options.strict, request, response),
       screens |-> [k \in DOMAIN refs |-> [ref |-> refs[k], hash |-> Hash(refs[k])]],
       transitions |-> transitions, request |-> request, response |-> response, map |-> map,
       start |-> IF refs = <<>> THEN <<>> ELSE <<Hash(refs[1])>>,
       steps |-> [k \in DOMAIN transitions |->
                    [expect |-> Hash(transitions[k].from), aid |-> transitions[k].aid,
                     inputs |-> transitions[k].inputs, next |-> transitions[k].hash]],
       expected |-> ExpectedResponse(trace, response, map, options.redact)]

-----------------------------------------------------------------------------
(* The replay of a case on a trace                                           *)
(* The map the driver reads values with: that of the contract, and each      *)
(* field of the contract as an entry where neither the map nor a field       *)
(* before it has one.                                                        *)
DriverMap(contract) ==
  LET fields == contract.request \o contract.response
      places == {<<contract.map.entries[k].ref, contract.map.entries[k].at>> : k \in DOMAIN contract.map.entries}
      entries == [k \in DOMAIN fields |->
                    [ref |-> fields[k].ref, id |-> fields[k].id, at |-> fields[k].at, size |-> fields[k].size,
                     name |-> fields[k].name, role |-> "output", cases |-> {}, sensitive |-> "unset",
                     optional |-> FALSE, notRequired |-> FALSE]]
      added == {k \in DOMAIN fields : /\ <<fields[k].ref, fields[k].at>> \notin places
                                      /\ \A j \in 1..(k - 1) : <<fields[j].ref, fields[j].at>> # <<fields[k].ref, fields[k].at>>}
  IN  [contract.map EXCEPT !.entries = @ \o Those(entries, added)]

(* A name stands for the last request field that has it, on whatever screen. *)
InputsAccepted(contract, action, inputs) ==
  \A name \in DOMAIN inputs :
    /\ \E k \in DOMAIN contract.request : contract.request[k].name = name
    /\ LET f == contract.request[Max({k \in DOMAIN contract.request : contract.request[k].name = name})]
           recorded == {n \in DOMAIN action.inputs : Names(action.inputs[n], f.id, f.at)}
       IN  recorded # {} /\ inputs[name] \in {REDACTED, action.inputs[Min(recorded)].value}

(* Where the driver stands after k actions.                                  *)
DriverAt(trace, k) == IF k = 0 THEN Min(Screens(trace)) ELSE ScreenAfter(trace, ActionSeq(trace)[k])

CanApply(trace, k) == k <= Len(ActionSeq(trace)) /\ HasScreenAfter(trace, ActionSeq(trace)[k])

(* Mutant: the driver hashes screens without the map of the contract.        *)
DriverHashBare(contract, trace, k) ==
  ScreenHash(trace[DriverAt(trace, k)], [entries |-> <<>>, volatile |-> {}], DriverAt(trace, k))

DriverHash(contract, trace, k) == ScreenHash(trace[DriverAt(trace, k)], contract.map, DriverAt(trace, k))

StepFaults(contract, trace, step, k) ==
  LET action == trace[ActionSeq(trace)[k]]
  IN  IF ~CanApply(trace, k) THEN {"no_action_or_screen"}
      ELSE (IF action.aid # step.aid THEN {"aid"} ELSE {})
             \cup (IF InputsAccepted(contract, action, step.inputs) THEN {} ELSE {"input"})
             \cup (IF (k = 1 \/ CanApply(trace, k - 1)) /\ DriverHash(contract, trace, k - 1) # step.expect
                   THEN {"screen"} ELSE {})
             \cup (IF DriverHash(contract, trace, k) # step.next THEN {"next_screen"} ELSE {})

CaseAnswered(contract, case, trace) ==
  LET response == DriverResponse(trace, DriverMap(contract), contract.response)
  IN  \A name \in DOMAIN case.expected :
        case.expected[name] \in {REDACTED} \cup {response[n] : n \in {name} \cap DOMAIN response}

FaultsOfSteps(contract, case, trace) ==
  UNION {StepFaults(contract, trace, case.steps[k], k) : k \in DOMAIN case.steps}

ReplayFaults(contract, case, trace) ==
  IF Screens(trace) = {} THEN {"no_screens"}
  ELSE (IF case.start # <<DriverHash(contract, trace, 0)>> THEN {"start"} ELSE {})
         \cup FaultsOfSteps(contract, case, trace)
         \cup (IF CaseAnswered(contract, case, trace) THEN {} ELSE {"response"})
         \cup (IF Len(case.steps) # Len(ActionSeq(trace)) THEN {"unapplied"} ELSE {})

-----------------------------------------------------------------------------
(* The comparison with a newer trace                                         *)
(* The screen of the contract a screen is compared with: that of its         *)
(* reference, or else the one at its place.                                  *)
Counterpart(contract, trace, ref) ==
  LET same == {k \in DOMAIN contract.screens : contract.screens[k].ref = ref}
      place == Cardinality({s \in Screens(trace) : s <= ref})
  IN  IF same # {} THEN <<contract.screens[Max(same)]>>
      ELSE IF place <= Len(contract.screens) THEN <<contract.screens[place]>> ELSE <<>>

(* Of fields of one id, in the contract as on the screen, the last counts.   *)
Moved(contract, screen, ref) ==
  LET fields == contract.request \o contract.response
  IN  \E k \in DOMAIN fields, n \in DOMAIN screen.fields :
        LET f == fields[k]
            g == screen.fields[n]
        IN  /\ f.ref = ref /\ g.id = f.id /\ <<g.at, g.size>> # <<f.at, f.size>>
            /\ \A j \in DOMAIN fields : j > k => <<fields[j].ref, fields[j].id>> # <<ref, f.id>>
            /\ \A m \in DOMAIN screen.fields : m > n => screen.fields[m].id # f.id

ScreenChanges(contract, trace, map, ref) ==
  LET match == Counterpart(contract, trace, ref)
      expected == Head(match)
      now == ScreenHash(trace[ref], map, expected.ref)
  IN  IF match = <<>> THEN {"unknown_screen"}
      ELSE (CASE now.layout # expected.hash.layout -> {"layout_changed"}
              [] now.text # expected.hash.text -> {"labels_changed"}
              [] OTHER -> {})
             \cup (IF Moved(contract, trace[ref], expected.ref) THEN {"field_moved_or_resized"} ELSE {})

AllScreenChanges(contract, trace, map) ==
  UNION {ScreenChanges(contract, trace, map, ref) : ref \in Screens(trace)}

(* Mutant: the number of actions is compared, not their keys.                *)
ChangesCounted(contract, trace, map) ==
  (IF Cardinality(Screens(trace)) # Len(contract.screens) THEN {"screen_count_changed"} ELSE {})
    \cup AllScreenChanges(contract, trace, map)
    \cup (IF Len(ActionSeq(trace)) # Len(contract.transitions) THEN {"replay_path_changed"} ELSE {})

Changes(contract, trace, map) ==
  (IF Cardinality(Screens(trace)) # Len(contract.screens) THEN {"screen_count_changed"} ELSE {})
    \cup AllScreenChanges(contract, trace, map)
    \cup (IF [k \in DOMAIN ActionSeq(trace) |-> trace[ActionSeq(trace)[k]].aid]
               # [k \in DOMAIN contract.transitions |-> contract.transitions[k].aid]
          THEN {"replay_path_changed"} ELSE {})

DriftStatus(changes) ==
  IF changes \ {"labels_changed"} # {} THEN "breaking_change"
  ELSE IF changes # {} THEN "review_required" ELSE "compatible"

-----------------------------------------------------------------------------
(* Mutant: of two fields of one name the first is kept.                      *)
MergedByName(first, second) ==
  LET Unnamed(fields, more) == Those(more, {n \in DOMAIN more : \A k \in DOMAIN fields : fields[k].name # more[n].name})
  IN  [first EXCEPT !.blockers = @ \cup second.blockers,
                    !.request = @ \o Unnamed(@, second.request),
                    !.response = @ \o Unnamed(@, second.response)]

(* Screens and transitions that the contract has no equal of before.         *)
Distinct(s) == Those(s, {k \in DOMAIN s : \A j \in 1..(k - 1) : s[j] # s[k]})

(* The contract of a package: the first with what the others add; its field  *)
(* map is the first one's.                                                   *)
MergedContract(first, second) ==
  [first EXCEPT !.blockers = @ \cup second.blockers,
                !.screens = Distinct(@ \o second.screens),
                !.transitions = Distinct(@ \o second.transitions),
                !.request = Deduped(@ \o second.request),
                !.response = Deduped(@ \o second.response)]
=============================================================================
