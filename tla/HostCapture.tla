----------------------------- MODULE HostCapture ------------------------------
(* host-screen-contracts: a capture session writes a trace file, which is    *)
(* extracted and replayed on itself; then a newer trace is compared with the *)
(* contract and replayed, or a second case is merged into a package.         *)
EXTENDS HostReplay

CONSTANTS
  ScreenEvents, ActionEvents,  \* what a session may record
  ChangedScreens,              \* what a newer recording may show besides
  OldTrace,                    \* what the file held before the session
  Maps, OptionSets,            \* field maps and options of the extraction
  MaxEvents,                   \* events of one session
  MaxFollowed                  \* the longest trace that is followed by another

(* What the models of trace_schema.py and field_map.py accept; 0 and         *)
(* NotGiven are for what is not given.                                       *)
TraceField == [id : STRING \ {NotGiven}, at : Nat \ {0}, size : Nat \ {0}, label : STRING, input : BOOLEAN]

ActionInput == [id : STRING, at : Nat, value : STRING]

FieldMapEntry ==
  [ref : Nat, id : STRING, at : Nat, size : Nat, name : STRING, role : STRING, cases : SUBSET STRING,
   sensitive : {"yes", "no", "unset"}, optional : BOOLEAN, notRequired : BOOLEAN]

NoteEvent == [type |-> "note"]

IsEvent(e) ==
  \/ e.type = "screen" /\ e.fields \in Seq(TraceField)
  \/ e.type = "action" /\ e.inputs \in Seq(ActionInput)
  \/ e.type = "note"

EventSet == ScreenEvents \cup ChangedScreens \cup ActionEvents \cup {NoteEvent} \cup ToSet(OldTrace)

ASSUME EventsAssumption == OldTrace \in Seq(EventSet) /\ \A e \in EventSet : IsEvent(e)

ASSUME MapsAssumption == Maps \subseteq [entries : Seq(FieldMapEntry), volatile : SUBSET [ref : Nat, at : Nat]]

VARIABLES
  stage,      \* "capture", "closing", "ended", "extracted", "replayed", "again",
              \* "compared", "packaged", "package_replayed"
  events,     \* the writer's events, in memory
  file,       \* the events in the trace file
  sessions,   \* what each session that was closed had recorded
  map, options,
  contract,   \* <<>>, or the contract and case of the file
  newer,      \* the second trace
  second,     \* <<>>, or what was extracted from it as a case of the package
  result      \* what the last command found

captureVars == <<stage, events, file, sessions, map, options, contract, newer, second, result>>

CaptureInit ==
  /\ stage = "capture" /\ events = <<>>
  /\ file = OldTrace /\ sessions = {OldTrace}
  /\ map \in Maps /\ options \in OptionSets
  /\ contract = <<>> /\ newer = <<>> /\ second = <<>> /\ result = {}

Record(event) ==
  /\ stage = "capture" /\ Len(events) < MaxEvents
  /\ events' = Append(events, event)
  /\ UNCHANGED <<stage, file, sessions, map, options, contract, newer, second, result>>

(* Mutant: the writer flushes each screen to the file as it comes.           *)
WriteScreenThrough ==
  \E screen \in ScreenEvents :
    /\ stage = "capture" /\ Len(events) < MaxEvents
    /\ events' = Append(events, screen)
    /\ file' = Append(events, screen)
    /\ UNCHANGED <<stage, sessions, map, options, contract, newer, second, result>>

WriteScreen == \E screen \in ScreenEvents : Record(screen)

WriteAction == \E action \in ActionEvents : Record(action)

WriteNote == Record(NoteEvent)

(* write_text opens the file anew, which empties it, and then writes.        *)
CloseTruncates ==
  /\ stage = "capture" /\ stage' = "closing"
  /\ file' = <<>>
  /\ UNCHANGED <<events, sessions, map, options, contract, newer, second, result>>

CloseWrites ==
  /\ stage = "closing" /\ stage' = "ended"
  /\ file' = events /\ sessions' = sessions \cup {events} /\ events' = <<>>
  /\ UNCHANGED <<map, options, contract, newer, second, result>>

(* The capturing program ends without close(), or within it.                 *)
Crash ==
  /\ stage \in {"capture", "closing"} /\ stage' = "ended"
  /\ events' = <<>>
  /\ UNCHANGED <<file, sessions, map, options, contract, newer, second, result>>

-----------------------------------------------------------------------------
ExtractTrace ==
  /\ stage = "ended" /\ stage' = "extracted"
  /\ contract' = Extract(file, ForCase(map, "a"), options)
  /\ UNCHANGED <<events, file, sessions, map, options, newer, second, result>>

(* The generated replay test, run on the trace itself.                       *)
ReplayOwn ==
  /\ stage = "extracted" /\ stage' = "replayed"
  /\ result' = ReplayFaults(contract, contract, file)
  /\ UNCHANGED <<events, file, sessions, map, options, contract, newer, second>>

(* Another recording: one event more, less or another, or two in turn.       *)
Variations(trace) ==
  {RemoveAt(trace, k) : k \in DOMAIN trace}
    \cup {ReplaceAt(trace, k, e) : k \in DOMAIN trace, e \in ScreenEvents \cup ChangedScreens \cup ActionEvents}
    \cup {InsertAt(trace, k, e) : k \in DOMAIN trace, e \in ScreenEvents \cup ActionEvents \cup {NoteEvent}}
    \cup {[trace EXCEPT ![k] = trace[k + 1], ![k + 1] = trace[k]] : k \in 1..(Len(trace) - 1)}

RecordAgain ==
  /\ stage = "replayed" /\ contract.blockers = {} /\ Len(file) <= MaxFollowed
  /\ stage' = "again" /\ newer' \in Variations(file) \cup {file}
  /\ UNCHANGED <<events, file, sessions, map, options, contract, second, result>>

(* compare, with the map of the extraction, and the replay on the new trace. *)
Compare ==
  /\ stage = "again" /\ stage' = "compared"
  /\ result' = [changes |-> Changes(contract, newer, contract.map), faults |-> ReplayFaults(contract, contract, newer),
                own |-> result]
  /\ UNCHANGED <<events, file, sessions, map, options, contract, newer, second>>

(* extract-package: the second case has its own entries of the map.          *)
ExtractSecond ==
  /\ stage = "again" /\ stage' = "packaged"
  /\ second' = Extract(newer, ForCase(map, "b"), options)
  /\ UNCHANGED <<events, file, sessions, map, options, contract, newer, result>>

(* Both cases are replayed with the contract of the package.                 *)
ReplayPackage ==
  /\ stage = "packaged" /\ stage' = "package_replayed"
  /\ result' = [own |-> result, alone |-> ReplayFaults(second, second, newer),
                first |-> ReplayFaults(MergedContract(contract, second), contract, file),
                second |-> ReplayFaults(MergedContract(contract, second), second, newer)]
  /\ UNCHANGED <<events, file, sessions, map, options, contract, newer, second>>

CaptureNext ==
  \/ WriteScreen \/ WriteAction \/ WriteNote \/ CloseTruncates \/ CloseWrites \/ Crash
  \/ ExtractTrace \/ ReplayOwn \/ RecordAgain \/ Compare \/ ExtractSecond \/ ReplayPackage

CaptureSpec == CaptureInit /\ [][CaptureNext]_captureVars

-----------------------------------------------------------------------------
(* A contract without blockers is of the whole of a session that was closed: *)
(* a session that ends early leaves what was there before, or nothing        *)
(* (adapter_protocol.py: TraceWriter).                                       *)
ContractIsOfAWholeSession ==
  contract # <<>> /\ contract.blockers = {} => file \in sessions

(* Screens shown one after the other with no action between that differ.     *)
ScreensInARow(trace, m) ==
  \E s \in Screens(trace), t \in Screens(trace) :
    /\ s < t /\ \A k \in (s + 1)..(t - 1) : trace[k].type = "note"
    /\ ScreenHash(trace[s], m, s) # ScreenHash(trace[t], m, t)

(* An action before the first screen, or not followed by its screen.         *)
Unframed(trace) == Recorded(trace) # Actions(trace)

OneName(fields) == \A j, k \in DOMAIN fields : fields[j].name = fields[k].name => j = k

(* An action that puts two values into one field: the case has the later,    *)
(* the driver takes the earlier.                                             *)
TypedTwice(trace, request) ==
  \E i \in Actions(trace), k \in DOMAIN request :
    \E j, n \in DOMAIN trace[i].inputs :
      /\ request[k].ref = PreviousScreen(trace, i)
      /\ {j, n} \subseteq {h \in DOMAIN trace[i].inputs : Names(trace[i].inputs[h], request[k].id, request[k].at)}
      /\ trace[i].inputs[j].value # trace[i].inputs[n].value

(* An output that is neither a field of its screen nor sized in the map: the *)
(* extraction makes up a blank one, the driver gives it a length and reads   *)
(* the text there.                                                           *)
Unsized(trace, m, f) ==
  \A g \in FieldsFor(trace[f.ref], m, f.ref) : ~Names(g, f.id, f.at)

(* The replay test made from a trace passes on it, but for what a reviewer   *)
(* can see in it: an action without its screens, two different screens in a  *)
(* row, a name that stands for two fields, two values put into one, an       *)
(* output mapped without a length; a trace recorded screen by action with    *)
(* names of its own always replays (replay_gen.py, replay_driver.py,         *)
(* flow_extract.py).                                                         *)
OwnReplayFailsOnlyFor ==
  stage = "replayed" /\ contract.blockers = {} /\ result # {} =>
    \/ Unframed(file)
    \/ ScreensInARow(file, contract.map)
    \/ ~OneName(contract.request) \/ ~OneName(contract.response)
    \/ TypedTwice(file, contract.request)
    \/ \E k \in DOMAIN contract.response : Unsized(file, contract.map, contract.response[k])

(* A screen with two fields of one id, of its own or of the map: a contract  *)
(* that has the one is compared with the other.                              *)
TwoPlaces(trace, m) ==
  \E s \in Screens(trace) : \E f, g \in FieldsFor(trace[s], m, s) :
    f.id = g.id /\ f.id # NotGiven /\ <<f.at, f.size>> # <<g.at, g.size>>

SameShape(s, t) == [i \in DOMAIN s |-> s[i].type] = [i \in DOMAIN t |-> t[i].type]

(* A trace a contract is compared with, and compatible, replays the recorded *)
(* case up to the values put in and shown, when its screens, actions and     *)
(* notes are at the places they were recorded at; the trace of the contract  *)
(* itself is compatible, if no screen of it has an id twice. Of another      *)
(* shape a compatible trace may not replay: the comparison does not see the  *)
(* order of screens and actions (drift_compare.py:                           *)
(* compare_contract_to_trace, replay_driver.py).                             *)
CompatibleReplays ==
  stage = "compared" /\ result.own = {} =>
    /\ newer = file /\ ~TwoPlaces(file, contract.map) => result.changes = {}
    /\ DriftStatus(result.changes) = "compatible" /\ SameShape(newer, file) => result.faults \subseteq {"input", "response"}

(* Two fields of one name that a trace has the screens of both of.           *)
Clash(fields, trace) ==
  \E j, k \in DOMAIN fields :
    /\ j # k /\ fields[j].name = fields[k].name
    /\ {fields[j].ref, fields[k].ref} \subseteq Screens(trace)

(* A screen of the trace on which the contract has one id at two places: the *)
(* field of another case is read where this case has its own.                *)
Shadowed(fields, trace) ==
  \E j, k \in DOMAIN fields :
    /\ fields[j].ref = fields[k].ref /\ fields[j].ref \in Screens(trace)
    /\ fields[j].id = fields[k].id /\ fields[j].id # NotGiven /\ fields[j].at # fields[k].at

(* A case that replays by itself replays in its package too, with the merged *)
(* contract, unless the cases have entries of their own in the field map, or *)
(* a name of the merged contract stands for two fields (inputs on whatever   *)
(* screens, outputs on screens of that case), or an id for two places of a   *)
(* screen of that case (package_extract.py: _merge_contracts, replay_gen.py: *)
(* generate_package_pytest).                                                 *)
PackageKeepsReplay ==
  stage = "package_replayed" =>
    LET merged == MergedContract(contract, second)
        Mixed(trace) == Clash(merged.response, trace) \/ Shadowed(merged.request \o merged.response, trace)
    IN  merged.blockers = {} /\ contract.map = second.map /\ OneName(merged.request) =>
          /\ result.own = {} /\ ~Mixed(file) => result.first = {}
          /\ result.alone = {} /\ ~Mixed(newer) => result.second = {}
=============================================================================
