----------------------------- MODULE HostContract -----------------------------
(* host-screen-contracts: what a recorded trace of terminal screens and      *)
(* actions is made into, a contract and a replay case; how the contract is   *)
(* replayed on a trace, compared with one, and merged with others.           *)
(* A trace is a sequence of events: a screen has a text, fields at positions *)
(* and the values shown at positions (a field's value is what its position   *)
(* shows); the writer numbers events from 1, so an event's index is its seq, *)
(* and that of a screen its reference.                                       *)
(* A field map is [entries, volatile]: entries name fields by id or position,*)
(* on one screen or, with ref 0, on all.                                     *)
EXTENDS Integers, SequencesExt, FiniteSetsExt

CONSTANT SensitiveNames    \* names that the pattern of redact.py finds sensitive

REDACTED == "<REDACTED>"

NotGiven == ""    \* a text that is absent

(* Some numbers from the least to the greatest, and what a sequence has at   *)
(* some of its places, in its order.                                         *)
InOrder(numbers) ==
  [k \in 1..Cardinality(numbers) |-> CHOOSE n \in numbers : Cardinality({m \in numbers : m <= n}) = k]

Those(s, places) == [k \in DOMAIN InOrder(places) |-> s[InOrder(places)[k]]]

-----------------------------------------------------------------------------
(* Events of a trace                                                         *)
Screens(trace) == {i \in DOMAIN trace : trace[i].type = "screen"}

Actions(trace) == {i \in DOMAIN trace : trace[i].type = "action"}

ActionSeq(trace) == InOrder(Actions(trace))

PreviousScreen(trace, i) == Max({s \in Screens(trace) : s < i})

(* The driver's next screen may lie behind further actions, that of the      *)
(* extraction may not.                                                       *)
ScreenAfter(trace, i) == Min({s \in Screens(trace) : s > i})

HasScreenAfter(trace, i) == \E s \in Screens(trace) : s > i

Followed(trace, i) ==
  \E s \in Screens(trace) : s > i /\ \A k \in (i + 1)..(s - 1) : trace[k].type = "note"

Recorded(trace) == {i \in Actions(trace) : Followed(trace, i) /\ \E s \in Screens(trace) : s < i}

RecordedActions(trace) == InOrder(Recorded(trace))

-----------------------------------------------------------------------------
(* The field map                                                             *)
EntriesFor(map, ref) == {k \in DOMAIN map.entries : map.entries[k].ref \in {ref, 0}}

ForCase(map, case) ==
  [map EXCEPT !.entries = Those(@, {k \in DOMAIN @ : @[k].cases = {} \/ case \in @[k].cases})]

Names(x, id, at) == (id # NotGiven /\ x.id = id) \/ (at # 0 /\ x.at = at)

EntriesNamed(map, ref, id, at) == {k \in EntriesFor(map, ref) : Names(map.entries[k], id, at)}

FirstNamed(map, ref, id, at) == map.entries[Min(EntriesNamed(map, ref, id, at))]

MayBeAbsent(e) ==
  e.optional \/ e.role = "error_message" \/ (e.role \in {"output", "input_output", "hidden"} /\ e.notRequired)

MapErrors(trace, map) ==
  \E k \in DOMAIN map.entries :
    LET e == map.entries[k]
    IN  /\ e.ref # 0
        /\ \/ e.ref \notin Screens(trace)
           \/ /\ trace[e.ref].fields # <<>> /\ ~MayBeAbsent(e)
              /\ IF e.id # NotGiven THEN \A f \in ToSet(trace[e.ref].fields) : f.id # e.id
                 ELSE e.at # 0 /\ \A f \in ToSet(trace[e.ref].fields) : f.at # e.at

Sized(e) == e.at # 0 /\ e.size # 0

SizedEntries(map, ref) == {e \in {map.entries[k] : k \in EntriesFor(map, ref)} : Sized(e)}

(* Places of the map that are not among the fields of the screen.            *)
MapOnly(screen, map, ref) ==
  {e \in SizedEntries(map, ref) : \A f \in ToSet(screen.fields) : f.id # e.id \/ f.at # e.at}

IsInput(e) == e.role \in {"input", "input_output"}

-----------------------------------------------------------------------------
(* Hashes: what is hashed stands for the hash                                *)
Blanked(screen, map, ref) ==
  {f.at : f \in ToSet(screen.fields)}
    \cup {e.at : e \in SizedEntries(map, ref)}
    \cup {v.at : v \in {x \in map.volatile : x.ref \in {ref, 0}}}

NormalizedText(screen, map, ref) ==
  [text |-> screen.text,
   shown |-> {<<at, screen.values[at]>> : at \in {a \in DOMAIN screen.values \ Blanked(screen, map, ref) :
                                                    screen.values[a] # NotGiven}}]

FieldLayout(screen, map, ref) ==
  {<<f.id, f.at, f.size, f.input>> : f \in ToSet(screen.fields)}
    \cup {<<e.id, e.at, e.size, IsInput(e)>> : e \in MapOnly(screen, map, ref)}

ScreenHash(screen, map, ref) ==
  [text |-> NormalizedText(screen, map, ref), layout |-> FieldLayout(screen, map, ref)]

-----------------------------------------------------------------------------
(* Fields                                                                    *)
ShownAt(screen, at) == IF at \in DOMAIN screen.values THEN screen.values[at] ELSE NotGiven

FieldsFor(screen, map, ref) ==
  {[id |-> f.id, at |-> f.at, size |-> f.size, label |-> f.label, input |-> f.input,
    value |-> ShownAt(screen, f.at)] : f \in ToSet(screen.fields)}
    \cup {[id |-> e.id, at |-> e.at, size |-> e.size, label |-> e.name, input |-> IsInput(e),
           value |-> ShownAt(screen, e.at)] : e \in MapOnly(screen, map, ref)}

(* Of fields at one position, which the code has by their ids, any is first. *)
ByPosition(fields) ==
  LET places == InOrder({f.at : f \in fields})
  IN  FlattenSeq([k \in DOMAIN places |-> SetToSeq({f \in fields : f.at = places[k]})])

(* The fields, at most one, that a reference finds: the first by position,   *)
(* or one made up at the position it names.                                  *)
FindField(screen, map, ref, id, at, fallback) ==
  LET found == {f \in FieldsFor(screen, map, ref) : Names(f, id, at)}
  IN  IF found # {} THEN <<CHOOSE f \in found : \A g \in found : f.at <= g.at>>
      ELSE IF at # 0 THEN <<[id |-> id, at |-> at, size |-> 1, label |-> "made_up", input |-> TRUE, value |-> fallback]>>
      ELSE <<>>

ContractField(f, map, ref) ==
  LET named == FirstNamed(map, ref, f.id, f.at).name
  IN  [ref |-> ref, id |-> f.id, at |-> f.at, size |-> f.size,
       name |-> IF EntriesNamed(map, ref, f.id, f.at) # {} /\ named # NotGiven THEN named ELSE f.label]

(* The contract has a field once, of whatever size.                          *)
SameField(f, g) == <<f.ref, f.id, f.at, f.name>> = <<g.ref, g.id, g.at, g.name>>

Deduped(fields) == Those(fields, {k \in DOMAIN fields : \A j \in 1..(k - 1) : ~SameField(fields[j], fields[k])})

RequestFields(trace, map) ==
  LET Of(i) ==
        LET ref == PreviousScreen(trace, i)
            FieldOf(input) == FindField(trace[ref], map, ref, input.id, input.at, input.value)
        IN  FlattenSeq([j \in DOMAIN trace[i].inputs |->
                          [n \in DOMAIN FieldOf(trace[i].inputs[j]) |->
                             ContractField(FieldOf(trace[i].inputs[j])[n], map, ref)]])
      recorded == RecordedActions(trace)
  IN  Deduped(FlattenSeq([k \in DOMAIN recorded |-> Of(recorded[k])]))

(* The outputs of the map, or else what the last screen shows in protected   *)
(* fields.                                                                   *)
ResponseFields(trace, map) ==
  LET last == Max(Screens(trace))
      outputs == Those(map.entries, {k \in DOMAIN map.entries :
                                       map.entries[k].role \in {"output", "input_output", "error_message"}})
      Ref(e) == IF e.ref = 0 THEN last ELSE e.ref
      FieldOf(e) == IF Ref(e) \in Screens(trace) THEN FindField(trace[Ref(e)], map, Ref(e), e.id, e.at, NotGiven)
                    ELSE <<>>
      mapped == FlattenSeq([k \in DOMAIN outputs |->
                  [n \in DOMAIN FieldOf(outputs[k]) |-> ContractField(FieldOf(outputs[k])[n], map, Ref(outputs[k]))]])
      shown == ByPosition({f \in FieldsFor(trace[last], map, last) : ~f.input /\ f.value # NotGiven})
  IN  IF Screens(trace) = {} THEN <<>>
      ELSE IF mapped # <<>> THEN Deduped(mapped)
      ELSE Deduped([k \in DOMAIN shown |-> ContractField(shown[k], map, last)])
=============================================================================
