---------------------------- MODULE MCHostCapture -----------------------------
(* A menu with one input, an order screen with an input, an output and a     *)
(* clock outside the fields, and what the host may become: other labels, a   *)
(* field that moved, or that moved to the front under another label.  The    *)
(* last map has that field where the screens do not.                         *)
EXTENDS HostCapture

Field(id, at, input, label) == [id |-> id, at |-> at, size |-> 4, input |-> input, label |-> label]

Screen(text, fields, values) == [type |-> "screen", text |-> text, fields |-> fields, values |-> values]

Menu == Screen("menu", <<Field("f1", 1, TRUE, "number")>>, 1 :> "")

Order(status, clock) ==
  Screen("order", <<Field("f2", 2, TRUE, "number"), Field("f3", 3, FALSE, "status")>>,
         2 :> "" @@ 3 :> status @@ 4 :> clock)

Relabelled == [Order("open", "") EXCEPT !.text = "bestellung"]

MovedOrder == Screen("order", <<Field("f2", 2, TRUE, "number"), Field("f3", 5, FALSE, "status")>>, 5 :> "open")

FrontOrder == Screen("order", <<Field("f3", 1, FALSE, "state"), Field("f2", 2, TRUE, "number")>>, 1 :> "open")

MCScreenEvents == {Menu, Order("open", ""), Order("", "9:00")}

MCChangedScreens == {Relabelled, MovedOrder, FrontOrder}

Action(aid, inputs) == [type |-> "action", aid |-> aid, inputs |-> inputs]

Input(id, at, value) == [id |-> id, at |-> at, value |-> value]

MCActionEvents ==
  {Action("F3", <<>>), Action("ENTER", <<Input("f1", 1, "7")>>),
   Action("ENTER", <<Input("f2", 0, "8"), Input("", 4, "now")>>),
   Action("ENTER", <<Input("f1", 0, "7"), Input("", 1, "8")>>)}

MCOldTrace == <<Menu, Action("ENTER", <<Input("f1", 1, "1")>>), Order("open", "")>>

Entry(ref, id, at, size, name, role) ==
  [ref |-> ref, id |-> id, at |-> at, size |-> size, name |-> name, role |-> role, cases |-> {},
   sensitive |-> "unset", optional |-> FALSE, notRequired |-> FALSE]

NoMap == [entries |-> <<>>, volatile |-> {}]

MCMaps ==
  {NoMap,
   [entries |-> <<Entry(0, "f1", 0, 0, "option", "input"), Entry(0, "f2", 2, 4, "id", "input"),
                  Entry(3, "f3", 3, 4, "state", "output")>>,
    volatile |-> {[ref |-> 0, at |-> 4]}],
   [entries |-> <<Entry(0, "f1", 1, 4, "option", "input"), Entry(0, "f2", 0, 0, "option", "input"),
                  Entry(0, "f3", 3, 4, "state", "output"),
                  [Entry(0, "f4", 4, 4, "time", "output") EXCEPT !.cases = {"b"}, !.sensitive = "yes"]>>,
    volatile |-> {}],
   [entries |-> <<Entry(1, "f1", 1, 4, "option", "input"), Entry(0, "", 4, 0, "time", "output")>>,
    volatile |-> {}],
   [entries |-> <<Entry(0, "f3", 1, 4, "state", "output")>>, volatile |-> {}]}

MCOptionSets == {[strict |-> b, redact |-> b] : b \in BOOLEAN}
=============================================================================
