----------------------------- MODULE AuditStore -----------------------------
(* The extension's local audit (storage.ts): one list in chrome.storage that *)
(* every call of writeLocalAudit, from whatever tab, reads, extends, prunes  *)
(* and writes back, with the storage calls awaited in between and no lock.   *)
(* EgressGuard counts these calls; here each runs its course.               *)
(*                                                                           *)
(* External, from how src/ uses it: storage.get answers with the list as it  *)
(* stands, storage.set replaces it; either may never come back, as when the  *)
(* tab is closed.                                                            *)
EXTENDS Integers, FiniteSets, TLC

CONSTANTS Calls,      \* the calls of writeLocalAudit
          Retention,  \* retention_days, in units of the clock
          MaxEvents,  \* max_events
          MaxTime     \* bound: how far the clock goes

ASSUME LimitAssumption == Retention \in Nat \ {0} /\ MaxEvents \in Nat \ {0} /\ MaxTime \in Nat

ASSUME CallsAssumption == IsFiniteSet(Calls)

VARIABLES
  now,       \* the clock of the machine
  stored,    \* the stored events
  pc,        \* of each call: "idle", "got", "setting", "done" or "lost"
  list,      \* of each call: the events it has read, then those it writes
  event,     \* of each call: the event it has made
  made,      \* how many events were made
  turned,    \* (history) whether the clock was ever set back
  disturbed  \* (history) the events written while another call had read the list without them

storeVars == <<now, stored, pc, list, event, made, turned, disturbed>>

(* made is the order in which events were appended to lists: the sort is     *)
(* stable, so it decides between equal timestamps.                           *)
Event == [time : Int, made : Nat]

NoEvent == [time |-> 0, made |-> 0]

StoreInit ==
  /\ now = 0 /\ stored = {} /\ made = 0
  /\ pc = [c \in Calls |-> "idle"]
  /\ list = [c \in Calls |-> {}]
  /\ event = [c \in Calls |-> NoEvent]
  /\ turned = FALSE /\ disturbed = {}

-----------------------------------------------------------------------------
Before(x, y) == x.time < y.time \/ (x.time = y.time /\ x.made < y.made)

Later(x, events) == {y \in events : Before(x, y)}

(* Mutant: the oldest events are kept, not the newest.                       *)
PruneNewest(events, new, time) ==
  LET fresh == {x \in events \cup {new} : x.time >= time - Retention}
  IN  {x \in fresh : Cardinality({y \in fresh : Before(y, x)}) < MaxEvents}

(* Mutant: one event less is kept.                                           *)
PruneOneMore(events, new, time) ==
  LET fresh == {x \in events \cup {new} : x.time >= time - Retention}
  IN  {x \in fresh : Cardinality(Later(x, fresh)) < MaxEvents - 1} \cup {new}

(* pruneEvents: what is older than the retention goes, then all but the      *)
(* last max_events in the order of their timestamps.                         *)
PruneEvents(events, new, time) ==
  LET fresh == {x \in events \cup {new} : x.time >= time - Retention}
  IN  {x \in fresh : Cardinality(Later(x, fresh)) < MaxEvents}

-----------------------------------------------------------------------------
Get(c) ==
  /\ pc[c] = "idle"
  /\ pc' = [pc EXCEPT ![c] = "got"]
  /\ list' = [list EXCEPT ![c] = stored]
  /\ UNCHANGED <<now, stored, event, made, turned, disturbed>>

(* The answer of storage.get arrives: the event is made, the list pruned and *)
(* storage.set called in one task.                                           *)
Extend(c) ==
  LET new == [time |-> now, made |-> made + 1]
  IN  /\ pc[c] = "got"
      /\ pc' = [pc EXCEPT ![c] = "setting"]
      /\ made' = made + 1
      /\ event' = [event EXCEPT ![c] = new]
      /\ list' = [list EXCEPT ![c] = PruneEvents(list[c], new, now)]
      /\ UNCHANGED <<now, stored, turned, disturbed>>

InFlight(c) == pc[c] \in {"got", "setting"}

Set(c) ==
  /\ pc[c] = "setting"
  /\ pc' = [pc EXCEPT ![c] = "done"]
  /\ stored' = list[c]
  /\ disturbed' = IF \E d \in Calls \ {c} : InFlight(d) THEN disturbed \cup {event[c]} ELSE disturbed
  /\ UNCHANGED <<now, list, event, made, turned>>

(* A rejected get or set, or a closed tab: nothing catches it.               *)
Lose(c) ==
  /\ InFlight(c)
  /\ pc' = [pc EXCEPT ![c] = "lost"]
  /\ UNCHANGED <<now, stored, list, event, made, turned, disturbed>>

SetClock(time) ==
  /\ time # now
  /\ now' = time
  /\ turned' = (turned \/ time < now)
  /\ UNCHANGED <<stored, pc, list, event, made, disturbed>>

StoreNext ==
  \/ \E c \in Calls : Get(c) \/ Extend(c) \/ Set(c) \/ Lose(c)
  \/ \E time \in 0..MaxTime : SetClock(time)

StoreSpec == StoreInit /\ [][StoreNext]_storeVars

-----------------------------------------------------------------------------
Written == {event[c] : c \in {d \in Calls : pc[d] = "done"}}

(* Type invariant.  What a call has read was written, and what it is about   *)
(* to write is that and its own event (storage.ts: writeLocalAudit).         *)
StoreTypeOK ==
  /\ now \in Int /\ made \in Nat /\ turned \in BOOLEAN
  /\ pc \in [Calls -> {"idle", "got", "setting", "done", "lost"}]
  /\ event \in [Calls -> Event]
  /\ list \in [Calls -> SUBSET Event]
  /\ stored \subseteq Written /\ disturbed \subseteq Written
  /\ \A c \in Calls : pc[c] = "got" => list[c] \subseteq Written
  /\ \A c \in Calls : pc[c] = "setting" => list[c] \subseteq Written \cup {event[c]}

(* An event that was written is gone only if it has outlived the retention,  *)
(* max_events newer ones were written, or another call had read the list     *)
(* before it was written (storage.ts: writeLocalAudit): calls that do not    *)
(* overlap lose nothing, and a call that comes back late takes nothing away  *)
(* that was written before it read.  A clock that is set back voids this.    *)
LostOnlyToOverlap ==
  ~turned =>
    \A e \in Written \ stored :
      \/ e.time < now - Retention
      \/ Cardinality(Later(e, Written)) >= MaxEvents
      \/ e \in disturbed

(* A call that ends well has its own event in storage, overlap or not, as    *)
(* long as the clock was not set back.                                       *)
OwnEventIsStored ==
  [][\A c \in Calls : pc[c] # "done" /\ pc'[c] = "done" /\ ~turned => event'[c] \in stored']_storeVars

-----------------------------------------------------------------------------
(* For TLC: the calls are alike.                                             *)
Symmetry == Permutations(Calls)
=============================================================================
