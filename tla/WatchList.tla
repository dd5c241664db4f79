----------------------------- MODULE WatchList -----------------------------
(***************************************************************************)
(* The personal watch list (threads/watch-list.ts): items that agents add, *)
(* change and remove at any time, the scheduling pass that records one     *)
(* wake for each destination with due items, and the delivery of the wakes *)
(* as check threads of the thread service. The passes run one at a time,   *)
(* and their awaits let everything else happen: each step below runs from  *)
(* one await to the next. The owner may be restarted at any of them.       *)
(*                                                                         *)
(* Time is abstract: an item falls due, the floor between batches and the  *)
(* delay before another delivery pass. Of the thread service there is what *)
(* the list sees of its checks: whether one exists, is open, is busy.      *)
(***************************************************************************)
EXTENDS Integers, FiniteSets, Functions

CONSTANTS
  Items,         \* identities items are given, each once
  Destinations,
  Wakes,         \* identities of checks; one that nothing knows of any more is used again
  Changeable     \* bound: items that agents change, once

ASSUME WatchAssumption ==
  /\ IsFiniteSet(Items) /\ IsFiniteSet(Destinations) /\ Destinations \subseteq Nat
  /\ IsFiniteSet(Wakes) /\ Wakes \subseteq Nat \ {0} /\ Changeable \subseteq Items

NoWake == 0

VARIABLES
  items,     \* watch_item: state, version, destination, due and the last check
  wakes,     \* watch_wake: state, destination and watchItems
  retry,     \* watch_delivery, for wakes and for destinations
  floor,     \* watch_schedule: whether the next batch has to wait
  thread,    \* what became of the check threads
  op         \* the operation under way

table == <<items, wakes, retry, floor>>
vars == <<items, wakes, retry, floor, thread, op>>

\* "check" is the check an item waits for. One that ended is as good as none.
Item(state, version, to, due, check) ==
  [state |-> state, version |-> version, to |-> to, due |-> due, check |-> check]
Absent == Item("absent", 0, 0, FALSE, NoWake)
Removed == Item("removed", 0, 0, FALSE, NoWake)
Unused == [state |-> "none", to |-> 0, items |-> {}]

Rows == {[kind |-> "wake", id |-> w] : w \in Wakes} \cup {[kind |-> "destination", id |-> d] : d \in Destinations}
WakeRow(w) == [kind |-> "wake", id |-> w]
Row(d) == [kind |-> "destination", id |-> d]

\* The operation schedules a batch, delivers a list of wakes, or is at one of them.
Idle == [at |-> "idle", pending |-> {}]
Batch(at, manual, due, busy, pending) ==
  [at |-> at, manual |-> manual, due |-> due, busy |-> busy, pending |-> pending]
Delivering(pending) == [at |-> "delivering", pending |-> pending]
AtWake(at, pending, wake, why) == [at |-> at, pending |-> pending, wake |-> wake, why |-> why]

Init ==
  /\ items = [i \in Items |-> Absent]
  /\ wakes = [w \in Wakes |-> Unused]
  /\ retry = [row \in Rows |-> "none"]
  /\ floor = FALSE
  /\ thread = [w \in Wakes |-> "none"]
  /\ op = Idle

Listed(i) == items[i].state = "listed"
Empty == \A i \in Items : ~Listed(i)
Pending == {w \in Wakes : wakes[w].state = "pending"}

Wanted(item) == item.state = "listed" /\ item.check = NoWake /\ item.due

-----------------------------------------------------------------------------
(* Requests of agents, each a transaction.                                 *)

Add(i) ==
  /\ items[i] = Absent
  /\ \E d \in Destinations, soon \in BOOLEAN :
       items' = [items EXCEPT ![i] = Item("listed", 0, d, soon, NoWake)]
  /\ UNCHANGED <<wakes, retry, floor, thread, op>>

\* A change keeps the last check, and gives the item another updatedAt.
Update(i) ==
  /\ Listed(i) /\ i \in Changeable /\ items[i].version = 0
  /\ \E d \in Destinations, soon \in BOOLEAN :
       items' = [items EXCEPT ![i] = Item("listed", 1, d, soon, @.check)]
  /\ UNCHANGED <<wakes, retry, floor, thread, op>>

Remove(i) ==
  /\ Listed(i)
  /\ items' = [items EXCEPT ![i] = Removed]
  /\ UNCHANGED <<wakes, retry, floor, thread, op>>

-----------------------------------------------------------------------------
(* The beginning of an operation: outcomes of checks, and what is due.     *)

\* watchCheckOutcome: a turn, queued input, a wait or a wake.
Open(w) == thread[w] = "open"

\* Mutant: an undelivered wake counts as a check that is missing.
EndedUndelivered(w) == w # NoWake /\ ~Open(w)

\* An undelivered wake and an open check stay scheduled.
Ended(w) == w # NoWake /\ w \notin Pending /\ ~Open(w)

\* Mutant: outcomes are recorded on items that are due.
ReconciledDue ==
  [i \in Items |-> IF items[i].due /\ Ended(items[i].check) THEN [items[i] EXCEPT !.check = NoWake] ELSE items[i]]

Reconciled ==
  [i \in Items |-> IF Ended(items[i].check) THEN [items[i] EXCEPT !.check = NoWake] ELSE items[i]]

\* The items of a table that are due, as they are there.
Due(table_) == [i \in Items |-> IF Wanted(table_[i]) THEN table_[i] ELSE Absent]
NoneDue == [i \in Items |-> Absent]

\* Destinations with a wake that was not delivered.
PendingDestinations == {wakes[w].to : w \in Pending}

Scheduling(table_, manual) == Batch("listing", manual, Due(table_), PendingDestinations, Pending)

\* The poll: a tick that finds one under way is that one.
Tick ==
  /\ op.at = "idle"
  /\ items' = Reconciled
  /\ op' = IF floor \/ Due(Reconciled) = NoneDue THEN Delivering(Pending)
           ELSE Scheduling(Reconciled, FALSE)
  /\ UNCHANGED <<wakes, retry, floor, thread>>

\* checkNow forgets every delay and the floor.
CheckNow ==
  /\ op.at = "idle"
  /\ retry' = [row \in Rows |-> "none"]
  /\ items' = Reconciled
  /\ op' = Scheduling(Reconciled, TRUE)
  /\ UNCHANGED <<wakes, floor, thread>>

-----------------------------------------------------------------------------
(* schedule, after its awaits.                                             *)

ListingFails == op.at \in {"listing", "asking"} /\ op' = Idle /\ UNCHANGED <<thread, table>>

\* Running threads and waiting ones are two listings: a check that goes from
\* one state to the other between them is in neither.
List ==
  /\ op.at = "listing"
  /\ \E listed \in SUBSET {w \in Wakes : Open(w)} :
       op' = Batch("asking", op.manual, op.due, op.busy \cup {wakes[w].to : w \in listed}, op.pending)
  /\ UNCHANGED <<thread, table>>

\* What is still as it was before the awaits, and still wanted.
Eligible ==
  {i \in Items : Wanted(items[i]) /\ items[i] = op.due[i] /\ items[i].to \notin op.busy}

Groups == {items[i].to : i \in Eligible}

\* Wakes that were delivered, whose checks are over and which no item waits for.
Free ==
  {w \in Wakes : w \notin Pending /\ thread[w] # "open" /\ \A i \in Items : items[i].check # w}

\* One wake for each destination, in their order.
NextFree(wake) ==
  /\ \A d, e \in DOMAIN wake : d < e => wake[d] < wake[e]
  /\ \A d \in DOMAIN wake, w \in Free : w < wake[d] => \E e \in DOMAIN wake : wake[e] = w

Scheduled(wake) ==
  LET taken == Range(wake)
      placedItems == {i \in Eligible : items[i].to \in DOMAIN wake}
  IN
  /\ wakes' = [w \in Wakes |->
       IF w \in taken
       THEN [state |-> "pending", to |-> CHOOSE d \in DOMAIN wake : wake[d] = w,
             items |-> {i \in placedItems : wake[items[i].to] = w}]
       ELSE wakes[w]]
  /\ thread' = [w \in Wakes |-> IF w \in taken THEN "none" ELSE thread[w]]
  /\ items' = [i \in Items |->
       IF i \in placedItems
       THEN Item("listed", items[i].version, items[i].to, FALSE, wake[items[i].to])
       ELSE items[i]]
  /\ floor' = (floor \/ taken # {})
  /\ op' = Delivering((IF op.manual THEN Pending ELSE op.pending) \cup taken)

Schedule(placed) == \E wake \in [placed -> Free] : NextFree(wake) /\ Scheduled(wake)

\* Destinations whose placement failed before wait; others may fail now.
Place(failed) ==
  /\ op.at = "asking"
  /\ LET tried == {d \in Groups : retry[Row(d)] = "none"} IN
       failed \subseteq tried /\ Schedule(tried \ failed)

Commit == Place({}) /\ UNCHANGED retry

PlacementFails ==
  \E failed \in SUBSET Destinations, how \in {"later", "never"} :
    /\ failed # {} /\ Place(failed)
    /\ retry' = [row \in Rows |-> IF \E d \in failed : row = Row(d) THEN how ELSE retry[row]]

-----------------------------------------------------------------------------
(* check, its deliveries: the wakes one after the other.                   *)

\* Before a delay is over, or when no item is left, it asks whether the thread exists.
Deliver ==
  /\ op.at = "delivering"
  /\ \E w \in op.pending :
       LET why == IF Empty THEN "empty" ELSE IF retry[WakeRow(w)] # "none" THEN "early" ELSE "none" IN
       /\ \A v \in op.pending : w <= v
       /\ op' = AtWake(IF why = "none" THEN "spawning" ELSE "looking", op.pending, w, why)
  /\ UNCHANGED <<thread, table>>

Proceed == Delivering(op.pending \ {op.wake})

\* Of a check that is over nothing is looked at any more.
Gone(w) ==
  /\ wakes' = [wakes EXCEPT ![w] = IF Open(w) THEN [@ EXCEPT !.state = "gone"] ELSE Unused]
  /\ retry' = [retry EXCEPT ![WakeRow(w)] = "none"]

Found ==
  /\ op.at = "looking" /\ thread[op.wake] # "none"
  /\ op' = AtWake("spawning", op.pending, op.wake, op.why)
  /\ UNCHANGED <<thread, table>>

NotYet ==
  /\ op.at = "looking" /\ op.why = "early" /\ thread[op.wake] = "none"
  /\ op' = Proceed
  /\ UNCHANGED <<thread, table>>

\* Mutant: a wake whose check does not exist yet is given up.
DropEarly ==
  /\ op.at = "looking" /\ thread[op.wake] = "none"
  /\ Gone(op.wake) /\ op' = Proceed
  /\ UNCHANGED <<items, floor, thread>>

\* No item was left to check, and the check does not exist.
Drop ==
  /\ op.at = "looking" /\ op.why = "empty" /\ thread[op.wake] = "none"
  /\ Gone(op.wake)
  /\ op' = Proceed
  /\ UNCHANGED <<items, floor, thread>>

\* An early look that fails is as good as one that finds nothing.
LookFails ==
  /\ op.at = "looking" /\ (op.why = "empty" \/ thread[op.wake] # "none")
  /\ op' = IF op.why = "early" THEN Proceed ELSE Idle
  /\ UNCHANGED <<thread, table>>

\* The service accepts a spawn of the same identity once.
Accept ==
  /\ op.at = "spawning"
  /\ thread' = [thread EXCEPT ![op.wake] = IF @ = "none" THEN "open" ELSE @]
  /\ op' = AtWake("accepted", op.pending, op.wake, op.why)
  /\ UNCHANGED table

\* Mutant: the wake stays after its delivery.
AcceptedKeepsWake == op.at = "accepted" /\ op' = Proceed /\ UNCHANGED <<thread, table>>

Accepted ==
  /\ op.at = "accepted"
  /\ Gone(op.wake)
  /\ op' = Proceed
  /\ UNCHANGED <<items, floor, thread>>

\* Refused, or the answer was lost. Only what cannot succeed is never retried.
SpawnFails ==
  /\ op.at \in {"spawning", "accepted"}
  /\ \E how \in (IF op.at = "spawning" THEN {"later", "never"} ELSE {"later"}) :
       retry' = [retry EXCEPT ![WakeRow(op.wake)] = how]
  /\ op' = Proceed
  /\ UNCHANGED <<items, wakes, floor, thread>>

\* Placement errors of destinations with nothing due are forgotten.
Finish ==
  /\ op.at = "delivering" /\ op.pending = {}
  /\ LET due == {items[i].to : i \in {j \in Items : Listed(j) /\ items[j].due}} IN
       retry' = [row \in Rows |-> IF row.kind = "destination" /\ row.id \notin due THEN "none" ELSE retry[row]]
  /\ op' = Idle
  /\ UNCHANGED <<items, wakes, floor, thread>>

\* The end of the pass is no await, and a restart before a delivery is one during it.
Restart ==
  /\ op.at \notin {"idle", "delivering"} /\ op' = Idle
  /\ UNCHANGED <<thread, table>>

-----------------------------------------------------------------------------
(* Time, and the check threads.                                            *)

FallsDue(i) ==
  /\ Listed(i) /\ ~items[i].due
  /\ items' = [items EXCEPT ![i] = Item("listed", @.version, @.to, TRUE, @.check)]
  /\ UNCHANGED <<wakes, retry, floor, thread, op>>

FloorPasses ==
  /\ floor /\ floor' = FALSE
  /\ UNCHANGED <<items, wakes, retry, thread, op>>

DelayPasses(row) ==
  /\ retry[row] = "later" /\ retry' = [retry EXCEPT ![row] = "none"]
  /\ UNCHANGED <<items, wakes, floor, thread, op>>

\* A check ends, or is stopped or archived.
CheckEnds(w) ==
  /\ Open(w)
  /\ thread' = [thread EXCEPT ![w] = "ended"]
  /\ wakes' = [wakes EXCEPT ![w] = IF w \in Pending THEN @ ELSE Unused]
  /\ UNCHANGED <<items, retry, floor, op>>

-----------------------------------------------------------------------------

Agents == \E i \in Items : Add(i) \/ Update(i) \/ Remove(i)
Call == List \/ Found \/ NotYet \/ Drop \/ Accept \/ Accepted
Step == Tick \/ Commit \/ Deliver \/ Finish \/ Call
Failure == ListingFails \/ PlacementFails \/ LookFails \/ SpawnFails
Time == FloorPasses \/ (\E row \in Rows : DelayPasses(row)) \/ (\E i \in Items : FallsDue(i))
Checks == \E w \in Wakes : CheckEnds(w)

Next == Agents \/ CheckNow \/ Step \/ Failure \/ Restart \/ Time \/ Checks

Spec == Init /\ [][Next]_vars

\* The interval timer keeps polling and calls are answered, delays and the
\* floor pass, and checks end. Failures and restarts end some time.
Fairness ==
  /\ <>[][~(Failure \/ Restart)]_vars
  /\ WF_vars(Step)
  /\ WF_vars(FloorPasses) /\ WF_vars(\E row \in Rows : DelayPasses(row))
  /\ \A w \in Wakes : WF_vars(CheckEnds(w))

FairSpec == Spec /\ Fairness

-----------------------------------------------------------------------------
(* Properties.                                                             *)

ItemRecord == [state : {"absent", "listed", "removed"}, version : {0, 1}, to : Destinations \cup {0},
               due : BOOLEAN, check : Wakes \cup {NoWake}]
WakeRecord == [state : {"none", "pending", "gone"}, to : Destinations \cup {0}, items : SUBSET Items]
Operation ==
  [at : {"idle", "delivering"}, pending : SUBSET Wakes]
  \cup [at : {"listing", "asking"}, manual : BOOLEAN, due : [Items -> ItemRecord],
        busy : SUBSET (Destinations \cup {0}), pending : SUBSET Wakes]
  \cup [at : {"looking", "spawning", "accepted"}, pending : SUBSET Wakes, wake : Wakes,
        why : {"none", "early", "empty"}]

TypeOK ==
  /\ items \in [Items -> ItemRecord]
  /\ wakes \in [Wakes -> WakeRecord]
  /\ retry \in [Rows -> {"none", "later", "never"}]
  /\ floor \in BOOLEAN
  /\ thread \in [Wakes -> {"none", "open", "ended"}]
  /\ op \in Operation

\* A check that was not delivered, or has not ended once.
Live(w) == w \in Pending \/ thread[w] = "open"

\* Two checks never work on one item: whatever agents change during the awaits
\* of a pass, whichever listing misses a thread and whatever a restart cuts short.
OneCheckPerItem ==
  \A v, w \in Wakes : v # w /\ Live(v) /\ Live(w) => wakes[v].items \cap wakes[w].items = {}

\* A check is delivered before its wake is forgotten, unless every item it was for is gone.
NoneLost ==
  [][\A w \in Wakes : w \in Pending /\ wakes'[w].state # "pending" =>
       thread[w] # "none" \/ \A i \in wakes[w].items : ~Listed(i)]_vars

\* An error is left that only a person can repair.
Blocked == \E row \in Rows : retry[row] = "never"

\* What is due is put in a check: no item is due and left out for good.
DueIsScheduled == \A i \in Items : []<>(~Wanted(items[i]) \/ Blocked)

\* The check of an item ends, and the list learns it: no item waits for good.
ScheduledEnds == \A i \in Items : []<>(items[i].check = NoWake \/ Blocked)
=============================================================================
