-------------------------- MODULE WatchList_proofs --------------------------
(***************************************************************************)
(* The watch list for every set of items, destinations and wakes: no item  *)
(* is in two checks at once, and no check is forgotten before its thread   *)
(* exists.                                                                 *)
(***************************************************************************)
EXTENDS WatchList, TLAPS

\* What makes OneCheckPerItem inductive: the check an item waits for is the one
\* it is in, and an item that was never added is in none.
Claimed ==
  \A w \in Wakes : Live(w) => \A i \in wakes[w].items : Listed(i) => items[i].check = w
NewIsUnclaimed ==
  \A w \in Wakes : \A i \in wakes[w].items : items[i].state # "absent"

\* What the pass took from the table is still there when it acts on it: nobody
\* else removes a wake, a thread that was accepted does not vanish, and the items
\* of a wake that is given up are not listed again.
DeliveriesArePending == op.pending \subseteq Pending
WakeIsTaken == op.at \in {"looking", "spawning", "accepted"} => op.wake \in op.pending
AcceptedExists == op.at = "accepted" => thread[op.wake] # "none"
GivenUpIsRemoved ==
  op.at = "looking" /\ op.why = "empty" => \A i \in wakes[op.wake].items : items[i].state = "removed"

TablesInv == OneCheckPerItem /\ Claimed /\ NewIsUnclaimed
OpInv == DeliveriesArePending /\ WakeIsTaken /\ AcceptedExists /\ GivenUpIsRemoved
WatchInv == TypeOK /\ TablesInv /\ OpInv

-----------------------------------------------------------------------------

LEMMA WakesAreNumbers == Wakes \subseteq Nat \ {0} /\ NoWake \notin Wakes
BY WatchAssumption DEF NoWake

\* What the operation is at each of its stages.
LEMMA Stages ==
  ASSUME TypeOK
  PROVE  /\ op.at \in {"idle", "listing", "asking", "delivering", "looking", "spawning", "accepted"}
         /\ op.pending \subseteq Wakes
         /\ op.at \in {"listing", "asking"} =>
              /\ op.manual \in BOOLEAN /\ op.due \in [Items -> ItemRecord]
              /\ op.busy \subseteq Destinations \cup {0}
         /\ op.at \in {"looking", "spawning", "accepted"} =>
              /\ op.wake \in Wakes /\ op.why \in {"none", "early", "empty"}
              /\ op = AtWake(op.at, op.pending, op.wake, op.why)
BY DEF TypeOK, Operation, AtWake

LEMMA OperationTypes ==
  /\ Idle \in Operation
  /\ \A pending \in SUBSET Wakes : Delivering(pending) \in Operation
  /\ \A pending \in SUBSET Wakes, wake \in Wakes, why \in {"none", "early", "empty"} :
       \A at \in {"looking", "spawning", "accepted"} : AtWake(at, pending, wake, why) \in Operation
  /\ \A pending \in SUBSET Wakes, busy \in SUBSET (Destinations \cup {0}) :
       \A due \in [Items -> ItemRecord], manual \in BOOLEAN, at \in {"listing", "asking"} :
         Batch(at, manual, due, busy, pending) \in Operation
BY DEF Operation, Idle, Delivering, AtWake, Batch

LEMMA ItemTypes == Absent \in ItemRecord /\ Removed \in ItemRecord /\ Unused \in WakeRecord
BY DEF Absent, Removed, Unused, Item, ItemRecord, WakeRecord, NoWake

LEMMA InitInv == Init => WatchInv
<1> SUFFICES ASSUME Init PROVE WatchInv
  OBVIOUS
<1>1. TypeOK
  BY ItemTypes, OperationTypes DEF Init, TypeOK
<1>2. TablesInv
  BY DEF Init, TablesInv, OneCheckPerItem, Claimed, NewIsUnclaimed, Unused
<1>3. OpInv
  BY DEF Init, OpInv, DeliveriesArePending, WakeIsTaken, AcceptedExists, GivenUpIsRemoved, Idle
<1> QED BY <1>1, <1>2, <1>3 DEF WatchInv

\* A step that keeps the wakes, and of an item its check unless that is over or
\* the item is removed, keeps what the invariant says of the tables.
LEMMA ItemsChange ==
  ASSUME WatchInv, TypeOK', UNCHANGED <<wakes, thread>>,
         \A i \in Items : \/ items'[i].state = "removed"
                          \/ items[i].state = "absent"
                          \/ /\ items'[i].state = items[i].state
                             /\ items'[i].check = items[i].check \/ ~Live(items[i].check)
  PROVE  TablesInv'
<1> USE DEF WatchInv, TablesInv
<1>1. OneCheckPerItem'
  BY DEF OneCheckPerItem, Live, Pending
<1>2. NewIsUnclaimed'
  BY DEF NewIsUnclaimed, TypeOK, WakeRecord
<1>3. Claimed'
  BY DEF Claimed, NewIsUnclaimed, Live, Pending, Listed, TypeOK, WakeRecord
<1> QED BY <1>1, <1>2, <1>3

\* So does a step that keeps the items, starts no check and gives none more items.
LEMMA WakesChange ==
  ASSUME WatchInv, items' = items,
         \A w \in Wakes : (Live(w)' => Live(w)) /\ wakes'[w].items \subseteq wakes[w].items
  PROVE  TablesInv'
BY DEF WatchInv, TablesInv, OneCheckPerItem, Claimed, NewIsUnclaimed, Listed

\* Without a step of the operation, its part of the invariant needs this much.
LEMMA OperationKept ==
  ASSUME WatchInv, TypeOK', op' = op, Pending \subseteq Pending',
         op.at = "accepted" => thread'[op.wake] # "none",
         op.at = "looking" => wakes'[op.wake].items \subseteq wakes[op.wake].items,
         \A i \in Items : items[i].state = "removed" => items'[i].state = "removed"
  PROVE  OpInv'
<1>1. DeliveriesArePending' /\ WakeIsTaken' /\ AcceptedExists'
  BY DEF WatchInv, OpInv, DeliveriesArePending, WakeIsTaken, AcceptedExists
<1>2. GivenUpIsRemoved'
  BY Stages DEF WatchInv, OpInv, GivenUpIsRemoved, TypeOK, WakeRecord
<1> QED BY <1>1, <1>2 DEF OpInv

-----------------------------------------------------------------------------
(* Agents, and items that fall due.                                        *)

LEMMA AgentsInv ==
  ASSUME WatchInv, NEW i \in Items, Add(i) \/ Update(i) \/ Remove(i) \/ FallsDue(i)
  PROVE  WatchInv'
<1>1. UNCHANGED <<wakes, retry, floor, thread, op>>
  BY DEF Add, Update, Remove, FallsDue
<1>2. /\ items' \in [Items -> ItemRecord]
      /\ \A j \in Items : j # i => items'[j] = items[j]
      /\ \/ items[i].state = "absent"
         \/ items[i].state = "listed" /\ items'[i].state = "removed"
         \/ /\ items[i].state = "listed" /\ items'[i].state = "listed"
            /\ items'[i].check = items[i].check
  <2>1. CASE Add(i)
    <3>1. PICK d \in Destinations, soon \in BOOLEAN :
            items' = [items EXCEPT ![i] = Item("listed", 0, d, soon, NoWake)]
      BY <2>1 DEF Add
    <3>2. Item("listed", 0, d, soon, NoWake) \in ItemRecord /\ items[i].state = "absent"
      BY <2>1 DEF Item, Absent, NoWake, ItemRecord, Add
    <3> QED BY <3>1, <3>2 DEF WatchInv, TypeOK
  <2>2. CASE Update(i)
    <3>1. PICK d \in Destinations, soon \in BOOLEAN :
            items' = [items EXCEPT ![i] = Item("listed", 1, d, soon, items[i].check)]
      BY <2>2 DEF Update
    <3>2. items[i] \in ItemRecord /\ items[i].state = "listed"
      BY <2>2 DEF Update, Listed, WatchInv, TypeOK
    <3>3. /\ Item("listed", 1, d, soon, items[i].check) \in ItemRecord
          /\ Item("listed", 1, d, soon, items[i].check).state = "listed"
          /\ Item("listed", 1, d, soon, items[i].check).check = items[i].check
      BY <3>2 DEF ItemRecord, Item
    <3> QED BY <3>1, <3>2, <3>3 DEF WatchInv, TypeOK
  <2>3. CASE Remove(i)
    BY <2>3, ItemTypes DEF Remove, Removed, Item, Listed, WatchInv, TypeOK
  <2>4. CASE FallsDue(i)
    <3> DEFINE new == Item("listed", items[i].version, items[i].to, TRUE, items[i].check)
    <3>1. items' = [items EXCEPT ![i] = new] /\ items[i] \in ItemRecord /\ items[i].state = "listed"
      BY <2>4 DEF FallsDue, Listed, WatchInv, TypeOK
    <3>2. new \in ItemRecord /\ new.state = "listed" /\ new.check = items[i].check
      BY <3>1 DEF Item, ItemRecord
    <3> HIDE DEF new
    <3> QED BY <3>1, <3>2 DEF WatchInv, TypeOK
  <2> QED BY <2>1, <2>2, <2>3, <2>4
<1>3. TypeOK'
  BY <1>1, <1>2 DEF WatchInv, TypeOK
<1>4. TablesInv'
  BY <1>1, <1>2, <1>3, ItemsChange
<1>5. OpInv'
  BY <1>1, <1>2, <1>3, OperationKept DEF Pending, WatchInv, OpInv, AcceptedExists
<1> QED BY <1>3, <1>4, <1>5 DEF WatchInv

-----------------------------------------------------------------------------
(* The beginning of an operation.                                          *)

\* Recording outcomes takes the check of an item only if that is over.
LEMMA ReconciledItems ==
  ASSUME WatchInv
  PROVE  /\ Reconciled \in [Items -> ItemRecord]
         /\ \A i \in Items : /\ Reconciled[i].state = items[i].state
                             /\ Reconciled[i].check = items[i].check \/ ~Live(items[i].check)
<1> SUFFICES ASSUME NEW i \in Items
             PROVE  /\ Reconciled[i] \in ItemRecord /\ Reconciled[i].state = items[i].state
                    /\ Reconciled[i].check = items[i].check \/ ~Live(items[i].check)
  BY DEF Reconciled
<1>1. items[i] \in ItemRecord
  BY DEF WatchInv, TypeOK
<1>2. CASE Ended(items[i].check)
  <2>1. Reconciled[i] = [items[i] EXCEPT !.check = NoWake] /\ ~Live(items[i].check)
    BY <1>2 DEF Reconciled, Ended, Live, Open
  <2> QED BY <1>1, <2>1 DEF ItemRecord
<1>3. CASE ~Ended(items[i].check)
  BY <1>1, <1>3 DEF Reconciled
<1> QED BY <1>2, <1>3

LEMMA DueTypes ==
  ASSUME NEW items_ \in [Items -> ItemRecord]
  PROVE  Due(items_) \in [Items -> ItemRecord]
BY ItemTypes DEF Due

LEMMA BeginInv ==
  ASSUME WatchInv, Tick \/ CheckNow
  PROVE  WatchInv'
<1>1. items' = Reconciled /\ UNCHANGED <<wakes, floor, thread>>
  BY DEF Tick, CheckNow
<1>2. op' = Delivering(Pending) \/ \E manual \in BOOLEAN : op' = Scheduling(Reconciled, manual)
  BY DEF Tick, CheckNow
<1>3. op' \in Operation /\ op'.pending = Pending /\ op'.at \in {"delivering", "listing"}
  <2>1. PendingDestinations \subseteq Destinations \cup {0} /\ Pending \subseteq Wakes
    BY DEF PendingDestinations, Pending, WatchInv, TypeOK, WakeRecord
  <2>2. CASE op' = Delivering(Pending)
    BY <2>1, <2>2, OperationTypes DEF Delivering
  <2>3. ASSUME NEW manual \in BOOLEAN, op' = Scheduling(Reconciled, manual)
        PROVE  op' \in Operation /\ op'.pending = Pending /\ op'.at = "listing"
    <3>1. Due(Reconciled) \in [Items -> ItemRecord]
      BY ReconciledItems, DueTypes
    <3> QED BY <2>1, <2>3, <3>1, OperationTypes DEF Scheduling, Batch
  <2> QED BY <1>2, <2>2, <2>3
<1>4. retry' \in [Rows -> {"none", "later", "never"}]
  BY DEF Tick, CheckNow, WatchInv, TypeOK
<1>5. TypeOK'
  BY <1>1, <1>3, <1>4, ReconciledItems DEF WatchInv, TypeOK
<1>6. TablesInv'
  BY <1>1, <1>5, ReconciledItems, ItemsChange
<1>7. OpInv'
  BY <1>1, <1>3 DEF OpInv, DeliveriesArePending, WakeIsTaken, AcceptedExists, GivenUpIsRemoved, Pending
<1> QED BY <1>5, <1>6, <1>7 DEF WatchInv

-----------------------------------------------------------------------------
(* The scheduling pass.                                                    *)

\* Steps that only move the operation on, its list of wakes kept or shortened.
LEMMA OperationMoves ==
  ASSUME WatchInv, UNCHANGED <<items, wakes, thread>>, TypeOK',
         op'.pending \subseteq op.pending, WakeIsTaken', op'.at # "accepted",
         op'.at = "looking" /\ op'.why = "empty" => Empty
  PROVE  WatchInv'
<1>1. TablesInv'
  BY WakesChange DEF Live, Pending
<1>2. DeliveriesArePending' /\ AcceptedExists'
  BY DEF WatchInv, OpInv, DeliveriesArePending, AcceptedExists, Pending
<1>3. GivenUpIsRemoved'
  <2> SUFFICES ASSUME op'.at = "looking", op'.why = "empty", NEW i \in wakes[op'.wake].items
               PROVE  items[i].state = "removed"
    BY DEF GivenUpIsRemoved
  <2>1. op'.wake \in Wakes
    BY DEF TypeOK, Operation
  <2>2. i \in Items /\ items[i].state # "absent" /\ ~Listed(i)
    BY <2>1 DEF WatchInv, TypeOK, TablesInv, NewIsUnclaimed, WakeRecord, Empty
  <2> QED BY <2>2 DEF Listed, WatchInv, TypeOK, ItemRecord
<1> QED BY <1>1, <1>2, <1>3 DEF WatchInv, OpInv

LEMMA ListingInv ==
  ASSUME WatchInv, List \/ ListingFails
  PROVE  WatchInv'
<1>1. UNCHANGED <<items, wakes, retry, floor, thread>>
  BY DEF List, ListingFails, table
<1>2. /\ op' \in Operation /\ op'.pending \subseteq op.pending
      /\ op'.at \notin {"looking", "spawning", "accepted"}
  <2>1. CASE ListingFails
    BY <2>1, OperationTypes DEF ListingFails, Idle
  <2>2. CASE List
    <3>1. PICK listed \in SUBSET {w \in Wakes : Open(w)} :
            op' = Batch("asking", op.manual, op.due, op.busy \cup {wakes[w].to : w \in listed}, op.pending)
      BY <2>2 DEF List
    <3>2. {wakes[w].to : w \in listed} \subseteq Destinations \cup {0}
      BY <3>1 DEF WatchInv, TypeOK, WakeRecord
    <3>3. op.at = "listing"
      BY <2>2 DEF List
    <3>4. op' \in Operation
      BY <3>1, <3>2, <3>3, Stages, OperationTypes DEF WatchInv
    <3> QED BY <3>1, <3>4 DEF Batch
  <2> QED BY <2>1, <2>2
<1>3. TypeOK'
  BY <1>1, <1>2 DEF WatchInv, TypeOK
<1>4. WakeIsTaken'
  BY <1>2 DEF WakeIsTaken
<1> QED BY <1>1, <1>2, <1>3, <1>4, OperationMoves

\* An item put in a check has waited for none, so it is in none that is live.
LEMMA ScheduledTables ==
  ASSUME WatchInv, NEW placed, NEW wake \in [placed -> Free], Scheduled(wake), TypeOK'
  PROVE  TablesInv' /\ Pending \subseteq Pending' /\ Range(wake) \subseteq Pending'
<1> DEFINE taken == Range(wake)
           placedItems == {i \in Eligible : items[i].to \in placed}
<1>1. /\ taken \subseteq Free /\ taken \subseteq Wakes /\ taken \cap Pending = {}
      /\ \A w \in taken : w # NoWake /\ ~Live(w)
  BY WakesAreNumbers DEF Range, Free, Live
<1>2. /\ \A w \in taken : /\ wakes'[w].state = "pending"
                          /\ wakes'[w].items = {i \in placedItems : wake[items[i].to] = w}
      /\ \A w \in Wakes \ taken : wakes'[w] = wakes[w] /\ thread'[w] = thread[w]
  BY <1>1 DEF Scheduled
<1>3. \A i \in placedItems : /\ i \in Items /\ items[i].state = "listed" /\ items[i].check = NoWake
                             /\ items'[i].state = "listed" /\ items'[i].check = wake[items[i].to]
  BY DEF Scheduled, Eligible, Wanted, Item
<1>4. \A i \in Items \ placedItems : items'[i] = items[i]
  BY DEF Scheduled
<1>5. Pending \subseteq Pending' /\ taken \subseteq Pending'
  BY <1>1, <1>2 DEF Pending
<1>6. \A w \in Wakes \ taken : Live(w)' = Live(w)
  BY <1>2 DEF Live, Pending
<1>7. \A w \in Wakes \ taken : Live(w) => wakes[w].items \cap placedItems = {}
  BY <1>3, WakesAreNumbers DEF WatchInv, TablesInv, Claimed, Listed
<1> HIDE DEF placedItems, taken
<1>8. OneCheckPerItem'
  <2> SUFFICES ASSUME NEW v \in Wakes, NEW w \in Wakes, v # w, Live(v)', Live(w)'
               PROVE  wakes'[v].items \cap wakes'[w].items = {}
    BY DEF OneCheckPerItem
  <2>1. CASE v \in taken /\ w \in taken
    BY <1>2, <2>1
  <2>2. CASE v \in taken /\ w \notin taken
    BY <1>2, <1>6, <1>7, <2>2
  <2>3. CASE v \notin taken /\ w \in taken
    BY <1>2, <1>6, <1>7, <2>3
  <2>4. CASE v \notin taken /\ w \notin taken
    BY <1>2, <1>6, <2>4 DEF WatchInv, TablesInv, OneCheckPerItem
  <2> QED BY <2>1, <2>2, <2>3, <2>4
<1>9. Claimed'
  <2> SUFFICES ASSUME NEW w \in Wakes, Live(w)', NEW i \in wakes'[w].items, items'[i].state = "listed"
               PROVE  items'[i].check = w
    BY DEF Claimed, Listed
  <2>1. CASE w \in taken
    BY <1>2, <1>3, <2>1
  <2>2. CASE w \notin taken
    <3>1. i \in wakes[w].items /\ Live(w) /\ i \in Items \ placedItems
      BY <1>2, <1>6, <1>7, <2>2 DEF WatchInv, TypeOK, WakeRecord
    <3> QED BY <1>4, <3>1 DEF WatchInv, TablesInv, Claimed, Listed
  <2> QED BY <2>1, <2>2
<1>10. NewIsUnclaimed'
  <2> SUFFICES ASSUME NEW w \in Wakes, NEW i \in wakes'[w].items PROVE items'[i].state # "absent"
    BY DEF NewIsUnclaimed
  <2>1. CASE i \in placedItems
    BY <1>3, <2>1
  <2>2. CASE i \notin placedItems
    <3>1. w \notin taken /\ i \in wakes[w].items /\ i \in Items
      BY <1>2, <2>2 DEF WatchInv, TypeOK, WakeRecord
    <3> QED BY <1>4, <2>2, <3>1 DEF WatchInv, TablesInv, NewIsUnclaimed
  <2> QED BY <2>1, <2>2
<1> QED BY <1>5, <1>8, <1>9, <1>10 DEF TablesInv, taken

LEMMA PlacementInv ==
  ASSUME WatchInv, Commit \/ PlacementFails
  PROVE  WatchInv'
<1>1. PICK placed \in SUBSET Groups : Schedule(placed) /\ op.at = "asking"
  BY DEF Commit, PlacementFails, Place
<1>2. PICK wake \in [placed -> Free] : Scheduled(wake)
  BY <1>1 DEF Schedule
<1> DEFINE taken == Range(wake)
           pending == (IF op.manual THEN Pending ELSE op.pending) \cup taken
<1>3. taken \subseteq Wakes /\ Pending \subseteq Wakes /\ op.pending \subseteq Pending
  BY DEF Range, Free, Pending, WatchInv, OpInv, DeliveriesArePending
<1>4. placed \subseteq Destinations \cup {0}
  BY DEF Groups, Eligible, WatchInv, TypeOK, ItemRecord
<1>5. op' = Delivering(pending) /\ pending \in SUBSET Wakes
  BY <1>2, <1>3 DEF Scheduled
<1>6. TypeOK'
  <2>1. wakes' \in [Wakes -> WakeRecord]
    <3> SUFFICES ASSUME NEW w \in Wakes PROVE wakes'[w] \in WakeRecord
      BY <1>2 DEF Scheduled
    <3>1. CASE w \in taken
      <4>1. (CHOOSE d \in DOMAIN wake : wake[d] = w) \in Destinations \cup {0}
        BY <1>4, <3>1 DEF Range
      <4>2. wakes'[w].items \subseteq Items
        BY <1>2, <3>1 DEF Scheduled, Eligible
      <4> QED BY <1>2, <3>1, <4>1, <4>2 DEF Scheduled, WakeRecord
    <3>2. CASE w \notin taken
      BY <1>2, <3>2 DEF Scheduled, WatchInv, TypeOK
    <3> QED BY <3>1, <3>2
  <2>2. items' \in [Items -> ItemRecord]
    <3> SUFFICES ASSUME NEW i \in Items PROVE items'[i] \in ItemRecord
      BY <1>2 DEF Scheduled
    <3>1. items[i] \in ItemRecord
      BY DEF WatchInv, TypeOK
    <3>2. CASE i \in Eligible /\ items[i].to \in DOMAIN wake
      <4>1. wake[items[i].to] \in Wakes
        BY <3>2 DEF Free
      <4>2. items'[i] = Item("listed", items[i].version, items[i].to, FALSE, wake[items[i].to])
        BY <1>2, <3>2 DEF Scheduled
      <4> QED BY <3>1, <4>1, <4>2 DEF Item, ItemRecord
    <3>3. CASE ~(i \in Eligible /\ items[i].to \in DOMAIN wake)
      BY <1>2, <3>1, <3>3 DEF Scheduled
    <3> QED BY <3>2, <3>3
  <2>3. thread' \in [Wakes -> {"none", "open", "ended"}]
    BY <1>2 DEF Scheduled, WatchInv, TypeOK
  <2>4. floor' \in BOOLEAN
    BY <1>2 DEF Scheduled
  <2>5. retry' \in [Rows -> {"none", "later", "never"}]
    BY DEF Commit, PlacementFails, WatchInv, TypeOK
  <2> QED BY <1>5, <2>1, <2>2, <2>3, <2>4, <2>5, OperationTypes DEF TypeOK
<1>7. TablesInv' /\ Pending \subseteq Pending' /\ taken \subseteq Pending'
  BY <1>2, <1>6, ScheduledTables
<1>8. OpInv'
  BY <1>3, <1>5, <1>7 DEF OpInv, DeliveriesArePending, WakeIsTaken, AcceptedExists, GivenUpIsRemoved,
     Delivering
<1> QED BY <1>6, <1>7, <1>8 DEF WatchInv

-----------------------------------------------------------------------------
(* The deliveries.                                                         *)

\* Calls that are made, whose answers say nothing, and the end of the pass.
LEMMA DeliverInv ==
  ASSUME WatchInv, Deliver \/ Found \/ NotYet \/ LookFails \/ Restart \/ SpawnFails \/ Finish
  PROVE  WatchInv'
<1>1. UNCHANGED <<items, wakes, floor, thread>>
  BY DEF Deliver, Found, NotYet, LookFails, Restart, SpawnFails, Finish, table
<1>2. op.at \in {"looking", "spawning", "accepted"} => op.wake \in Wakes /\ op.wake \in op.pending
  BY Stages DEF WatchInv, OpInv, WakeIsTaken
<1>3. retry' \in [Rows -> {"none", "later", "never"}]
  <2>1. CASE Deliver \/ Found \/ NotYet \/ LookFails \/ Restart
    BY <2>1 DEF Deliver, Found, NotYet, LookFails, Restart, table, WatchInv, TypeOK
  <2>2. CASE SpawnFails
    BY <2>2 DEF SpawnFails, WatchInv, TypeOK
  <2>3. CASE Finish
    BY <2>3 DEF Finish, WatchInv, TypeOK
  <2> QED BY <2>1, <2>2, <2>3
<1>4. /\ op' \in Operation /\ op'.pending \subseteq op.pending /\ op'.at # "accepted"
      /\ op'.at \in {"looking", "spawning"} => op'.wake \in op'.pending
      /\ op'.at = "looking" /\ op'.why = "empty" => Empty
  <2>1. CASE Deliver
    <3>1. PICK w \in op.pending, at \in {"looking", "spawning"}, why \in {"empty", "early", "none"} :
            op' = AtWake(at, op.pending, w, why) /\ (why = "empty" => Empty)
      BY <2>1 DEF Deliver
    <3> QED BY <3>1, OperationTypes, Stages DEF AtWake, WatchInv
  <2>2. CASE Found
    <3>1. op' = AtWake("spawning", op.pending, op.wake, op.why)
      BY <2>2 DEF Found
    <3>2. op.pending \in SUBSET Wakes /\ op.wake \in Wakes /\ op.why \in {"none", "early", "empty"}
      BY <2>2, Stages DEF Found, WatchInv
    <3>3. op' \in Operation
      BY <3>1, <3>2, OperationTypes
    <3> QED BY <1>2, <2>2, <3>1, <3>3 DEF Found, AtWake
  <2>3. CASE NotYet \/ LookFails \/ Restart \/ SpawnFails \/ Finish
    <3>1. op' = Idle \/ op' = Proceed
      BY <2>3 DEF NotYet, LookFails, Restart, SpawnFails, Finish
    <3> QED BY <3>1, OperationTypes, Stages DEF Idle, Proceed, Delivering, WatchInv
  <2> QED BY <2>1, <2>2, <2>3
<1>5. TypeOK'
  BY <1>1, <1>3, <1>4 DEF WatchInv, TypeOK
<1>6. WakeIsTaken'
  BY <1>4 DEF WakeIsTaken
<1> QED BY <1>1, <1>4, <1>5, <1>6, OperationMoves

\* A wake is forgotten, and the operation goes on to the next one.
LEMMA GoneInv ==
  ASSUME WatchInv, Gone(op.wake), op.at \in {"looking", "accepted"}, op' = Proceed,
         UNCHANGED <<items, floor, thread>>
  PROVE  WatchInv'
<1> DEFINE w == op.wake
<1>1. w \in Wakes /\ w \in op.pending /\ op.pending \subseteq Pending
  BY Stages DEF WatchInv, OpInv, WakeIsTaken, DeliveriesArePending
<1>2. PICK new \in WakeRecord : /\ wakes' = [wakes EXCEPT ![w] = new]
                                /\ new.items \subseteq wakes[w].items /\ new.state # "pending"
  <2>1. wakes[w] \in WakeRecord
    BY <1>1 DEF WatchInv, TypeOK
  <2>2. CASE Open(w)
    <3>1. [wakes[w] EXCEPT !.state = "gone"] \in WakeRecord
      BY <2>1 DEF WakeRecord
    <3> QED BY <2>1, <2>2, <3>1 DEF Gone, WakeRecord
  <2>3. CASE ~Open(w)
    BY <2>3, ItemTypes DEF Gone, Unused
  <2> QED BY <2>2, <2>3
<1>3. op' = Delivering(op.pending \ {w}) /\ op.pending \ {w} \in SUBSET Wakes
  BY <1>1 DEF Proceed, Pending
<1>4. TypeOK'
  BY <1>2, <1>3, OperationTypes DEF Gone, WatchInv, TypeOK
<1>5. /\ wakes'[w].items \subseteq wakes[w].items /\ wakes'[w].state # "pending"
      /\ \A v \in Wakes : v # w => wakes'[v] = wakes[v]
  BY <1>1, <1>2 DEF WatchInv, TypeOK
<1>6. TablesInv'
  BY <1>5, WakesChange DEF Live, Pending
<1>7. op.pending \ {w} \subseteq Pending'
  BY <1>1, <1>5 DEF Pending
<1>8. OpInv'
  BY <1>3, <1>7 DEF OpInv, DeliveriesArePending, WakeIsTaken, AcceptedExists, GivenUpIsRemoved, Delivering
<1> QED BY <1>4, <1>6, <1>8 DEF WatchInv

LEMMA AcceptInv ==
  ASSUME WatchInv, Accept
  PROVE  WatchInv'
<1>1. op.wake \in Wakes /\ op.wake \in op.pending /\ op.pending \subseteq Pending
  BY Stages DEF WatchInv, OpInv, WakeIsTaken, DeliveriesArePending, Accept
<1>2. UNCHANGED <<items, wakes, retry, floor>>
  BY DEF Accept, table
<1>3. op' = AtWake("accepted", op.pending, op.wake, op.why) /\ op' \in Operation
  BY Stages, OperationTypes DEF Accept, WatchInv
<1>4. /\ thread' \in [Wakes -> {"none", "open", "ended"}] /\ thread'[op.wake] # "none"
      /\ \A v \in Wakes : v # op.wake => thread'[v] = thread[v]
  BY <1>1 DEF Accept, WatchInv, TypeOK
<1>5. TypeOK'
  BY <1>2, <1>3, <1>4 DEF WatchInv, TypeOK
<1>6. TablesInv'
  <2>1. \A v \in Wakes : Live(v)' => Live(v)
    BY <1>1, <1>2, <1>4 DEF Live, Pending
  <2> QED BY <1>2, <2>1, WakesChange
<1>7. OpInv'
  BY <1>1, <1>2, <1>3, <1>4 DEF OpInv, DeliveriesArePending, WakeIsTaken, AcceptedExists, GivenUpIsRemoved,
     AtWake, Pending
<1> QED BY <1>5, <1>6, <1>7 DEF WatchInv

-----------------------------------------------------------------------------
(* Time, and the check threads.                                            *)

LEMMA TimeInv ==
  ASSUME WatchInv, FloorPasses \/ \E row \in Rows : DelayPasses(row)
  PROVE  WatchInv'
<1>1. UNCHANGED <<items, wakes, thread, op>>
  BY DEF FloorPasses, DelayPasses
<1>2. TypeOK'
  BY <1>1 DEF FloorPasses, DelayPasses, WatchInv, TypeOK
<1>3. TablesInv'
  BY <1>1, WakesChange DEF Live, Pending
<1>4. OpInv'
  BY <1>1, <1>2, OperationKept DEF Pending, WatchInv, OpInv, AcceptedExists
<1> QED BY <1>2, <1>3, <1>4 DEF WatchInv

LEMMA CheckEndsInv ==
  ASSUME WatchInv, NEW w \in Wakes, CheckEnds(w)
  PROVE  WatchInv'
<1>1. UNCHANGED <<items, retry, floor, op>> /\ Pending' = Pending
  BY ItemTypes DEF CheckEnds, Pending, Unused, WatchInv, TypeOK
<1>2. TypeOK'
  BY <1>1, ItemTypes DEF CheckEnds, WatchInv, TypeOK
<1>3. /\ \A v \in Wakes : thread'[v] = thread[v] \/ thread'[v] = "ended"
      /\ \A v \in Wakes : wakes'[v] = wakes[v] \/ wakes'[v].items = {}
      /\ \A v \in Pending : wakes'[v] = wakes[v]
  BY DEF CheckEnds, Unused, WatchInv, TypeOK, Pending
<1>4. TablesInv'
  BY <1>1, <1>3, WakesChange DEF Live
<1>5. op.at \in {"looking", "accepted"} => op.wake \in Wakes
  BY Stages DEF WatchInv
<1>6. OpInv'
  BY <1>1, <1>2, <1>3, <1>5, OperationKept DEF WatchInv, OpInv, AcceptedExists
<1> QED BY <1>2, <1>4, <1>6 DEF WatchInv

LEMMA NextInv == WatchInv /\ [Next]_vars => WatchInv'
<1> SUFFICES ASSUME WatchInv, [Next]_vars PROVE WatchInv'
  OBVIOUS
<1>1. CASE Agents \/ Time
  BY <1>1, AgentsInv, TimeInv DEF Agents, Time
<1>2. CASE CheckNow \/ Tick
  BY <1>2, BeginInv
<1>3. CASE List \/ ListingFails
  BY <1>3, ListingInv
<1>4. CASE Commit \/ PlacementFails
  BY <1>4, PlacementInv
<1>5. CASE Deliver \/ Found \/ NotYet \/ LookFails \/ Restart \/ SpawnFails \/ Finish
  BY <1>5, DeliverInv
<1>6. CASE Drop \/ Accepted
  BY <1>6, GoneInv DEF Drop, Accepted
<1>7. CASE Accept
  BY <1>7, AcceptInv
<1>8. CASE Checks
  BY <1>8, CheckEndsInv DEF Checks
<1>9. CASE UNCHANGED vars
  BY <1>9 DEF vars, WatchInv, TypeOK, TablesInv, OneCheckPerItem, Claimed, NewIsUnclaimed, Live, Pending,
     Listed, OpInv, DeliveriesArePending, WakeIsTaken, AcceptedExists, GivenUpIsRemoved
<1> QED BY <1>1, <1>2, <1>3, <1>4, <1>5, <1>6, <1>7, <1>8, <1>9 DEF Next, Step, Call, Failure

LEMMA Invariance == Spec => []WatchInv
BY InitInv, NextInv, PTL DEF Spec

-----------------------------------------------------------------------------

\* The rows of the tables and the operation keep their shapes (watch-list.ts).
THEOREM TypeCorrect == Spec => []TypeOK
<1>1. WatchInv => TypeOK
  BY DEF WatchInv
<1> QED BY <1>1, Invariance, PTL

\* No two checks of the list are for one item, whatever agents change while a
\* pass waits, whichever listing misses a thread and wherever a restart falls.
THEOREM OneCheck == Spec => []OneCheckPerItem
<1>1. WatchInv => OneCheckPerItem
  BY DEF WatchInv, TablesInv
<1> QED BY <1>1, Invariance, PTL

\* A wake is forgotten only when its thread exists or its items are all gone.
THEOREM NoWakeLost == Spec => NoneLost
<1> DEFINE Kept == \A w \in Wakes : w \in Pending /\ wakes'[w].state # "pending" =>
                     thread[w] # "none" \/ \A i \in wakes[w].items : ~Listed(i)
<1>1. WatchInv /\ [Next]_vars => [Kept]_vars
  <2> SUFFICES ASSUME WatchInv, Next, NEW w \in Wakes, w \in Pending, wakes'[w].state # "pending"
               PROVE  thread[w] # "none" \/ \A i \in wakes[w].items : ~Listed(i)
    OBVIOUS
  <2>1. wakes[w].state = "pending"
    BY DEF Pending
  <2>2. CASE Commit \/ PlacementFails
    <3>1. PICK placed \in SUBSET Groups : Schedule(placed)
      BY <2>2 DEF Commit, PlacementFails, Place
    <3> QED BY <2>1, <3>1 DEF Schedule, Scheduled
  <2>3. CASE Drop
    <3>1. w = op.wake
      BY <2>1, <2>3 DEF Drop, Gone, WatchInv, TypeOK
    <3> QED BY <2>3, <3>1 DEF Drop, WatchInv, OpInv, GivenUpIsRemoved, Listed
  <2>4. CASE Accepted
    <3>1. w = op.wake
      BY <2>1, <2>4 DEF Accepted, Gone, WatchInv, TypeOK
    <3> QED BY <2>4, <3>1 DEF Accepted, WatchInv, OpInv, AcceptedExists
  <2>5. CASE Checks
    BY <2>1, <2>5 DEF Checks, CheckEnds, WatchInv, TypeOK
  <2>6. CASE UNCHANGED wakes
    BY <2>1, <2>6
  <2> QED BY <2>2, <2>3, <2>4, <2>5, <2>6 DEF Next, Agents, Add, Update, Remove, CheckNow, Step, Tick, Deliver,
       Finish, Call, List, Found, NotYet, Accept, Failure, ListingFails, LookFails, SpawnFails, Restart, Time,
       FloorPasses, DelayPasses, FallsDue, table
<1> QED BY <1>1, Invariance, PTL DEF Spec, NoneLost
=============================================================================
