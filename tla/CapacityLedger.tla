--------------------------- MODULE CapacityLedger ---------------------------
(***************************************************************************)
(* The owner's side of global capacity custody: the durable outbox         *)
(* thread_capacity, the operations the thread service calls on it, the     *)
(* HTTP client with its five-second timeout, and the authority they reach. *)
(*                                                                         *)
(* A caller is an asynchronous operation of the owner: the serial chain of *)
(* a thread (drain, commands and the reconcile flush) or the halt of a     *)
(* thread, which runs beside it. Between two awaits a caller runs alone,   *)
(* so each action is one such stretch. A request the client gave up on may *)
(* still reach the authority, at any later time.                           *)
(***************************************************************************)
EXTENDS CapacityAuthority, Naturals

CONSTANTS
  Me,            \* this owner
  Logicals,      \* logical executions: what the thread service names
  LogicalOf,     \* the logical execution of each capacity execution identity
  ThreadOf,      \* the thread of each logical execution
  Callers,       \* the asynchronous operations of this owner
  Serial,        \* the serial chain of each thread
  MaxLate        \* bound: abandoned requests still on their way

ASSUME LedgerAssumption ==
  /\ Me \in Owners
  /\ LogicalOf \in [Executions -> Logicals]
  /\ ThreadOf \in [Logicals -> Agents]
  /\ Serial \in [Agents -> Callers]
  /\ MaxLate \in Nat

\* No caller is NULL, and no lease reads like another answer.
ASSUME AnswerAssumption ==
  /\ None \notin Callers
  /\ {"refused", "inactive", "done"} \cap Leases = {}

VARIABLES
  row,     \* thread_capacity, keyed by execution; "none" is no row
  call,    \* what each caller awaits, and what it does after
  wire,    \* the requests the authority has not executed yet
  census   \* the custody this owner's census reported at the cutover barrier

ownerVars == <<row, call, wire>>
vars == <<authorityVars, ownerVars, census>>

NoRow == [state |-> "none", lease |-> None, entered |-> FALSE]

Row == [state : {"none", "requested", "held", "releasing", "released"},
        lease : Leases \cup {None}, entered : BOOLEAN]

\* A row of the snapshot a flush walks through.
Snapshot == [execution : Executions, lease : Leases \cup {None}]

Request == [kind : {"acquire", "release", "inspect", "withdraw"},
            execution : Executions, lease : Leases \cup {None},
            caller : Callers \cup {None}]

\* "answered" holds an answer that arrived; "restart" is acquire calling
\* itself after a flush; "granted" is custody in a caller's hands.
At(place, e) == [at |-> place, kind |-> None, execution |-> e, lease |-> None,
                 todo |-> {}, then |-> "return", answer |-> None]
Idle == At("idle", None)

Agent(e) == ThreadOf[LogicalOf[e]]

Init ==
  /\ AuthorityInit
  /\ row = [e \in Executions |-> NoRow]
  /\ call = [c \in Callers |-> Idle]
  /\ wire = {}
  /\ census = None

-----------------------------------------------------------------------------
(* The table.                                                              *)

HasState(e, states) == row[e].state \in states

Current(l) == {e \in Executions :
                 LogicalOf[e] = l /\ HasState(e, {"requested", "held", "releasing"})}

Unrecorded(l) == {e \in Executions : LogicalOf[e] = l /\ HasState(e, {"none"})}

HasRow(l) == \E e \in Executions : LogicalOf[e] = l /\ ~HasState(e, {"none"})

\* requestRelease: every row the caller has release proof for becomes
\* releasing, in one statement.
Releasing(es) ==
  [e \in Executions |->
     IF e \in es /\ HasState(e, {"requested", "held"})
     THEN [state |-> "releasing", lease |-> row[e].lease, entered |-> row[e].entered] ELSE row[e]]

\* The rows a flush reads before its first await.
LeasedReleasingRows(table, es) ==
  {[execution |-> e, lease |-> table[e].lease] :
     e \in {x \in es : table[x].state = "releasing" /\ table[x].lease # None}}

ReleasingRows(table, es) ==
  {[execution |-> e, lease |-> table[e].lease] :
     e \in {x \in es : table[x].state = "releasing"}}

-----------------------------------------------------------------------------
(* The client: one request at a time per caller.                           *)

Send(c, kind, e, lease, todo, then) ==
  /\ call' = [call EXCEPT ![c] =
       [at |-> "awaiting", kind |-> kind, execution |-> e, lease |-> lease,
        todo |-> todo, then |-> then, answer |-> None]]
  /\ wire' = wire \cup {[kind |-> kind, execution |-> e, lease |-> lease, caller |-> c]}

Become(c, state) ==
  /\ call' = [call EXCEPT ![c] = state]
  /\ UNCHANGED wire

\* flush: the next row of the snapshot, or what its caller does after it.
Flush(c, todo, then, e) ==
  \/ /\ todo = {}
     /\ IF then = "restart"
        THEN Become(c, At("restart", e))
        ELSE Become(c, Idle)
  \/ \E r \in todo :
       Send(c, IF r.lease = None THEN "inspect" ELSE "release",
            r.execution, r.lease, todo \ {r}, then)

-----------------------------------------------------------------------------
(* What the thread service calls.                                          *)

\* retain: recovered native work is recorded before it is asked for.
Retain(l) ==
  /\ ~HasRow(l)
  /\ \E e \in Unrecorded(l) :
       row' = [row EXCEPT ![e] = [state |-> "requested", lease |-> None, entered |-> TRUE]]
  /\ UNCHANGED <<call, wire, authorityVars, census>>

\* acquire, up to its first await: the current row or a new identity.
AcquireRow(c, l) ==
  \/ \E e \in Current(l) :
       /\ UNCHANGED row
       /\ IF HasState(e, {"releasing"})
          THEN Flush(c, ReleasingRows(row, {e}), "restart", e)
          ELSE Send(c, "acquire", e, None, {}, "return")
  \/ /\ Current(l) = {}
     /\ \E e \in Unrecorded(l) :
          /\ row' = [row EXCEPT ![e] =
               [state |-> "requested", lease |-> None, entered |-> FALSE]]
          /\ Send(c, "acquire", e, None, {}, "return")

\* The cutover barrier holds dispatch (docs/agent-capacity.md, cutover 1).
DispatchOpen == census = None \/ initialized

BeginAcquire(l) ==
  LET c == Serial[ThreadOf[l]] IN
  /\ call[c].at = "idle" /\ DispatchOpen
  /\ AcquireRow(c, l)
  /\ UNCHANGED <<authorityVars, census>>

Restart(c) ==
  /\ call[c].at = "restart"
  /\ AcquireRow(c, LogicalOf[call[c].execution])
  /\ UNCHANGED <<authorityVars, census>>

\* entered, or the recheck that finds the dispatch no longer wanted.
Enter(c) ==
  /\ call[c].at = "granted"
  /\ row' = [e \in Executions |->
       IF LogicalOf[e] = LogicalOf[call[c].execution] /\ HasState(e, {"held"})
       THEN [state |-> "held", lease |-> row[e].lease, entered |-> TRUE] ELSE row[e]]
  /\ Become(c, Idle)
  /\ UNCHANGED <<authorityVars, census>>

ReleaseUnentered(c) ==
  /\ call[c].at = "granted"
  /\ LET e == call[c].execution
         table == Releasing({x \in Executions :
                    LogicalOf[x] = LogicalOf[e] /\ ~row[x].entered})
     IN /\ row' = table
        /\ Flush(c, ReleasingRows(table, Executions), "return", e)
  /\ UNCHANGED <<authorityVars, census>>

\* release of one logical execution or of the whole thread: every releasing
\* row of every thread is flushed.
ReleaseAll(c, ls) ==
  LET table == Releasing({e \in Executions : LogicalOf[e] \in ls})
      todo == ReleasingRows(table, Executions)
  IN /\ call[c].at = "idle"
     /\ row' = table
     /\ Flush(c, todo, "return", None)
     /\ UNCHANGED <<authorityVars, census>>

BeginRelease(c) ==
  \/ \E l \in Logicals : ReleaseAll(c, {l})
  \/ \E a \in Agents : ReleaseAll(c, {l \in Logicals : ThreadOf[l] = a})

\* The timer: reconcile flushes in the serial chain of a releasing row.
Reconcile(a) ==
  /\ \E e \in Executions : Agent(e) = a /\ HasState(e, {"releasing"})
  /\ ReleaseAll(Serial[a], {})

-----------------------------------------------------------------------------
(* The network and the authority.                                          *)

Handle(m) ==
  LET e == m.execution IN
  CASE m.kind = "acquire"  -> Acquire(Me, Agent(e), e)
    [] m.kind = "inspect"  -> Inspect(Me, Agent(e), e)
    [] m.kind = "withdraw" -> Withdraw(Me, Agent(e), e)
    [] m.kind = "release"  -> Release(Me, Agent(e), e, m.lease)

\* What the answer says: the custody, an acknowledgement, or a refusal.
Answered(m) ==
  LET new == request'[m.execution] IN
  CASE m.kind \in {"acquire", "inspect"} /\ new.state = "active" -> new.lease
    [] m.kind = "acquire" -> "refused"
    [] m.kind = "inspect" -> "inactive"
    [] OTHER -> IF new.state = "released" THEN "done" ELSE "refused"

\* The authority executes a request; its answer reaches a caller that still
\* waits, unless the response is lost.
Execute(m) ==
  /\ m \in wire
  /\ wire' = wire \ {m}
  /\ Handle(m)
  /\ \/ /\ m.caller # None
        /\ call' = [call EXCEPT ![m.caller] = [@ EXCEPT !.at = "answered", !.answer = Answered(m)]]
     \/ UNCHANGED call
  /\ UNCHANGED <<row, census>>

\* AbortSignal.timeout, or the process that asked is gone: the requests under
\* way may be lost, and any that is not may still be executed at any time.
Abandon(cs) ==
  LET late == {[m EXCEPT !.caller = None] : m \in {m \in wire : m.caller \in cs \cup {None}}}
      kept == {m \in wire : m.caller \notin cs \cup {None}}
  IN \E arriving \in SUBSET late :
       /\ Cardinality(arriving) <= MaxLate
       /\ wire' = kept \cup arriving

TimeOut(c) ==
  /\ call[c].at = "awaiting"
  /\ Abandon({c})
  /\ call' = [call EXCEPT ![c] = Idle]
  /\ UNCHANGED <<authorityVars, row, census>>

-----------------------------------------------------------------------------
(* What a caller does with an answer.                                      *)

\* UPDATE ... CASE WHEN state='releasing' THEN 'releasing' ELSE 'held' END
\* ... WHERE state!='released'.
LeaseHeldAnyway(e, lease) ==
  IF HasState(e, {"released"}) THEN row
  ELSE [row EXCEPT ![e] = [state |-> "held", lease |-> lease, entered |-> @.entered]]

LeaseStored(e, lease) ==
  IF HasState(e, {"released"}) THEN row
  ELSE [row EXCEPT ![e] = [state |-> IF @.state = "releasing" THEN "releasing" ELSE "held",
                           lease |-> lease, entered |-> @.entered]]

AcquireAnswered(c) ==
  LET e == call[c].execution
      table == LeaseStored(e, call[c].answer)
  IN /\ call[c].at = "answered" /\ call[c].kind = "acquire"
     /\ \/ /\ call[c].answer = "refused"
           /\ UNCHANGED row /\ Become(c, Idle)
        \/ /\ call[c].answer # "refused"
           /\ row' = table
           /\ IF table[e].state = "held"
              THEN Become(c, At("granted", e))
              ELSE Flush(c, ReleasingRows(table, {e}), "return", e)
     /\ UNCHANGED <<authorityVars, census>>

\* Custody found: it is stored, then released. Otherwise it is withdrawn,
\* which fences an acquire still on its way.
InspectTrusted(c) ==
  LET e == call[c].execution IN
  /\ call[c].at = "answered" /\ call[c].kind = "inspect"
  /\ IF call[c].answer = "inactive"
     THEN /\ row' = [row EXCEPT ![e].state = IF @ = "releasing" THEN "released" ELSE @]
          /\ Flush(c, call[c].todo, call[c].then, e)
     ELSE /\ row' = [row EXCEPT ![e].lease = call[c].answer]
          /\ Send(c, "release", e, call[c].answer, call[c].todo, call[c].then)
  /\ UNCHANGED <<authorityVars, census>>

InspectAnswered(c) ==
  LET e == call[c].execution IN
  /\ call[c].at = "answered" /\ call[c].kind = "inspect"
  /\ IF call[c].answer = "inactive"
     THEN UNCHANGED row /\ Send(c, "withdraw", e, None, call[c].todo, call[c].then)
     ELSE /\ row' = [row EXCEPT ![e].lease = call[c].answer]
          /\ Send(c, "release", e, call[c].answer, call[c].todo, call[c].then)
  /\ UNCHANGED <<authorityVars, census>>

\* A refusal ends the flush; an acknowledgement settles the row.
ReleaseAnswered(c) ==
  LET e == call[c].execution IN
  /\ call[c].at = "answered" /\ call[c].kind \in {"release", "withdraw"}
  /\ \/ /\ call[c].answer = "refused"
        /\ UNCHANGED row /\ Become(c, Idle)
     \/ /\ call[c].answer = "done"
        /\ row' = [row EXCEPT ![e].state = IF @ = "releasing" THEN "released" ELSE @]
        /\ Flush(c, call[c].todo, call[c].then, e)
  /\ UNCHANGED <<authorityVars, census>>

-----------------------------------------------------------------------------
\* The owner's process stops; its rows and its requests under way do not.
Crash ==
  /\ \E c \in Callers : call[c] # Idle
  /\ call' = [c \in Callers |-> Idle]
  /\ Abandon(Callers)
  /\ UNCHANGED <<authorityVars, row, census>>

\* The cutover: collectAgentCapacityCensus reads what the rows say may run,
\* and later the operator initializes the authority with it.
Uncertain == {e \in Executions :
  /\ HasState(e, {"requested", "held", "releasing"})
  /\ row[e].entered \/ row[e].lease # None}

CollectCensus ==
  /\ census = None
  /\ census' = {[execution |-> e, agent |-> Agent(e), owner |-> Me] : e \in Uncertain}
  /\ UNCHANGED <<authorityVars, ownerVars>>

Cutover ==
  /\ census # None
  /\ Initialize(census)
  /\ UNCHANGED <<ownerVars, census>>

CallerStep(c) ==
  \/ Restart(c) \/ Enter(c) \/ ReleaseUnentered(c)
  \/ AcquireAnswered(c) \/ InspectAnswered(c) \/ ReleaseAnswered(c)

Next ==
  \/ \E l \in Logicals : Retain(l) \/ BeginAcquire(l)
  \/ \E c \in Callers : CallerStep(c) \/ BeginRelease(c) \/ TimeOut(c)
  \/ \E a \in Agents : Reconcile(a)
  \/ \E m \in wire : Execute(m)
  \/ Crash \/ CollectCensus \/ Cutover

Spec == Init /\ [][Next]_vars

\* An answer about this execution that reaches the caller.
Delivered(e, kinds) ==
  \E m \in wire :
    /\ m.execution = e /\ m.kind \in kinds /\ m.caller # None
    /\ Execute(m) /\ call' # call

\* The serial chain of a thread runs its code between awaits and its abort
\* signal fires; the timer queues in it, first come first served; a request
\* repeated for ever is answered, and the owner crashes finitely often.
FairSpec ==
  /\ Spec
  /\ <>[][~Crash]_vars
  /\ \A a \in Agents :
       /\ WF_vars(CallerStep(Serial[a]) \/ TimeOut(Serial[a]))
       /\ SF_vars(Reconcile(a))
  /\ SF_vars(\E e \in Executions : Delivered(e, {"inspect"}))
  /\ SF_vars(\E e \in Executions : Delivered(e, {"release", "withdraw"}))

-----------------------------------------------------------------------------
(* Properties.                                                             *)

\* The rows of thread_capacity, the operations in progress and the requests on
\* their way have the shapes the ledger's statements and CHECKs allow.
CallState ==
  [at : {"idle", "awaiting", "answered", "restart", "granted"},
   kind : {"acquire", "release", "inspect", "withdraw", None},
   execution : Executions \cup {None}, lease : Leases \cup {None},
   todo : SUBSET Snapshot, then : {"return", "restart"},
   answer : Leases \cup {None, "refused", "inactive", "done"}]

TypeOK ==
  /\ AuthorityTypeOK
  /\ row \in [Executions -> Row]
  /\ call \in [Callers -> CallState]
  /\ wire \subseteq Request
  /\ census # None => census \subseteq CensusEntry

\* The owner never believes in custody it does not have: whatever was late,
\* lost or crossed by a halt, a held row has its lease active at the authority.
HeldIsActive ==
  \A e \in Executions :
    HasState(e, {"held"}) =>
      request[e].state = "active" /\ request[e].lease = row[e].lease

\* Between the census and the cutover its entries are the operator's: what
\* the owner settles of them meanwhile is active again after the cutover.
Counted(e) == census # None /\ \E entry \in census : entry.execution = e

\* What the outbox calls released is fenced at the authority for good, so an
\* acquire still on the wire cannot take custody nobody would give back.
ReleasedIsFenced ==
  \A e \in Executions :
    HasState(e, {"released"}) => request[e].state = "released" \/ Counted(e)

\* No custody leaks: an active execution of this owner has a row that will
\* still be held or released, across crashes and abandoned requests.
CustodyRemembered ==
  \A e \in Executions :
    request[e].state = "active" => HasState(e, {"requested", "held", "releasing"}) \/ Counted(e)

\* Whatever is releasing is released in the end, if the authority is not down
\* for good: the outbox survives crashes, timeouts and refused withdrawals.
ReleasingEnds ==
  \A e \in Executions : HasState(e, {"releasing"}) ~> HasState(e, {"released"})
=============================================================================
