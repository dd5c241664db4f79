------------------------- MODULE CapacityAuthority -------------------------
(***************************************************************************)
(* The global agent-capacity authority: one SQLite table of execution      *)
(* requests shared by every owner (host and person), asked over HTTP by    *)
(* the owners' thread services (CapacityLedger models that side).          *)
(*                                                                         *)
(* Every handler is one IMMEDIATE transaction, so each is one action here, *)
(* and everything the authority knows is on disk: a restart of its process *)
(* changes nothing and needs no action.                                    *)
(***************************************************************************)
EXTENDS FiniteSets

CONSTANTS
  Agents,      \* agent identities (thread ids)
  Owners,      \* authenticated owners
  Executions,  \* durable execution identities
  Leases,      \* what randomUUID can return
  Censuses,    \* the censuses an operator may submit at cutover
  None         \* SQL NULL

CensusEntry == [execution : Executions, agent : Agents, owner : Owners]

ASSUME NoneAssumption == None \notin Agents \cup Owners \cup Leases
ASSUME CensusAssumption == Censuses \subseteq SUBSET CensusEntry

VARIABLES
  request,      \* capacity_request, keyed by execution; "absent" is no row
  initialized,  \* capacity_meta.initialized
  receipts      \* every custody the authority has ever answered, and to whom

authorityVars == <<request, initialized, receipts>>

RequestRow ==
  [state : {"absent", "queued", "active", "released"},
   agent : Agents \cup {None}, owner : Owners \cup {None},
   lease : Leases \cup {None}]

Receipt == [owner : Owners, agent : Agents, execution : Executions, lease : Leases]

Absent == [state |-> "absent", agent |-> None, owner |-> None, lease |-> None]

AuthorityInit ==
  /\ request = [e \in Executions |-> Absent]
  /\ initialized = FALSE
  /\ receipts = {}

-----------------------------------------------------------------------------
(* What the handlers read.                                                 *)

InState(e, state) == request[e].state = state

\* The row, if there is one, was recorded for this owner and this agent.
RecordedForAgent(o, a, e) == InState(e, "absent") \/ request[e].agent = a

Recorded(o, a, e) ==
  InState(e, "absent") \/ (request[e].owner = o /\ request[e].agent = a)

ActiveOf(a) == {e \in Executions : InState(e, "active") /\ request[e].agent = a}

Unused == Leases \ {request[e].lease : e \in Executions}

\* Whether acquire admits the execution now.
AdmissibleBesideActive(o, a, e) ==
  /\ Recorded(o, a, e)
  /\ request[e].state \in {"absent", "queued"}
  /\ initialized

AdmissibleAgain(o, a, e) ==
  /\ Recorded(o, a, e)
  /\ initialized
  /\ ActiveOf(a) = {}

Admissible(o, a, e) ==
  /\ Recorded(o, a, e)
  /\ request[e].state \in {"absent", "queued"}
  /\ initialized
  /\ ActiveOf(a) = {}

Queueable(o, a, e) ==
  InState(e, "absent") /\ ~Admissible(o, a, e)

\* release accepts only the custody it once granted, at any later time.
Receipted(o, a, e, lease) ==
  request[e].owner = o /\ request[e].agent = a /\ request[e].lease = lease

-----------------------------------------------------------------------------
(* What the handlers write.                                                *)

\* The row the handler updates, or the one it inserts for this request.
RowOf(o, a, e) ==
  IF InState(e, "absent")
  THEN [state |-> "queued", agent |-> a, owner |-> o, lease |-> None]
  ELSE request[e]

Put(e, row) == request' = [request EXCEPT ![e] = row] /\ UNCHANGED initialized

Answer(o, a, e, lease) ==
  receipts' = receipts \cup
    {[owner |-> o, agent |-> a, execution |-> e, lease |-> lease]}

-----------------------------------------------------------------------------
(* The handlers.                                                           *)

Granted(o, a, e) ==
  /\ Admissible(o, a, e)
  /\ \E lease \in Unused :
       /\ Put(e, [RowOf(o, a, e) EXCEPT !.state = "active", !.lease = lease])
       /\ Answer(o, a, e, lease)

\* The insert is committed although the answer is a refusal.
Queued(o, a, e) ==
  /\ Queueable(o, a, e)
  /\ Put(e, RowOf(o, a, e))
  /\ UNCHANGED receipts

\* A repeated acquire, and inspect, answer with the custody already recorded.
Reissued(o, a, e) ==
  /\ Recorded(o, a, e) /\ InState(e, "active")
  /\ Answer(o, a, e, request[e].lease)
  /\ UNCHANGED <<request, initialized>>

\* Another owner's or agent's, released, or still waiting: nothing changes.
AcquireRefused(o, a, e) ==
  /\ ~InState(e, "absent")
  /\ ~Admissible(o, a, e)
  /\ ~(Recorded(o, a, e) /\ InState(e, "active"))
  /\ UNCHANGED authorityVars

Acquire(o, a, e) ==
  Granted(o, a, e) \/ Queued(o, a, e) \/ Reissued(o, a, e) \/ AcquireRefused(o, a, e)

Inspect(o, a, e) ==
  \/ Reissued(o, a, e)
  \/ /\ ~(Recorded(o, a, e) /\ InState(e, "active"))
     /\ UNCHANGED authorityVars

\* An unadmitted or unknown request is fenced by a tombstone without a lease.
Tombstone(o, a, e) ==
  /\ Recorded(o, a, e)
  /\ request[e].state \in {"absent", "queued"}
  /\ Put(e, [RowOf(o, a, e) EXCEPT !.state = "released"])
  /\ UNCHANGED receipts

WithdrawUnchanged(o, a, e) ==
  /\ Recorded(o, a, e) => request[e].state \in {"active", "released"}
  /\ UNCHANGED authorityVars

Withdraw(o, a, e) == Tombstone(o, a, e) \/ WithdrawUnchanged(o, a, e)

Settled(o, a, e, lease) ==
  /\ Receipted(o, a, e, lease)
  /\ Put(e, [request[e] EXCEPT !.state = "released"])
  /\ UNCHANGED receipts

ReleaseRefused(o, a, e, lease) ==
  /\ ~Receipted(o, a, e, lease)
  /\ UNCHANGED authorityVars

Release(o, a, e, lease) == Settled(o, a, e, lease) \/ ReleaseRefused(o, a, e, lease)

\* Identities are distinct, and a row recorded before belongs to the entry.
CensusAccepted(census) ==
  /\ \A x, y \in census :
       x # y => x.agent # y.agent /\ x.execution # y.execution
  /\ \A x \in census : Recorded(x.owner, x.agent, x.execution)

Covered(census) == {x.execution : x \in census}

EntryOf(census, e) == CHOOSE x \in census : x.execution = e

Activated(x, lease) ==
  [RowOf(x.owner, x.agent, x.execution) EXCEPT !.state = "active", !.lease = lease]

\* The cutover: ON CONFLICT DO UPDATE activates whatever row was there.
Initialize(census) ==
  /\ ~initialized
  /\ CensusAccepted(census)
  /\ \E lease \in [Covered(census) -> Unused] :
       /\ \A e, f \in Covered(census) : lease[e] = lease[f] => e = f
       /\ request' = [e \in Executions |->
            IF e \in Covered(census) THEN Activated(EntryOf(census, e), lease[e])
                                     ELSE request[e]]
  /\ initialized' = TRUE
  /\ UNCHANGED receipts

AuthorityNext ==
  \/ \E census \in Censuses : Initialize(census)
  \/ \E o \in Owners, a \in Agents, e \in Executions :
       \/ Acquire(o, a, e)
       \/ Inspect(o, a, e)
       \/ Withdraw(o, a, e)
       \/ \E lease \in Leases : Release(o, a, e, lease)

AuthoritySpec == AuthorityInit /\ [][AuthorityNext]_authorityVars

-----------------------------------------------------------------------------
(* Properties.                                                             *)

\* Every row has what its CHECK constraint and its history allow (lines
\* 26-31): nothing is active and no lease exists before the cutover.
AuthorityTypeOK ==
  /\ request \in [Executions -> RequestRow]
  /\ initialized \in BOOLEAN
  /\ receipts \subseteq Receipt
  /\ \A e \in Executions :
       /\ InState(e, "absent") <=> request[e].owner = None
       /\ InState(e, "absent") <=> request[e].agent = None
       /\ InState(e, "active") => request[e].lease # None
       /\ request[e].state \in {"absent", "queued"} => request[e].lease = None
       /\ request[e].lease # None => initialized

\* An agent never has two executions in custody, whatever mix of census,
\* retries and owners asked for it (docs/agent-capacity.md, Custody).
OneActivePerAgent ==
  \A e, f \in Executions :
    InState(e, "active") /\ InState(f, "active") /\ request[e].agent = request[f].agent
      => e = f

\* Custody never changes hands: every receipt ever answered for an execution
\* is the same one, to one owner for one agent with one lease, so no retry,
\* handoff or other owner can adopt it and every release with it still works.
ReceiptsAgree ==
  \A r, s \in receipts : r.execution = s.execution => r = s

\* After the cutover a released execution stays released: no reordered or
\* repeated request revives it.
ReleasedIsFinal ==
  [][\A e \in Executions :
       initialized /\ InState(e, "released") => request'[e].state = "released"]_authorityVars

\* The authority keeps the abstract promise: custody is exclusive per agent
\* and given to an execution once.
Promise == INSTANCE ExecutionCustody WITH
  custody <- {<<request[e].agent, e>> : e \in {x \in Executions : InState(x, "active")}},
  spent <- {e \in Executions : request[e].lease # None}

KeepsPromise == Promise!Spec
=============================================================================
