------------------------ MODULE CapacityLedger_proofs ------------------------
(***************************************************************************)
(* The authority for every set of agents, owners, executions and leases    *)
(* and every census, and the outbox of an owner that asks it, for every    *)
(* set of callers and late requests: custody is exclusive per agent,       *)
(* receipts agree, releases are final once the cutover is done, and what   *)
(* the owner believes of its custody is true, whatever is late or lost.    *)
(***************************************************************************)
EXTENDS CapacityLedger, TLAPS

-----------------------------------------------------------------------------
(* The authority by itself, asked by any owners in any order.              *)

\* What makes ReceiptsAgree inductive: the table remembers each receipt.
ReceiptsRecorded ==
  \A r \in receipts :
    /\ request[r.execution].owner = r.owner
    /\ request[r.execution].agent = r.agent
    /\ request[r.execution].lease = r.lease

\* TypeOK carries the other strengthening: a lease exists only after the
\* cutover, so the cutover meets no active row and no receipt.
AuthorityInv == AuthorityTypeOK /\ OneActivePerAgent /\ ReceiptsRecorded

-----------------------------------------------------------------------------
(* What the handlers read and write.                                       *)

\* Every accepted census entry is the entry of its execution.
LEMMA EntryOfCovered ==
  ASSUME NEW entries \in SUBSET CensusEntry, NEW e \in Covered(entries)
  PROVE  /\ EntryOf(entries, e) \in entries
         /\ EntryOf(entries, e).execution = e
         /\ EntryOf(entries, e).agent \in Agents
         /\ EntryOf(entries, e).owner \in Owners
         /\ e \in Executions
<1>1. PICK x \in entries : x.execution = e
  BY DEF Covered
<1>2. EntryOf(entries, e) \in entries /\ EntryOf(entries, e).execution = e
  BY <1>1 DEF EntryOf
<1>3. EntryOf(entries, e) \in CensusEntry
  BY <1>2
<1> QED BY <1>2, <1>3 DEF CensusEntry

\* The row a handler works on is a table row, with this owner and agent when
\* the handler's ownership check passes.
LEMMA AuthorityRowOfType ==
  ASSUME AuthorityTypeOK, NEW o \in Owners, NEW a \in Agents, NEW e \in Executions
  PROVE  /\ RowOf(o, a, e) \in RequestRow
         /\ RowOf(o, a, e).agent # None /\ RowOf(o, a, e).owner # None
         /\ Recorded(o, a, e) =>
              RowOf(o, a, e).agent = a /\ RowOf(o, a, e).owner = o
         /\ RowOf(o, a, e).lease = request[e].lease
         /\ InState(e, "absent") => RowOf(o, a, e).state = "queued"
         /\ ~InState(e, "absent") => RowOf(o, a, e) = request[e]
<1>1. CASE InState(e, "absent")
  BY <1>1, NoneAssumption DEF RowOf, RequestRow, AuthorityTypeOK,
     InState, Recorded
<1>2. CASE ~InState(e, "absent")
  BY <1>2, NoneAssumption DEF RowOf, AuthorityTypeOK, InState,
     Recorded
<1> QED BY <1>1, <1>2

\* A handler that writes one row leaves the others alone.
LEMMA AuthorityPutRow ==
  ASSUME AuthorityTypeOK, NEW e \in Executions, NEW new \in RequestRow, Put(e, new)
  PROVE  /\ request'[e] = new
         /\ \A f \in Executions : f # e => request'[f] = request[f]
         /\ request' \in [Executions -> RequestRow]
         /\ initialized' = initialized
BY DEF AuthorityTypeOK, Put

-----------------------------------------------------------------------------
(* One lemma per handler that writes.                                      *)

LEMMA AuthorityInitInv == AuthorityInit => AuthorityInv
<1> SUFFICES ASSUME AuthorityInit PROVE AuthorityInv
  OBVIOUS
<1>1. \A e \in Executions : request[e] = Absent
  BY DEF AuthorityInit
<1>2. Absent \in RequestRow
  BY DEF Absent, RequestRow
<1>3. AuthorityTypeOK
  BY <1>1, <1>2, NoneAssumption DEF AuthorityTypeOK, AuthorityInit, InState,
     Absent
<1>4. OneActivePerAgent /\ ReceiptsRecorded
  BY <1>1 DEF OneActivePerAgent, ReceiptsRecorded, InState, Absent,
     AuthorityInit
<1> QED BY <1>3, <1>4 DEF AuthorityInv

LEMMA GrantedInv ==
  ASSUME AuthorityInv, NEW o \in Owners, NEW a \in Agents, NEW e \in Executions,
         Granted(o, a, e)
  PROVE  AuthorityInv'
<1> USE DEF AuthorityInv
<1>1. PICK lease \in Unused :
        /\ Put(e, [RowOf(o, a, e) EXCEPT !.state = "active", !.lease = lease])
        /\ Answer(o, a, e, lease)
  BY DEF Granted
<1> DEFINE new == [RowOf(o, a, e) EXCEPT !.state = "active", !.lease = lease]
<1>2. lease \in Leases /\ lease # None
  BY <1>1, NoneAssumption DEF Unused
<1>3. Recorded(o, a, e) /\ initialized /\ ActiveOf(a) = {} /\ request[e].lease = None
  BY DEF Granted, Admissible, AuthorityTypeOK, InState
<1>4. /\ new \in RequestRow /\ new.state = "active" /\ new.lease = lease
      /\ new.agent = a /\ new.owner = o
  <2>1. /\ RowOf(o, a, e) \in RequestRow
        /\ RowOf(o, a, e).agent = a /\ RowOf(o, a, e).owner = o
    BY <1>3, AuthorityRowOfType
  <2> QED BY <2>1, <1>2 DEF RequestRow
<1> HIDE DEF new
<1>5. /\ request'[e] = new
      /\ \A f \in Executions : f # e => request'[f] = request[f]
      /\ request' \in [Executions -> RequestRow]
      /\ initialized' = initialized
  BY <1>1, <1>4, AuthorityPutRow DEF new
<1>6. AuthorityTypeOK'
  <2>1. receipts' \subseteq Receipt
    BY <1>1, <1>2 DEF Answer, Receipt, AuthorityTypeOK
  <2> QED BY <2>1, <1>2, <1>3, <1>4, <1>5, NoneAssumption DEF AuthorityTypeOK, InState
<1>7. OneActivePerAgent'
  BY <1>3, <1>4, <1>5 DEF OneActivePerAgent, InState, ActiveOf
<1>8. ReceiptsRecorded'
  <2> SUFFICES ASSUME NEW r \in receipts'
               PROVE  /\ request'[r.execution].owner = r.owner
                      /\ request'[r.execution].agent = r.agent
                      /\ request'[r.execution].lease = r.lease
    BY DEF ReceiptsRecorded
  <2>1. CASE r \in receipts
    <3>1. r \in Receipt /\ r.lease # None /\ request[r.execution].lease = r.lease
      BY <2>1, NoneAssumption DEF AuthorityTypeOK, Receipt, ReceiptsRecorded
    <3>2. r.execution \in Executions /\ r.execution # e
      BY <3>1, <1>3 DEF Receipt
    <3> QED BY <2>1, <3>2, <1>5 DEF ReceiptsRecorded
  <2>2. CASE r = [owner |-> o, agent |-> a, execution |-> e, lease |-> lease]
    BY <2>2, <1>4, <1>5
  <2> QED BY <1>1, <2>1, <2>2 DEF Answer
<1> QED BY <1>6, <1>7, <1>8

LEMMA ReissuedInv ==
  ASSUME AuthorityInv, NEW o \in Owners, NEW a \in Agents, NEW e \in Executions,
         Reissued(o, a, e)
  PROVE  AuthorityInv'
<1> USE DEF AuthorityInv
<1>1. /\ request[e].owner = o /\ request[e].agent = a
      /\ request[e].lease \in Leases
      /\ UNCHANGED <<request, initialized>>
  BY DEF Reissued, Recorded, InState, AuthorityTypeOK,
     RequestRow
<1>2. receipts' = receipts \cup
        {[owner |-> o, agent |-> a, execution |-> e, lease |-> request[e].lease]}
  BY DEF Reissued, Answer
<1>3. AuthorityTypeOK'
  BY <1>1, <1>2 DEF AuthorityTypeOK, InState, Receipt
<1>4. OneActivePerAgent'
  BY <1>1 DEF OneActivePerAgent, InState
<1>5. ReceiptsRecorded'
  BY <1>1, <1>2 DEF ReceiptsRecorded
<1> QED BY <1>3, <1>4, <1>5

\* Queueing, withdrawing and releasing write a row that is not active and
\* keeps the lease, and the owner and agent of a row that had a lease.
LEMMA InactiveRowInv ==
  ASSUME AuthorityInv, NEW e \in Executions, NEW new \in RequestRow,
         Put(e, new), UNCHANGED receipts,
         new.state \in {"queued", "released"},
         new.agent # None, new.owner # None,
         new.lease = request[e].lease,
         new.state = "queued" => new.lease = None,
         new.lease # None => new.agent = request[e].agent /\ new.owner = request[e].owner
  PROVE  AuthorityInv'
<1> USE DEF AuthorityInv
<1>1. /\ request'[e] = new
      /\ \A f \in Executions : f # e => request'[f] = request[f]
      /\ request' \in [Executions -> RequestRow]
      /\ initialized' = initialized
  BY AuthorityPutRow
<1>2. AuthorityTypeOK'
  BY <1>1 DEF AuthorityTypeOK, InState
<1>3. OneActivePerAgent'
  BY <1>1 DEF OneActivePerAgent, InState
<1>4. ReceiptsRecorded'
  <2> SUFFICES ASSUME NEW r \in receipts
               PROVE  /\ request'[r.execution].owner = r.owner
                      /\ request'[r.execution].agent = r.agent
                      /\ request'[r.execution].lease = r.lease
    BY DEF ReceiptsRecorded
  <2>1. r \in Receipt /\ r.execution \in Executions /\ r.lease # None
    BY NoneAssumption DEF AuthorityTypeOK, Receipt
  <2> QED BY <2>1, <1>1 DEF ReceiptsRecorded
<1> QED BY <1>2, <1>3, <1>4

LEMMA QueuedInv ==
  ASSUME AuthorityInv, NEW o \in Owners, NEW a \in Agents, NEW e \in Executions,
         Queued(o, a, e)
  PROVE  AuthorityInv'
<1>1. InState(e, "absent") /\ request[e].lease = None /\ AuthorityTypeOK
  BY DEF AuthorityInv, AuthorityTypeOK, Queued, Queueable, InState
<1>2. Put(e, RowOf(o, a, e)) /\ UNCHANGED receipts
  BY DEF Queued
<1> QED BY <1>1, <1>2, AuthorityRowOfType, InactiveRowInv

LEMMA TombstoneInv ==
  ASSUME AuthorityInv, NEW o \in Owners, NEW a \in Agents, NEW e \in Executions,
         Tombstone(o, a, e)
  PROVE  AuthorityInv'
<1> DEFINE new == [RowOf(o, a, e) EXCEPT !.state = "released"]
<1>1. request[e].lease = None /\ AuthorityTypeOK /\ Recorded(o, a, e)
  BY DEF AuthorityInv, AuthorityTypeOK, Tombstone, InState
<1>2. /\ new \in RequestRow /\ new.state = "released" /\ new.lease = None
      /\ new.agent = a /\ new.owner = o
  BY <1>1, AuthorityRowOfType DEF RequestRow
<1>3. Put(e, new) /\ UNCHANGED receipts
  BY DEF Tombstone
<1> HIDE DEF new
<1> QED BY <1>1, <1>2, <1>3, InactiveRowInv, NoneAssumption

LEMMA SettledInv ==
  ASSUME AuthorityInv, NEW o \in Owners, NEW a \in Agents, NEW e \in Executions,
         NEW lease \in Leases, Settled(o, a, e, lease)
  PROVE  AuthorityInv'
<1> DEFINE new == [request[e] EXCEPT !.state = "released"]
<1>1. request[e] \in RequestRow
  BY DEF AuthorityInv, AuthorityTypeOK
<1>2. new \in RequestRow /\ Put(e, new) /\ UNCHANGED receipts
  BY <1>1 DEF Settled, RequestRow
<1>3. /\ new.state = "released" /\ new.lease = request[e].lease
      /\ new.agent = a /\ new.owner = o
      /\ request[e].agent = a /\ request[e].owner = o
  BY <1>1 DEF Settled, Receipted, RequestRow
<1> HIDE DEF new
<1> QED BY <1>2, <1>3, InactiveRowInv, NoneAssumption

LEMMA InitializeInv ==
  ASSUME AuthorityInv, NEW entries \in SUBSET CensusEntry, Initialize(entries)
  PROVE  AuthorityInv'
<1> USE DEF AuthorityInv
<1>1. PICK lease \in [Covered(entries) -> Unused] :
        /\ \A e, f \in Covered(entries) : lease[e] = lease[f] => e = f
        /\ request' = [e \in Executions |->
             IF e \in Covered(entries)
             THEN Activated(EntryOf(entries, e), lease[e])
             ELSE request[e]]
  BY DEF Initialize
<1>2. ~initialized /\ initialized' /\ CensusAccepted(entries) /\ UNCHANGED receipts
  BY DEF Initialize
<1>3. \A e \in Executions : ~InState(e, "active") /\ request[e].lease = None
  BY <1>2 DEF AuthorityTypeOK
<1>4. receipts = {}
  <2> SUFFICES ASSUME NEW r \in receipts PROVE FALSE
    OBVIOUS
  <2>1. r \in Receipt /\ r.lease # None /\ request[r.execution].lease = r.lease
    BY NoneAssumption DEF AuthorityTypeOK, Receipt, ReceiptsRecorded
  <2> QED BY <2>1, <1>3 DEF Receipt
<1>5. ASSUME NEW e \in Covered(entries)
      PROVE  /\ request'[e] \in RequestRow
             /\ request'[e].state = "active"
             /\ request'[e].agent = EntryOf(entries, e).agent
             /\ request'[e].agent \in Agents
             /\ request'[e].owner \in Owners
             /\ request'[e].lease \in Leases
  <2> DEFINE x == EntryOf(entries, e)
  <2>1. /\ x \in entries /\ x.execution = e /\ x.agent \in Agents /\ x.owner \in Owners
        /\ e \in Executions
    BY EntryOfCovered
  <2>2. Recorded(x.owner, x.agent, e)
    BY <2>1, <1>2 DEF CensusAccepted
  <2>3. request'[e] = [RowOf(x.owner, x.agent, e) EXCEPT !.state = "active", !.lease = lease[e]]
    BY <1>1, <2>1 DEF Activated
  <2>4. lease[e] \in Leases
    BY <1>1 DEF Unused
  <2>5. /\ RowOf(x.owner, x.agent, e) \in RequestRow
        /\ RowOf(x.owner, x.agent, e).agent = x.agent
        /\ RowOf(x.owner, x.agent, e).owner = x.owner
    BY <2>1, <2>2, AuthorityRowOfType
  <2> HIDE DEF x
  <2> QED BY <2>1, <2>3, <2>4, <2>5 DEF RequestRow, x
<1>6. \A e \in Executions : e \notin Covered(entries) => request'[e] = request[e]
  BY <1>1
<1>7. AuthorityTypeOK'
  <2>1. request' \in [Executions -> RequestRow]
    BY <1>1, <1>5, <1>6 DEF AuthorityTypeOK
  <2> QED BY <2>1, <1>2, <1>3, <1>5, <1>6, NoneAssumption DEF AuthorityTypeOK, InState
<1>8. OneActivePerAgent'
  <2> SUFFICES ASSUME NEW e \in Executions, NEW f \in Executions,
                      request'[e].state = "active", request'[f].state = "active",
                      request'[e].agent = request'[f].agent
               PROVE  e = f
    BY DEF OneActivePerAgent, InState
  <2>1. e \in Covered(entries) /\ f \in Covered(entries)
    BY <1>3, <1>6 DEF InState
  <2>2. EntryOf(entries, e) = EntryOf(entries, f)
    BY <2>1, <1>2, <1>5, EntryOfCovered DEF CensusAccepted
  <2> QED BY <2>1, <2>2, EntryOfCovered
<1>9. ReceiptsRecorded'
  BY <1>2, <1>4 DEF ReceiptsRecorded
<1> QED BY <1>7, <1>8, <1>9

-----------------------------------------------------------------------------
\* A request of any owner, or the cutover with any census.
AuthorityStep ==
  \/ \E entries \in SUBSET CensusEntry : Initialize(entries)
  \/ \E o \in Owners, a \in Agents, e \in Executions :
       \/ Acquire(o, a, e) \/ Inspect(o, a, e) \/ Withdraw(o, a, e)
       \/ \E lease \in Leases : Release(o, a, e, lease)

LEMMA NextIsStep == AuthorityNext => AuthorityStep
<1>1. \A entries \in Censuses : entries \in SUBSET CensusEntry
  BY CensusAssumption
<1> QED BY <1>1 DEF AuthorityNext, AuthorityStep

LEMMA AuthorityStepInv ==
  ASSUME AuthorityInv, AuthorityStep \/ UNCHANGED authorityVars
  PROVE  AuthorityInv'
<1>1. ASSUME UNCHANGED authorityVars PROVE AuthorityInv'
  BY <1>1 DEF authorityVars, AuthorityInv, AuthorityTypeOK, OneActivePerAgent,
              ReceiptsRecorded, InState
<1>2. ASSUME NEW entries \in SUBSET CensusEntry, Initialize(entries)
      PROVE  AuthorityInv'
  BY <1>2, InitializeInv
<1>3. ASSUME NEW o \in Owners, NEW a \in Agents, NEW e \in Executions,
             Acquire(o, a, e) \/ Inspect(o, a, e)
      PROVE  AuthorityInv'
  BY <1>1, <1>3, GrantedInv, QueuedInv, ReissuedInv DEF Acquire,
     AcquireRefused, Inspect
<1>4. ASSUME NEW o \in Owners, NEW a \in Agents, NEW e \in Executions,
             Withdraw(o, a, e)
      PROVE  AuthorityInv'
  BY <1>1, <1>4, TombstoneInv DEF Withdraw, WithdrawUnchanged
<1>5. ASSUME NEW o \in Owners, NEW a \in Agents, NEW e \in Executions,
             NEW lease \in Leases, Release(o, a, e, lease)
      PROVE  AuthorityInv'
  BY <1>1, <1>5, SettledInv DEF Release, ReleaseRefused
<1> QED BY <1>1, <1>2, <1>3, <1>4, <1>5 DEF AuthorityStep

LEMMA AuthorityInvariance == AuthoritySpec => []AuthorityInv
<1>1. AuthorityInv /\ [AuthorityNext]_authorityVars => AuthorityInv'
  BY NextIsStep, AuthorityStepInv
<1> QED BY <1>1, AuthorityInitInv, PTL DEF AuthoritySpec

-----------------------------------------------------------------------------
\* Rows are well formed whatever owners and the operator ask
\* (the table and its CHECK constraint, agent-capacity-authority.ts:26-31).
THEOREM AuthorityTypeCorrect == AuthoritySpec => []AuthorityTypeOK
BY AuthorityInvariance, PTL DEF AuthorityInv

\* Custody is exclusive per agent: census, acquire, withdraw and release of
\* any owners in any order never leave an agent with two executions.
THEOREM AgentExclusion == AuthoritySpec => []OneActivePerAgent
BY AuthorityInvariance, PTL DEF AuthorityInv

\* Nobody is ever answered with custody that someone else was answered with,
\* or with another lease for the same execution.
THEOREM ReceiptAgreement == AuthoritySpec => []ReceiptsAgree
<1>1. AuthorityInv => ReceiptsAgree
  <2> SUFFICES ASSUME AuthorityInv, NEW r \in receipts, NEW s \in receipts,
                      r.execution = s.execution
               PROVE  r = s
    BY DEF ReceiptsAgree
  <2>1. r \in Receipt /\ s \in Receipt
    BY DEF AuthorityInv, AuthorityTypeOK
  <2>2. r.owner = s.owner /\ r.agent = s.agent /\ r.lease = s.lease
    BY DEF AuthorityInv, ReceiptsRecorded
  <2> QED BY <2>1, <2>2 DEF Receipt
<1> QED BY <1>1, AuthorityInvariance, PTL

\* A release is final once the cutover is done (no action revives the row):
\* acquire's "released" conflict and the idempotent release are enough.
THEOREM ReleaseFinality == AuthoritySpec => ReleasedIsFinal
<1>1. ASSUME AuthorityInv, AuthorityNext, NEW f \in Executions,
             initialized, InState(f, "released")
      PROVE  request'[f].state = "released"
  <2>1. ASSUME NEW o \in Owners, NEW a \in Agents, NEW e \in Executions,
               Acquire(o, a, e) \/ Inspect(o, a, e)
        PROVE  request'[f].state = "released"
    <3>1. request'[f] = request[f] \/ (f = e /\ (Granted(o, a, e) \/ Queued(o, a, e)))
      BY <2>1, <1>1 DEF AuthorityInv, AuthorityTypeOK, Acquire, Inspect,
         Granted, Queued, Put,
                        Reissued, AcquireRefused, authorityVars
    <3>2. f = e => ~Granted(o, a, e) /\ ~Queued(o, a, e)
      BY <1>1 DEF InState, Granted, Admissible, Queued,
         Queueable
    <3> QED BY <1>1, <3>1, <3>2 DEF InState
  <2>2. ASSUME NEW o \in Owners, NEW a \in Agents, NEW e \in Executions,
               Withdraw(o, a, e)
        PROVE  request'[f].state = "released"
    BY <2>2, <1>1 DEF AuthorityInv, AuthorityTypeOK, InState, Withdraw,
       Tombstone, Put,
                      WithdrawUnchanged, authorityVars
  <2>3. ASSUME NEW o \in Owners, NEW a \in Agents, NEW e \in Executions,
               NEW lease \in Leases, Release(o, a, e, lease)
        PROVE  request'[f].state = "released"
    <3>1. request[e] \in RequestRow
      BY <1>1 DEF AuthorityInv, AuthorityTypeOK
    <3> QED BY <3>1, <2>3, <1>1 DEF AuthorityInv, AuthorityTypeOK, InState,
       Release, Settled,
                                    Put, ReleaseRefused,
                                       authorityVars, RequestRow
  <2>4. ~ \E entries \in Censuses : Initialize(entries)
    BY <1>1 DEF Initialize
  <2> QED BY <1>1, <2>1, <2>2, <2>3, <2>4 DEF AuthorityNext
<1>2. AuthorityInv /\ [AuthorityNext]_authorityVars =>
        [\A e \in Executions : initialized /\ InState(e, "released")
           => request'[e].state = "released"]_authorityVars
  BY <1>1
<1> QED BY <1>2, AuthorityInvariance, PTL DEF AuthoritySpec, ReleasedIsFinal

-----------------------------------------------------------------------------
(* The authority implements ExecutionCustody.                              *)

InCustody == {<<request[e].agent, e>> : e \in {x \in Executions : InState(x, "active")}}

Spent == {e \in Executions : request[e].lease # None}

LEMMA InitPromise == AuthorityInit => Promise!Init
BY DEF AuthorityInit, Promise!Init, InState, Absent

\* An exclusive table gives exclusive pairs.
LEMMA ExclusivePairs == OneActivePerAgent => Promise!Exclusive(InCustody)
BY DEF OneActivePerAgent, Promise!Exclusive, InCustody

\* What a step gives custody to was not spent; what it settles is one pair.
LEMMA GrantedPromise ==
  ASSUME AuthorityInv, AuthorityInv',
         NEW o \in Owners, NEW a \in Agents, NEW e \in Executions, Granted(o, a, e)
  PROVE  Promise!Next
<1> USE DEF AuthorityInv
<1>1. PICK lease \in Unused :
        Put(e, [RowOf(o, a, e) EXCEPT !.state = "active", !.lease = lease])
  BY DEF Granted
<1>2. lease \in Leases /\ lease # None
  BY <1>1, NoneAssumption DEF Unused
<1>3. Recorded(o, a, e) /\ request[e].state \in {"absent", "queued"} /\ request[e].lease = None
  BY DEF Granted, Admissible, AuthorityTypeOK, InState
<1>4. RowOf(o, a, e) \in RequestRow /\ RowOf(o, a, e).agent = a
  BY <1>3, AuthorityRowOfType
<1>5. /\ request'[e].state = "active" /\ request'[e].agent = a /\ request'[e].lease = lease
      /\ \A f \in Executions : f # e => request'[f] = request[f]
  BY <1>1, <1>4 DEF AuthorityTypeOK, Put, RequestRow
<1>6. InCustody' = InCustody \cup {<<a, e>>}
  BY <1>3, <1>5 DEF InCustody, InState
<1>7. Spent' = Spent \cup {e} /\ e \notin Spent
  BY <1>2, <1>3, <1>5 DEF Spent
<1>8. Promise!Exclusive(InCustody \cup {<<a, e>>})
  <2>1. \A p, q \in InCustody' : p # q => p[1] # q[1] /\ p[2] # q[2]
    BY DEF OneActivePerAgent, InCustody
  <2> QED BY <1>6, <2>1 DEF Promise!Exclusive
<1>9. Promise!Grant({<<a, e>>})
  BY <1>6, <1>7, <1>8 DEF Promise!Grant, InCustody, Spent
<1> QED BY <1>9 DEF Promise!Next

LEMMA InitializePromise ==
  ASSUME AuthorityInv, AuthorityInv', NEW entries \in SUBSET CensusEntry,
         Initialize(entries)
  PROVE  Promise!Next
<1> USE DEF AuthorityInv
<1> DEFINE pairs == InCustody'
<1>1. ~initialized /\ \A e \in Executions : request'[e].lease # None => request'[e].state = "active"
  <2>1. ~initialized
    BY DEF Initialize
  <2>2. \A e \in Executions : request[e].lease = None
    BY <2>1 DEF AuthorityTypeOK
  <2>3. PICK lease \in [Covered(entries) -> Unused] :
          request' = [e \in Executions |->
             IF e \in Covered(entries)
             THEN Activated(EntryOf(entries, e), lease[e])
             ELSE request[e]]
    BY DEF Initialize
  <2>4. ASSUME NEW e \in Covered(entries) PROVE request'[e].state = "active"
    <3> DEFINE x == EntryOf(entries, e)
    <3>1. x.execution = e /\ x.owner \in Owners /\ x.agent \in Agents /\ e \in Executions
      BY EntryOfCovered
    <3>2. RowOf(x.owner, x.agent, e) \in RequestRow
      BY <3>1, AuthorityRowOfType
    <3>3. request'[e] = [RowOf(x.owner, x.agent, e) EXCEPT !.state = "active", !.lease = lease[e]]
      BY <2>3, <3>1 DEF Activated
    <3> HIDE DEF x
    <3> QED BY <3>2, <3>3 DEF RequestRow
  <2> QED BY <2>1, <2>2, <2>3, <2>4
<1>2. InCustody = {} /\ Spent = {}
  BY <1>1 DEF AuthorityTypeOK, InCustody, Spent
<1>3. Spent' = {p[2] : p \in pairs}
  <2>1. \A e \in Executions : request'[e].lease # None <=> request'[e].state = "active"
    BY <1>1 DEF AuthorityTypeOK, InState
  <2>2. \A e \in Executions :
          request'[e].state = "active" => <<request'[e].agent, e>> \in pairs
    BY DEF InCustody, InState
  <2>3. \A p \in pairs : p[2] \in Executions /\ request'[p[2]].state = "active"
    BY DEF InCustody, InState
  <2>4. \A e \in Executions : <<request'[e].agent, e>>[2] = e
    OBVIOUS
  <2> HIDE DEF pairs
  <2>5. ASSUME NEW e \in Spent' PROVE e \in {p[2] : p \in pairs}
    BY <2>1, <2>2, <2>4, <2>5 DEF Spent
  <2>6. ASSUME NEW p \in pairs PROVE p[2] \in Spent'
    BY <2>1, <2>3, <2>6 DEF Spent
  <2> QED BY <2>5, <2>6
<1>4. \A p, q \in pairs : p # q => p[1] # q[1] /\ p[2] # q[2]
  BY DEF OneActivePerAgent, InCustody
<1>5. pairs \in SUBSET (Agents \X Executions)
  BY NoneAssumption DEF AuthorityTypeOK, InCustody, RequestRow, InState
<1>6. Promise!Grant(pairs)
  BY <1>2, <1>3, <1>4 DEF Promise!Grant, Promise!Exclusive, InCustody, Spent
<1>7. \E ps \in SUBSET (Agents \X Executions) : ps = pairs
  BY <1>5
<1>8. PICK ps \in SUBSET (Agents \X Executions) : ps = pairs
  BY <1>7
<1>9. Promise!Grant(ps)
  BY <1>6, <1>8 DEF Promise!Grant
<1> QED BY <1>9 DEF Promise!Next

LEMMA SettledPromise ==
  ASSUME AuthorityInv, NEW o \in Owners, NEW a \in Agents, NEW e \in Executions,
         NEW lease \in Leases, Settled(o, a, e, lease)
  PROVE  Promise!Next \/ UNCHANGED <<InCustody, Spent>>
<1> USE DEF AuthorityInv
<1>1. request[e] \in RequestRow
  BY DEF AuthorityTypeOK
<1>2. /\ request'[e].state = "released" /\ request'[e].agent = request[e].agent
      /\ request'[e].lease = request[e].lease
      /\ \A f \in Executions : f # e => request'[f] = request[f]
  BY <1>1 DEF AuthorityTypeOK, Settled, Put, RequestRow
<1>3. Spent' = Spent
  BY <1>2 DEF Spent
<1>4. InCustody' = InCustody \ {<<request[e].agent, e>>}
  BY <1>2 DEF InCustody, InState
<1>5. CASE <<request[e].agent, e>> \in InCustody
  <2>1. PICK p \in InCustody : p = <<request[e].agent, e>>
    BY <1>5
  <2>2. Promise!Settle(p)
    BY <1>3, <1>4, <2>1 DEF Promise!Settle, InCustody, Spent
  <2> QED BY <2>1, <2>2 DEF Promise!Next, InCustody
<1>6. CASE <<request[e].agent, e>> \notin InCustody
  BY <1>3, <1>4, <1>6
<1> QED BY <1>5, <1>6

\* Queueing and withdrawing touch neither custody nor what is spent.
LEMMA UnadmittedPromise ==
  ASSUME AuthorityInv, NEW o \in Owners, NEW a \in Agents, NEW e \in Executions,
         Queued(o, a, e) \/ Tombstone(o, a, e)
  PROVE  UNCHANGED <<InCustody, Spent>>
<1> USE DEF AuthorityInv
<1>1. /\ request[e].state \in {"absent", "queued"} /\ request[e].lease = None
      /\ RowOf(o, a, e) \in RequestRow /\ RowOf(o, a, e).lease = None
      /\ RowOf(o, a, e).state \in {"absent", "queued"}
  BY AuthorityRowOfType DEF AuthorityTypeOK, Queued, Queueable,
     Tombstone, InState
<1>2. /\ request'[e].state \in {"queued", "released"}
      /\ request'[e].lease = None
      /\ \A f \in Executions : f # e => request'[f] = request[f]
  <2>1. CASE Queued(o, a, e)
    BY <2>1, <1>1, AuthorityRowOfType DEF AuthorityTypeOK, Queued, Queueable,
       Put
  <2>2. CASE Tombstone(o, a, e)
    BY <2>2, <1>1 DEF AuthorityTypeOK, Tombstone, Put, RequestRow
  <2> QED BY <2>1, <2>2
<1>3. Spent' = Spent
  BY <1>1, <1>2 DEF Spent
<1>4. InCustody' = InCustody
  BY <1>1, <1>2 DEF InCustody, InState
<1> QED BY <1>3, <1>4

LEMMA StepPromise ==
  ASSUME AuthorityInv, AuthorityInv', AuthorityStep \/ UNCHANGED authorityVars
  PROVE  Promise!Next \/ UNCHANGED <<InCustody, Spent>>
<1>1. ASSUME UNCHANGED request PROVE UNCHANGED <<InCustody, Spent>>
  BY <1>1 DEF InCustody, Spent, InState
<1>2. ASSUME NEW entries \in SUBSET CensusEntry, Initialize(entries)
      PROVE  Promise!Next
  BY <1>2, InitializePromise
<1>3. ASSUME NEW o \in Owners, NEW a \in Agents, NEW e \in Executions,
             Acquire(o, a, e) \/ Inspect(o, a, e)
      PROVE  Promise!Next \/ UNCHANGED <<InCustody, Spent>>
  BY <1>1, <1>3, GrantedPromise, UnadmittedPromise
     DEF Acquire, AcquireRefused, Inspect, Reissued,
        authorityVars
<1>4. ASSUME NEW o \in Owners, NEW a \in Agents, NEW e \in Executions,
             Withdraw(o, a, e)
      PROVE  UNCHANGED <<InCustody, Spent>>
  BY <1>1, <1>4, UnadmittedPromise DEF Withdraw, WithdrawUnchanged,
     authorityVars
<1>5. ASSUME NEW o \in Owners, NEW a \in Agents, NEW e \in Executions,
             NEW lease \in Leases, Release(o, a, e, lease)
      PROVE  Promise!Next \/ UNCHANGED <<InCustody, Spent>>
  BY <1>1, <1>5, SettledPromise DEF Release, ReleaseRefused,
     authorityVars
<1>6. CASE UNCHANGED authorityVars
  BY <1>1, <1>6 DEF authorityVars
<1> QED BY <1>2, <1>3, <1>4, <1>5, <1>6 DEF AuthorityStep

\* The authority implements its abstract promise: exclusive per agent, and an
\* execution identity is admitted at most once in its life.
THEOREM AuthorityRefinement == AuthoritySpec => KeepsPromise
<1>1. [Promise!Next]_<<InCustody, Spent>>
        => [Promise!Next]_Promise!custodyVars
  BY DEF Promise!custodyVars, InCustody, Spent
<1>2. /\ AuthorityInv /\ AuthorityInv' /\ [AuthorityNext]_authorityVars
      => [Promise!Next]_<<InCustody, Spent>>
  BY NextIsStep, StepPromise
<1> QED BY <1>1, <1>2, InitPromise, AuthorityInvariance, PTL
        DEF AuthoritySpec, KeepsPromise, Promise!Spec

-----------------------------------------------------------------------------
(* The owner's side.                                                       *)

Known(e) == row[e].state # "none"

\* A row that was given up is never asked for again: it only becomes released.
GivenUp(e) == row[e].state \in {"releasing", "released"}

\* Only this owner asks, and for an execution always with its own agent.
OwnRequests ==
  \A e \in Executions :
    request[e].state # "absent" => request[e].owner = Me /\ request[e].agent = Agent(e)
OwnCensus == census # None => \A x \in census : x.owner = Me /\ x.agent = Agent(x.execution)

\* Custody ends only for rows that were given up: this is what the requests on
\* their way, those that callers wait for and those they have still to send are for.
WireIsForRows ==
  \A m \in wire : Known(m.execution) /\ (m.kind # "acquire" => GivenUp(m.execution))
CallsAreForRows ==
  \A c \in Callers :
    /\ call[c].at \in {"awaiting", "answered"} =>
         /\ call[c].execution \in Executions /\ Known(call[c].execution)
         /\ call[c].kind # "acquire" => GivenUp(call[c].execution)
    /\ call[c].at \in {"restart", "granted"} => call[c].execution \in Executions
    /\ \A r \in call[c].todo : GivenUp(r.execution)
    /\ call[c].then = "restart" => call[c].execution \in Executions

\* A caller whose request is on its way waits for this request.
WireIsAwaited ==
  \A m \in wire : m.caller # None =>
    /\ call[m.caller].at = "awaiting"
    /\ call[m.caller].kind = m.kind /\ call[m.caller].execution = m.execution
    /\ call[m.caller].lease = m.lease

\* An answer is still true when its caller comes to use it.
AnswersHold ==
  \A c \in Callers : call[c].at = "answered" =>
    LET e == call[c].execution  answer == call[c].answer IN
    /\ call[c].kind = "acquire" /\ answer # "refused" =>
         /\ answer \in Leases /\ request[e].lease = answer
         /\ ~GivenUp(e) => request[e].state = "active"
    /\ call[c].kind = "inspect" /\ answer # "inactive" => answer \in Leases
    /\ call[c].kind \in {"release", "withdraw"} /\ answer = "done" =>
         request[e].state = "released" \/ Counted(e)

Custody == HeldIsActive /\ ReleasedIsFenced /\ CustodyRemembered
Requests == WireIsForRows /\ CallsAreForRows /\ WireIsAwaited

LedgerInv == TypeOK /\ OwnRequests /\ OwnCensus /\ Requests /\ AnswersHold /\ Custody

-----------------------------------------------------------------------------
(* Steps of the owner: the rows may change as the outbox allows, and one   *)
(* caller moves on from an answer it has.                                  *)

\* What a row may become.
RowsMove ==
  /\ row' \in [Executions -> Row]
  /\ \A e \in Executions :
       \/ row'[e] = row[e]
       \/ row[e].state = "none" /\ row'[e].state = "requested"
       \/ row[e].state \in {"requested", "held", "releasing"} /\ row'[e].state = "releasing"
       \/ /\ row[e].state \in {"requested", "held"} /\ row'[e].state = "held"
          /\ request[e].state = "active" /\ request[e].lease = row'[e].lease
       \/ /\ row[e].state \in {"releasing", "released"} /\ row'[e].state = "released"
          /\ row[e].state = "releasing" => request[e].state = "released" \/ Counted(e)

Message(c, new) == [kind |-> new.kind, execution |-> new.execution, lease |-> new.lease, caller |-> c]

\* What a caller that does not wait for an answer may become.
Becomes(c, new) ==
  /\ call' = [call EXCEPT ![c] = new]
  /\ wire' = IF new.at = "awaiting" THEN wire \cup {Message(c, new)} ELSE wire
  /\ new.at # "answered"
  /\ new.at = "awaiting" =>
       /\ new.kind \in {"acquire", "release", "inspect", "withdraw"}
       /\ new.execution \in Executions /\ row'[new.execution].state # "none"
       /\ new.kind # "acquire" => row'[new.execution].state \in {"releasing", "released"}
  /\ new.at \in {"restart", "granted"} \/ new.then = "restart" => new.execution \in Executions
  /\ \A r \in new.todo : row'[r.execution].state \in {"releasing", "released"}

CallMoves(c) == call[c].at # "awaiting" /\ \E new \in CallState : Becomes(c, new)

\* No row is forgotten, and none that was given up is taken back.
LEMMA RowsGrow ==
  ASSUME RowsMove
  PROVE  \A e \in Executions :
           (Known(e) => row'[e].state # "none")
           /\ (GivenUp(e) => row'[e].state \in {"releasing", "released"})
BY DEF RowsMove, Known, GivenUp

LEMMA CustodyKept ==
  ASSUME LedgerInv, RowsMove, UNCHANGED <<authorityVars, census>>
  PROVE  Custody'
<1>1. HeldIsActive'
  BY DEF LedgerInv, Custody, HeldIsActive, HasState, RowsMove, authorityVars
<1>2. ReleasedIsFenced'
  BY DEF LedgerInv, Custody, ReleasedIsFenced, HasState, RowsMove, authorityVars, Counted
<1>3. CustodyRemembered'
  BY DEF LedgerInv, Custody, CustodyRemembered, HasState, RowsMove, authorityVars, Counted
<1> QED BY <1>1, <1>2, <1>3 DEF Custody

LEMMA AnswersKept ==
  ASSUME LedgerInv, RowsMove, UNCHANGED <<authorityVars, census>>,
         \A c \in Callers : call'[c] = call[c] \/ call'[c].at # "answered"
  PROVE  AnswersHold'
<1> SUFFICES ASSUME NEW c \in Callers, call'[c].at = "answered",
                    NEW e, e = call'[c].execution, NEW answer, answer = call'[c].answer
             PROVE  /\ call'[c].kind = "acquire" /\ answer # "refused" =>
                         /\ answer \in Leases /\ request'[e].lease = answer
                         /\ row'[e].state \notin {"releasing", "released"} => request'[e].state = "active"
                    /\ call'[c].kind = "inspect" /\ answer # "inactive" => answer \in Leases
                    /\ call'[c].kind \in {"release", "withdraw"} /\ answer = "done" =>
                         \/ request'[e].state = "released"
                         \/ census' # None /\ \E entry \in census' : entry.execution = e
  BY DEF AnswersHold, GivenUp, Counted
<1>1. call'[c] = call[c] /\ request' = request /\ census' = census
  BY DEF authorityVars
<1>2. e \in Executions
  BY <1>1 DEF LedgerInv, Requests, CallsAreForRows
<1>3. row'[e].state \notin {"releasing", "released"} => ~GivenUp(e)
  BY <1>2, RowsGrow
<1>4. /\ call[c].kind = "acquire" /\ answer # "refused" =>
           /\ answer \in Leases /\ request[e].lease = answer
           /\ ~GivenUp(e) => request[e].state = "active"
      /\ call[c].kind = "inspect" /\ answer # "inactive" => answer \in Leases
      /\ call[c].kind \in {"release", "withdraw"} /\ answer = "done" =>
           request[e].state = "released" \/ Counted(e)
  BY <1>1 DEF LedgerInv, AnswersHold
<1> QED BY <1>1, <1>3, <1>4 DEF Counted

LEMMA CallerStepInv ==
  ASSUME LedgerInv, UNCHANGED <<authorityVars, census>>, RowsMove, NEW c \in Callers, CallMoves(c)
  PROVE  LedgerInv'
<1>1. PICK new \in CallState : Becomes(c, new)
  BY DEF CallMoves
<1>2. /\ call'[c] = new /\ \A d \in Callers : d # c => call'[d] = call[d]
      /\ call' \in [Callers -> CallState]
  BY <1>1 DEF Becomes, LedgerInv, TypeOK
<1>3. new.at = "awaiting" => Message(c, new) \in Request
  BY <1>1 DEF Becomes, Message, Request, CallState
<1>4. TypeOK'
  <2>1. AuthorityTypeOK'
    BY DEF LedgerInv, TypeOK, authorityVars, AuthorityTypeOK, InState
  <2> QED BY <1>1, <1>2, <1>3, <2>1 DEF Becomes, LedgerInv, TypeOK, RowsMove
<1>5. OwnRequests' /\ OwnCensus'
  BY DEF LedgerInv, OwnRequests, OwnCensus, authorityVars
<1>6. WireIsForRows'
  <2> SUFFICES ASSUME NEW m \in wire'
               PROVE  /\ row'[m.execution].state # "none"
                      /\ m.kind # "acquire" => row'[m.execution].state \in {"releasing", "released"}
    BY DEF WireIsForRows, Known, GivenUp
  <2>1. CASE m \in wire
    <3>1. m.execution \in Executions
      BY <2>1 DEF LedgerInv, TypeOK, Request
    <3> QED BY <2>1, <3>1, RowsGrow DEF LedgerInv, Requests, WireIsForRows
  <2>2. CASE m \notin wire
    BY <1>1, <2>2 DEF Becomes, Message
  <2> QED BY <2>1, <2>2
<1>7. CallsAreForRows'
  <2> SUFFICES ASSUME NEW d \in Callers
               PROVE  /\ call'[d].at \in {"awaiting", "answered"} =>
                           /\ call'[d].execution \in Executions /\ row'[call'[d].execution].state # "none"
                           /\ call'[d].kind # "acquire" =>
                                row'[call'[d].execution].state \in {"releasing", "released"}
                      /\ call'[d].at \in {"restart", "granted"} => call'[d].execution \in Executions
                      /\ \A r \in call'[d].todo : row'[r.execution].state \in {"releasing", "released"}
                      /\ call'[d].then = "restart" => call'[d].execution \in Executions
    BY DEF CallsAreForRows, Known, GivenUp
  <2>1. CASE d = c
    BY <1>1, <1>2, <2>1 DEF Becomes
  <2>2. CASE d # c
    <3>1. \A r \in call[d].todo : r.execution \in Executions
      BY DEF LedgerInv, TypeOK, CallState, Snapshot
    <3> QED BY <1>2, <2>2, <3>1, RowsGrow DEF LedgerInv, Requests, CallsAreForRows
  <2> QED BY <2>1, <2>2
<1>8. WireIsAwaited'
  <2> SUFFICES ASSUME NEW m \in wire', m.caller # None
               PROVE  /\ call'[m.caller].at = "awaiting"
                      /\ call'[m.caller].kind = m.kind /\ call'[m.caller].execution = m.execution
                      /\ call'[m.caller].lease = m.lease
    BY DEF WireIsAwaited
  <2>1. CASE m \in wire
    <3>1. m.caller \in Callers /\ call[m.caller].at = "awaiting"
      BY <2>1 DEF LedgerInv, TypeOK, Request, Requests, WireIsAwaited
    <3>2. m.caller # c
      BY <3>1 DEF CallMoves
    <3> QED BY <1>2, <2>1, <3>1, <3>2 DEF LedgerInv, Requests, WireIsAwaited
  <2>2. CASE m \notin wire
    BY <1>1, <1>2, <2>2 DEF Becomes, Message
  <2> QED BY <2>1, <2>2
<1>9. AnswersHold'
  BY <1>1, <1>2, AnswersKept DEF Becomes
<1> QED BY <1>4, <1>5, <1>6, <1>7, <1>8, <1>9, CustodyKept DEF LedgerInv, Requests

-----------------------------------------------------------------------------
(* What the operations of the ledger do to their caller.                   *)

LEMMA SendMoves ==
  ASSUME NEW c \in Callers, call[c].at # "awaiting",
         NEW kind \in {"acquire", "release", "inspect", "withdraw"}, NEW e \in Executions,
         NEW lease \in Leases \cup {None}, NEW todo \in SUBSET Snapshot, NEW then \in {"return", "restart"},
         Send(c, kind, e, lease, todo, then),
         row'[e].state # "none", kind # "acquire" => row'[e].state \in {"releasing", "released"},
         \A r \in todo : row'[r.execution].state \in {"releasing", "released"}
  PROVE  CallMoves(c)
<1> DEFINE new == [at |-> "awaiting", kind |-> kind, execution |-> e, lease |-> lease,
                   todo |-> todo, then |-> then, answer |-> None]
<1>1. new \in CallState
  BY DEF CallState
<1>2. call' = [call EXCEPT ![c] = new] /\ wire' = wire \cup {Message(c, new)}
  BY DEF Send, Message
<1> QED BY <1>1, <1>2 DEF CallMoves, Becomes

LEMMA BecomeMoves ==
  ASSUME NEW c \in Callers, call[c].at # "awaiting",
         NEW place \in {"idle", "restart", "granted"}, NEW e \in Executions \cup {None},
         Become(c, At(place, e)), place # "idle" => e \in Executions
  PROVE  CallMoves(c)
<1>1. At(place, e) \in CallState
  BY DEF CallState, At
<1>2. call' = [call EXCEPT ![c] = At(place, e)] /\ wire' = wire
  BY DEF Become
<1>3. At(place, e).at = place /\ At(place, e).todo = {} /\ At(place, e).then = "return"
      /\ At(place, e).execution = e
  BY DEF At
<1> QED BY <1>1, <1>2, <1>3 DEF CallMoves, Becomes

LEMMA FlushMoves ==
  ASSUME NEW c \in Callers, call[c].at # "awaiting",
         NEW todo \in SUBSET Snapshot, NEW then \in {"return", "restart"}, NEW e,
         Flush(c, todo, then, e), then = "restart" => e \in Executions,
         \A r \in todo : row'[r.execution].state \in {"releasing", "released"}
  PROVE  CallMoves(c)
<1>1. CASE todo = {} /\ then = "restart" /\ Become(c, At("restart", e))
  BY <1>1, BecomeMoves
<1>2. CASE Become(c, At("idle", None))
  BY <1>2, BecomeMoves
<1>3. ASSUME NEW r \in todo, Send(c, IF r.lease = None THEN "inspect" ELSE "release",
                                  r.execution, r.lease, todo \ {r}, then)
      PROVE  CallMoves(c)
  <2>1. r.execution \in Executions /\ r.lease \in Leases \cup {None}
    BY DEF Snapshot
  <2>2. row'[r.execution].state \in {"releasing", "released"}
    OBVIOUS
  <2> DEFINE kind == IF r.lease = None THEN "inspect" ELSE "release"
  <2>3. kind \in {"acquire", "release", "inspect", "withdraw"} /\ kind # "acquire"
    OBVIOUS
  <2>4. Send(c, kind, r.execution, r.lease, todo \ {r}, then) /\ todo \ {r} \in SUBSET Snapshot
    BY <1>3
  <2> HIDE DEF kind
  <2> QED BY <2>1, <2>2, <2>3, <2>4, SendMoves
<1> QED BY <1>1, <1>2, <1>3 DEF Flush, Idle

\* A flush starts with rows of its table that are releasing.
LEMMA SnapshotRows ==
  ASSUME NEW table \in [Executions -> Row], NEW es \in SUBSET Executions
  PROVE  /\ ReleasingRows(table, es) \in SUBSET Snapshot
         /\ \A r \in ReleasingRows(table, es) : table[r.execution].state = "releasing"
BY DEF ReleasingRows, Snapshot, Row

\* requestRelease moves no row but from requested or held to releasing.
LEMMA ReleasingRowsMove ==
  ASSUME LedgerInv, NEW es \in SUBSET Executions, row' = Releasing(es)
  PROVE  RowsMove
<1> SUFFICES ASSUME NEW e \in Executions
             PROVE  /\ row'[e] \in Row
                    /\ \/ row'[e] = row[e]
                       \/ row[e].state \in {"requested", "held"} /\ row'[e].state = "releasing"
  BY DEF RowsMove, Releasing
<1>1. row[e] \in Row
  BY DEF LedgerInv, TypeOK
<1>2. CASE e \in es /\ HasState(e, {"requested", "held"})
  <2>1. row'[e] = [state |-> "releasing", lease |-> row[e].lease, entered |-> row[e].entered]
    BY <1>2 DEF Releasing
  <2> QED BY <1>1, <1>2, <2>1 DEF Row, HasState
<1>3. CASE ~(e \in es /\ HasState(e, {"requested", "held"}))
  BY <1>1, <1>3 DEF Releasing
<1> QED BY <1>2, <1>3

-----------------------------------------------------------------------------
(* The operations of the ledger.                                           *)

\* A new identity is recorded before it is asked for.
LEMMA NewRowMoves ==
  ASSUME LedgerInv, NEW e \in Executions, HasState(e, {"none"}), NEW entered \in BOOLEAN,
         row' = [row EXCEPT ![e] = [state |-> "requested", lease |-> None, entered |-> entered]]
  PROVE  RowsMove /\ row'[e].state = "requested"
<1>1. [state |-> "requested", lease |-> None, entered |-> entered] \in Row
  BY DEF Row
<1> QED BY <1>1 DEF LedgerInv, TypeOK, RowsMove, HasState

LEMMA UnchangedRowsMove ==
  ASSUME LedgerInv, row' = row
  PROVE  RowsMove
BY DEF LedgerInv, TypeOK, RowsMove

LEMMA AcquireRowInv ==
  ASSUME LedgerInv, NEW c \in Callers, NEW l \in Logicals, call[c].at # "awaiting",
         AcquireRow(c, l), UNCHANGED <<authorityVars, census>>
  PROVE  LedgerInv'
<1>1. CASE \E e \in Current(l) :
             /\ UNCHANGED row
             /\ IF HasState(e, {"releasing"})
                THEN Flush(c, ReleasingRows(row, {e}), "restart", e)
                ELSE Send(c, "acquire", e, None, {}, "return")
  <2>1. PICK e \in Executions :
          /\ HasState(e, {"requested", "held", "releasing"}) /\ UNCHANGED row
          /\ IF HasState(e, {"releasing"})
             THEN Flush(c, ReleasingRows(row, {e}), "restart", e)
             ELSE Send(c, "acquire", e, None, {}, "return")
    BY <1>1 DEF Current
  <2>2. RowsMove
    BY <2>1, UnchangedRowsMove
  <2>3. CASE HasState(e, {"releasing"})
    <3>1. /\ ReleasingRows(row, {e}) \in SUBSET Snapshot
          /\ \A r \in ReleasingRows(row, {e}) : row[r.execution].state = "releasing"
      BY SnapshotRows DEF LedgerInv, TypeOK
    <3>2. CallMoves(c)
      BY <2>1, <2>3, <3>1, FlushMoves
    <3> QED BY <2>2, <3>2, CallerStepInv
  <2>4. CASE ~HasState(e, {"releasing"})
    <3>1. CallMoves(c)
      BY <2>1, <2>4, SendMoves DEF HasState
    <3> QED BY <2>2, <3>1, CallerStepInv
  <2> QED BY <2>3, <2>4
<1>2. ASSUME NEW e \in Unrecorded(l),
             row' = [row EXCEPT ![e] = [state |-> "requested", lease |-> None, entered |-> FALSE]],
             Send(c, "acquire", e, None, {}, "return")
      PROVE  LedgerInv'
  <2>1. e \in Executions /\ HasState(e, {"none"})
    BY DEF Unrecorded
  <2>2. RowsMove /\ row'[e].state = "requested"
    BY <1>2, <2>1, NewRowMoves
  <2>3. CallMoves(c)
    BY <1>2, <2>1, <2>2, SendMoves
  <2> QED BY <2>2, <2>3, CallerStepInv
<1> QED BY <1>1, <1>2 DEF AcquireRow

LEMMA RetainInv ==
  ASSUME LedgerInv, NEW l \in Logicals, Retain(l)
  PROVE  LedgerInv'
<1>1. RowsMove
  <2>1. PICK e \in Executions : /\ HasState(e, {"none"})
          /\ row' = [row EXCEPT ![e] = [state |-> "requested", lease |-> None, entered |-> TRUE]]
    BY DEF Retain, Unrecorded
  <2> QED BY <2>1, NewRowMoves
<1>2. UNCHANGED <<call, wire, authorityVars, census>>
  BY DEF Retain
<1>3. TypeOK' /\ OwnRequests' /\ OwnCensus'
  BY <1>1, <1>2 DEF LedgerInv, TypeOK, RowsMove, OwnRequests, OwnCensus, authorityVars, AuthorityTypeOK,
     InState
<1>4. Requests'
  <2>1. WireIsForRows'
    BY <1>2, RowsGrow, <1>1 DEF LedgerInv, TypeOK, Request, Requests, WireIsForRows, Known, GivenUp
  <2>2. CallsAreForRows'
    BY <1>2, RowsGrow, <1>1 DEF LedgerInv, TypeOK, CallState, Snapshot, Requests, CallsAreForRows, Known, GivenUp
  <2>3. WireIsAwaited'
    BY <1>2 DEF LedgerInv, Requests, WireIsAwaited
  <2> QED BY <2>1, <2>2, <2>3 DEF Requests
<1>5. AnswersHold'
  BY <1>1, <1>2, AnswersKept
<1> QED BY <1>1, <1>2, <1>3, <1>4, <1>5, CustodyKept DEF LedgerInv

LEMMA EnterInv ==
  ASSUME LedgerInv, NEW c \in Callers, Enter(c)
  PROVE  LedgerInv'
<1>1. RowsMove
  <2> SUFFICES ASSUME NEW e \in Executions
               PROVE  /\ row'[e] \in Row
                      /\ \/ row'[e] = row[e]
                         \/ /\ row[e].state \in {"requested", "held"} /\ row'[e].state = "held"
                            /\ request[e].state = "active" /\ request[e].lease = row'[e].lease
    BY DEF Enter, RowsMove
  <2>1. row[e] \in Row
    BY DEF LedgerInv, TypeOK
  <2>2. CASE HasState(e, {"held"}) /\ LogicalOf[e] = LogicalOf[call[c].execution]
    <3>1. row'[e] = [state |-> "held", lease |-> row[e].lease, entered |-> TRUE]
      BY <2>2 DEF Enter
    <3> QED BY <2>1, <2>2, <3>1 DEF Row, HasState, LedgerInv, Custody, HeldIsActive
  <2>3. CASE ~(HasState(e, {"held"}) /\ LogicalOf[e] = LogicalOf[call[c].execution])
    BY <2>1, <2>3 DEF Enter
  <2> QED BY <2>2, <2>3
<1>2. CallMoves(c)
  BY BecomeMoves DEF Enter, Idle
<1> QED BY <1>1, <1>2, CallerStepInv DEF Enter

\* Giving up rows, and flushing every row that is given up.
LEMMA GiveUpInv ==
  ASSUME LedgerInv, NEW c \in Callers, call[c].at # "awaiting", NEW es \in SUBSET Executions, NEW e,
         row' = Releasing(es), Flush(c, ReleasingRows(Releasing(es), Executions), "return", e),
         UNCHANGED <<authorityVars, census>>
  PROVE  LedgerInv'
<1>1. RowsMove
  BY ReleasingRowsMove
<1>2. Releasing(es) \in [Executions -> Row]
  BY <1>1 DEF RowsMove
<1>3. CallMoves(c)
  BY <1>2, SnapshotRows, FlushMoves
<1> QED BY <1>1, <1>3, CallerStepInv

LEMMA ReleaseUnenteredInv ==
  ASSUME LedgerInv, NEW c \in Callers, ReleaseUnentered(c)
  PROVE  LedgerInv'
<1> DEFINE es == {x \in Executions : LogicalOf[x] = LogicalOf[call[c].execution] /\ ~row[x].entered}
<1>1. /\ row' = Releasing(es) /\ call[c].at # "awaiting"
      /\ Flush(c, ReleasingRows(Releasing(es), Executions), "return", call[c].execution)
      /\ UNCHANGED <<authorityVars, census>>
  BY DEF ReleaseUnentered
<1>2. es \in SUBSET Executions
  OBVIOUS
<1> HIDE DEF es
<1> QED BY <1>1, <1>2, GiveUpInv

LEMMA ReleaseAllInv ==
  ASSUME LedgerInv, NEW c \in Callers, NEW ls, ReleaseAll(c, ls)
  PROVE  LedgerInv'
<1> DEFINE es == {e \in Executions : LogicalOf[e] \in ls}
<1>1. /\ row' = Releasing(es) /\ call[c].at # "awaiting"
      /\ Flush(c, ReleasingRows(Releasing(es), Executions), "return", None)
      /\ UNCHANGED <<authorityVars, census>>
  BY DEF ReleaseAll
<1>2. es \in SUBSET Executions
  OBVIOUS
<1> HIDE DEF es
<1> QED BY <1>1, <1>2, GiveUpInv

LEMMA BeginAcquireInv ==
  ASSUME LedgerInv, NEW l \in Logicals, BeginAcquire(l)
  PROVE  LedgerInv'
<1>1. Serial[ThreadOf[l]] \in Callers
  BY LedgerAssumption
<1> QED BY <1>1, AcquireRowInv DEF BeginAcquire

LEMMA RestartInv ==
  ASSUME LedgerInv, NEW c \in Callers, Restart(c)
  PROVE  LedgerInv'
<1>1. LogicalOf[call[c].execution] \in Logicals
  BY LedgerAssumption DEF Restart, LedgerInv, Requests, CallsAreForRows
<1> QED BY <1>1, AcquireRowInv DEF Restart

\* Custody granted late for a row that was given up is released, not held.
LEMMA AcquireAnsweredInv ==
  ASSUME LedgerInv, NEW c \in Callers, AcquireAnswered(c)
  PROVE  LedgerInv'
<1> DEFINE e == call[c].execution
           answer == call[c].answer
           table == LeaseStored(e, answer)
<1>1. /\ call[c].at = "answered" /\ call[c].kind = "acquire"
      /\ UNCHANGED <<authorityVars, census>>
  BY DEF AcquireAnswered
<1>2. e \in Executions /\ Known(e) /\ row[e] \in Row
  BY <1>1 DEF LedgerInv, Requests, CallsAreForRows, TypeOK
<1>3. CASE answer = "refused"
  <2>1. UNCHANGED row /\ Become(c, At("idle", None))
    BY <1>3 DEF AcquireAnswered, Idle
  <2>2. CallMoves(c)
    BY <1>1, <2>1, BecomeMoves
  <2> QED BY <1>1, <2>1, <2>2, UnchangedRowsMove, CallerStepInv
<1>4. CASE answer # "refused"
  <2>1. /\ row' = table
        /\ IF table[e].state = "held"
           THEN Become(c, At("granted", e))
           ELSE Flush(c, ReleasingRows(table, {e}), "return", e)
    BY <1>4 DEF AcquireAnswered
  <2>2. /\ answer \in Leases /\ request[e].lease = answer
        /\ ~GivenUp(e) => request[e].state = "active"
    BY <1>1, <1>4 DEF LedgerInv, AnswersHold
  <2>3. RowsMove
    <3>1. CASE row[e].state = "released"
      BY <2>1, <3>1, UnchangedRowsMove DEF LeaseStored, HasState
    <3>2. CASE row[e].state # "released"
      <4> DEFINE new == [state |-> IF row[e].state = "releasing" THEN "releasing" ELSE "held",
                         lease |-> answer, entered |-> row[e].entered]
      <4>1. row' = [row EXCEPT ![e] = new]
        BY <2>1, <3>2 DEF LeaseStored, HasState
      <4>2. new \in Row /\ new.lease = answer
            /\ new.state = IF row[e].state = "releasing" THEN "releasing" ELSE "held"
        BY <1>2, <2>2 DEF Row
      <4> HIDE DEF new
      <4>3. row' \in [Executions -> Row] /\ row'[e] = new
            /\ \A f \in Executions : f # e => row'[f] = row[f]
        BY <1>2, <4>1, <4>2 DEF LedgerInv, TypeOK
      <4>4. CASE row[e].state = "releasing"
        BY <4>2, <4>3, <4>4 DEF RowsMove
      <4>5. CASE row[e].state \in {"requested", "held"}
        BY <2>2, <4>2, <4>3, <4>5 DEF RowsMove, GivenUp
      <4> QED BY <1>2, <3>2, <4>4, <4>5 DEF Row, Known
    <3> QED BY <3>1, <3>2
  <2>4. CallMoves(c)
    <3>1. CASE table[e].state = "held"
      BY <1>1, <1>2, <2>1, <3>1, BecomeMoves
    <3>2. CASE table[e].state # "held"
      <4>1. table \in [Executions -> Row] /\ {e} \in SUBSET Executions
        BY <1>2, <2>1, <2>3 DEF RowsMove
      <4> HIDE DEF table
      <4>2. /\ ReleasingRows(table, {e}) \in SUBSET Snapshot
            /\ \A r \in ReleasingRows(table, {e}) : row'[r.execution].state = "releasing"
        BY <2>1, <4>1, SnapshotRows
      <4> QED BY <1>1, <1>2, <2>1, <3>2, <4>2, FlushMoves
    <3> QED BY <3>1, <3>2
  <2> QED BY <1>1, <2>3, <2>4, CallerStepInv
<1> QED BY <1>3, <1>4

LEMMA InspectAnsweredInv ==
  ASSUME LedgerInv, NEW c \in Callers, InspectAnswered(c)
  PROVE  LedgerInv'
<1> DEFINE e == call[c].execution
           answer == call[c].answer
<1>1. /\ call[c].at = "answered" /\ call[c].kind = "inspect"
      /\ UNCHANGED <<authorityVars, census>>
  BY DEF InspectAnswered
<1>2. e \in Executions /\ GivenUp(e) /\ row[e] \in Row
  BY <1>1 DEF LedgerInv, Requests, CallsAreForRows, TypeOK
<1>3. /\ call[c].todo \in SUBSET Snapshot /\ call[c].then \in {"return", "restart"}
      /\ \A r \in call[c].todo : r.execution \in Executions /\ GivenUp(r.execution)
  BY DEF LedgerInv, TypeOK, CallState, Requests, CallsAreForRows, Snapshot
<1>4. CASE answer = "inactive"
  <2>1. UNCHANGED row /\ Send(c, "withdraw", e, None, call[c].todo, call[c].then)
    BY <1>4 DEF InspectAnswered
  <2>2. RowsMove
    BY <2>1, UnchangedRowsMove
  <2>3. CallMoves(c)
    BY <1>1, <1>2, <1>3, <2>1, SendMoves DEF GivenUp
  <2> QED BY <1>1, <2>2, <2>3, CallerStepInv
<1>5. CASE answer # "inactive"
  <2>1. /\ row' = [row EXCEPT ![e].lease = answer]
        /\ Send(c, "release", e, answer, call[c].todo, call[c].then)
    BY <1>5 DEF InspectAnswered
  <2>2. answer \in Leases
    BY <1>1, <1>5 DEF LedgerInv, AnswersHold
  <2>3. /\ row'[e].state = row[e].state /\ row'[e] \in Row
        /\ \A f \in Executions : f # e => row'[f] = row[f]
        /\ row' \in [Executions -> Row]
    BY <1>2, <2>1, <2>2 DEF LedgerInv, TypeOK, Row
  <2>4. RowsMove
    BY <1>2, <2>3 DEF RowsMove, GivenUp
  <2>5. \A f \in Executions : GivenUp(f) => row'[f].state \in {"releasing", "released"}
    BY <2>4, RowsGrow
  <2>6. CallMoves(c)
    BY <1>1, <1>2, <1>3, <2>1, <2>2, <2>5, SendMoves
  <2> QED BY <1>1, <2>4, <2>6, CallerStepInv
<1> QED BY <1>4, <1>5

LEMMA ReleaseAnsweredInv ==
  ASSUME LedgerInv, NEW c \in Callers, ReleaseAnswered(c)
  PROVE  LedgerInv'
<1> DEFINE e == call[c].execution
           answer == call[c].answer
<1>1. /\ call[c].at = "answered" /\ call[c].kind \in {"release", "withdraw"}
      /\ UNCHANGED <<authorityVars, census>>
  BY DEF ReleaseAnswered
<1>2. e \in Executions /\ GivenUp(e) /\ row[e] \in Row
  BY <1>1 DEF LedgerInv, Requests, CallsAreForRows, TypeOK
<1>3. /\ call[c].todo \in SUBSET Snapshot /\ call[c].then \in {"return", "restart"}
      /\ \A r \in call[c].todo : r.execution \in Executions /\ GivenUp(r.execution)
  BY DEF LedgerInv, TypeOK, CallState, Requests, CallsAreForRows, Snapshot
<1>4. CASE answer = "refused" /\ UNCHANGED row /\ Become(c, Idle)
  <2>1. CallMoves(c)
    BY <1>1, <1>4, BecomeMoves DEF Idle
  <2> QED BY <1>1, <1>4, <2>1, UnchangedRowsMove, CallerStepInv
<1>5. CASE /\ answer = "done"
           /\ row' = [row EXCEPT ![e].state = IF @ = "releasing" THEN "released" ELSE @]
           /\ Flush(c, call[c].todo, call[c].then, e)
  <2>1. request[e].state = "released" \/ Counted(e)
    BY <1>1, <1>5 DEF LedgerInv, AnswersHold
  <2>2. /\ row'[e].state = "released" /\ row'[e] \in Row
        /\ \A f \in Executions : f # e => row'[f] = row[f]
        /\ row' \in [Executions -> Row]
    BY <1>2, <1>5 DEF LedgerInv, TypeOK, Row, GivenUp
  <2>3. RowsMove
    BY <1>2, <2>1, <2>2 DEF RowsMove, GivenUp
  <2>4. \A f \in Executions : GivenUp(f) => row'[f].state \in {"releasing", "released"}
    BY <2>3, RowsGrow
  <2>5. CallMoves(c)
    BY <1>1, <1>2, <1>3, <1>5, <2>4, FlushMoves
  <2> QED BY <1>1, <2>3, <2>5, CallerStepInv
<1> QED BY <1>4, <1>5 DEF ReleaseAnswered

-----------------------------------------------------------------------------
(* Abandoned requests: they may still arrive, but nobody waits for them.   *)

LEMMA AbandonInv ==
  ASSUME LedgerInv, NEW cs \in SUBSET Callers, Abandon(cs),
         call' = [c \in Callers |-> IF c \in cs THEN Idle ELSE call[c]],
         UNCHANGED <<authorityVars, row, census>>
  PROVE  LedgerInv'
<1>1. \A m \in wire' :
        \/ m \in wire /\ m.caller \notin cs \cup {None}
        \/ /\ m.caller = None /\ m \in Request
           /\ \E n \in wire : n.kind = m.kind /\ n.execution = m.execution
  <2> DEFINE late == {[m EXCEPT !.caller = None] : m \in {m \in wire : m.caller \in cs \cup {None}}}
             kept == {m \in wire : m.caller \notin cs \cup {None}}
  <2>1. wire' \subseteq kept \cup late
    BY DEF Abandon
  <2>2. ASSUME NEW m \in late
        PROVE  /\ m.caller = None /\ m \in Request
               /\ \E n \in wire : n.kind = m.kind /\ n.execution = m.execution
    <3>1. PICK n \in wire : m = [n EXCEPT !.caller = None]
      OBVIOUS
    <3>2. n \in Request
      BY DEF LedgerInv, TypeOK
    <3> QED BY <3>1, <3>2 DEF Request
  <2> QED BY <2>1, <2>2
<1>2. Idle \in CallState /\ Idle.at = "idle" /\ Idle.todo = {} /\ Idle.then = "return"
  BY DEF Idle, At, CallState
<1>3. \A c \in Callers : call'[c] = (IF c \in cs THEN Idle ELSE call[c])
  OBVIOUS
<1>4. RowsMove
  BY UnchangedRowsMove
<1>5. TypeOK'
  <2>1. AuthorityTypeOK' /\ row' \in [Executions -> Row]
    BY DEF LedgerInv, TypeOK, authorityVars, AuthorityTypeOK, InState
  <2>2. call' \in [Callers -> CallState]
    BY <1>2 DEF LedgerInv, TypeOK
  <2>3. wire' \subseteq Request
    BY <1>1 DEF LedgerInv, TypeOK
  <2> QED BY <2>1, <2>2, <2>3 DEF LedgerInv, TypeOK
<1>6. OwnRequests' /\ OwnCensus'
  BY DEF LedgerInv, OwnRequests, OwnCensus, authorityVars
<1>7. WireIsForRows'
  BY <1>1 DEF LedgerInv, Requests, WireIsForRows, Known, GivenUp
<1>8. CallsAreForRows'
  BY <1>2, <1>3 DEF LedgerInv, Requests, CallsAreForRows, Known, GivenUp
<1>9. WireIsAwaited'
  <2> SUFFICES ASSUME NEW m \in wire', m.caller # None
               PROVE  /\ call'[m.caller].at = "awaiting"
                      /\ call'[m.caller].kind = m.kind /\ call'[m.caller].execution = m.execution
                      /\ call'[m.caller].lease = m.lease
    BY DEF WireIsAwaited
  <2>1. m \in wire /\ m.caller \notin cs
    BY <1>1
  <2>2. m.caller \in Callers
    BY <2>1 DEF LedgerInv, TypeOK, Request
  <2> QED BY <1>3, <2>1, <2>2 DEF LedgerInv, Requests, WireIsAwaited
<1>10. AnswersHold'
  BY <1>2, <1>3, <1>4, AnswersKept
<1> QED BY <1>4, <1>5, <1>6, <1>7, <1>8, <1>9, <1>10, CustodyKept DEF LedgerInv, Requests

LEMMA TimeOutInv ==
  ASSUME LedgerInv, NEW c \in Callers, TimeOut(c)
  PROVE  LedgerInv'
<1>1. call' = [d \in Callers |-> IF d \in {c} THEN Idle ELSE call[d]]
  BY DEF TimeOut, LedgerInv, TypeOK
<1> QED BY <1>1, AbandonInv DEF TimeOut

LEMMA CrashInv ==
  ASSUME LedgerInv, Crash
  PROVE  LedgerInv'
<1>1. call' = [d \in Callers |-> IF d \in Callers THEN Idle ELSE call[d]]
  BY DEF Crash
<1> QED BY <1>1, AbandonInv DEF Crash

-----------------------------------------------------------------------------
(* A request reaches the authority.                                        *)

\* The row a handler writes belongs to the owner and the agent of the request.
LEMMA RowOfType ==
  ASSUME LedgerInv, NEW e \in Executions
  PROVE  /\ RowOf(Me, Agent(e), e) \in RequestRow
         /\ RowOf(Me, Agent(e), e).owner = Me
         /\ RowOf(Me, Agent(e), e).agent = Agent(e)
         /\ RowOf(Me, Agent(e), e).lease = request[e].lease
         /\ Me # None /\ Agent(e) # None
         /\ request[e].state # "absent" => RowOf(Me, Agent(e), e) = request[e]
         /\ request[e].state = "absent" => RowOf(Me, Agent(e), e).state = "queued"
<1>1. Me \in Owners /\ Agent(e) \in Agents /\ Me # None /\ Agent(e) # None
  BY LedgerAssumption, NoneAssumption, AnswerAssumption DEF Agent
<1>2. /\ request[e] \in RequestRow
      /\ request[e].state = "absent" => request[e].lease = None
      /\ request[e].state # "absent" => request[e].owner = Me /\ request[e].agent = Agent(e)
  BY DEF LedgerInv, TypeOK, AuthorityTypeOK, InState, OwnRequests
<1>3. CASE request[e].state = "absent"
  BY <1>1, <1>2, <1>3 DEF RowOf, RequestRow, InState
<1>4. CASE request[e].state # "absent"
  BY <1>1, <1>2, <1>4 DEF RowOf, InState
<1> QED BY <1>3, <1>4

LEMMA PutRow ==
  ASSUME LedgerInv, NEW e \in Executions, NEW new \in RequestRow, Put(e, new)
  PROVE  /\ request'[e] = new
         /\ \A f \in Executions : f # e => request'[f] = request[f]
         /\ request' \in [Executions -> RequestRow]
         /\ initialized' = initialized
BY DEF LedgerInv, TypeOK, AuthorityTypeOK, Put

\* What a request changes at the authority: custody is given only to an
\* acquire, and taken back only by a withdrawal or a release.
Served(m) ==
  LET e == m.execution IN
  /\ initialized' = initialized
  /\ request' \in [Executions -> RequestRow]
  /\ \A f \in Executions : f # e => request'[f] = request[f]
  /\ receipts' \subseteq Receipt
  /\ \/ request'[e] = request[e]
     \/ /\ request'[e].owner = Me /\ request'[e].agent = Agent(e)
        /\ \/ /\ m.kind = "acquire" /\ request[e].state \in {"absent", "queued"}
              /\ \/ request'[e].state = "queued" /\ request'[e].lease = None
                 \/ request'[e].state = "active" /\ request'[e].lease \in Leases /\ initialized
           \/ /\ m.kind # "acquire" /\ request'[e].state = "released"
              /\ request'[e].lease = request[e].lease

LEMMA HandleServes ==
  ASSUME LedgerInv, NEW m \in Request, Handle(m)
  PROVE  Served(m)
<1> DEFINE e == m.execution
           a == Agent(e)
<1>1. /\ e \in Executions /\ m.kind \in {"acquire", "release", "inspect", "withdraw"}
      /\ a \in Agents /\ Me \in Owners
  BY LedgerAssumption DEF Request, Agent
<1>2. /\ request \in [Executions -> RequestRow] /\ receipts \subseteq Receipt
      /\ request[e].state \in {"absent", "queued"} => request[e].lease = None
      /\ request[e].state = "active" => request[e].lease \in Leases
      /\ request[e] \in RequestRow
  BY <1>1 DEF LedgerInv, TypeOK, AuthorityTypeOK, InState, RequestRow
<1>3. CASE UNCHANGED authorityVars
  BY <1>1, <1>2, <1>3 DEF Served, authorityVars
<1>4. CASE Reissued(Me, a, e)
  <2>1. UNCHANGED <<request, initialized>> /\ request[e].lease \in Leases
    BY <1>2, <1>4 DEF Reissued, InState
  <2>2. receipts' \subseteq Receipt
    BY <1>1, <1>2, <1>4, <2>1 DEF Reissued, Answer, Receipt
  <2> QED BY <1>1, <1>2, <2>1, <2>2 DEF Served
<1>5. CASE m.kind = "acquire" /\ Granted(Me, a, e)
  <2>1. PICK lease \in Unused :
          /\ Put(e, [RowOf(Me, a, e) EXCEPT !.state = "active", !.lease = lease])
          /\ Answer(Me, a, e, lease)
    BY <1>5 DEF Granted
  <2> DEFINE new == [RowOf(Me, a, e) EXCEPT !.state = "active", !.lease = lease]
  <2>2. lease \in Leases
    BY <2>1 DEF Unused
  <2>3. request[e].state \in {"absent", "queued"} /\ initialized
    BY <1>5 DEF Granted, Admissible
  <2>4. new \in RequestRow /\ new.state = "active" /\ new.lease = lease
        /\ new.owner = Me /\ new.agent = a
    <3>1. /\ RowOf(Me, a, e) \in RequestRow
          /\ RowOf(Me, a, e).owner = Me /\ RowOf(Me, a, e).agent = a
      BY <1>1, RowOfType
    <3> QED BY <2>2, <3>1 DEF RequestRow
  <2> HIDE DEF new
  <2>5. /\ request'[e] = new /\ \A f \in Executions : f # e => request'[f] = request[f]
        /\ request' \in [Executions -> RequestRow] /\ initialized' = initialized
    BY <1>1, <2>1, <2>4, PutRow DEF new
  <2>6. receipts' \subseteq Receipt
    BY <1>1, <1>2, <2>1, <2>2 DEF Answer, Receipt
  <2> QED BY <1>5, <2>2, <2>3, <2>4, <2>5, <2>6 DEF Served
<1>6. CASE m.kind = "acquire" /\ Queued(Me, a, e)
  <2>1. /\ Put(e, RowOf(Me, a, e)) /\ UNCHANGED receipts
        /\ request[e].state = "absent"
    BY <1>6 DEF Queued, Queueable, InState
  <2> QED BY <1>1, <1>2, <1>6, <2>1, RowOfType, PutRow DEF Served
<1>7. CASE m.kind = "withdraw" /\ Tombstone(Me, a, e)
  <2> DEFINE new == [RowOf(Me, a, e) EXCEPT !.state = "released"]
  <2>1. Put(e, new) /\ UNCHANGED receipts
    BY <1>7 DEF Tombstone
  <2>2. new \in RequestRow /\ new.state = "released" /\ new.lease = request[e].lease
        /\ new.owner = Me /\ new.agent = a
    BY <1>1, RowOfType DEF RequestRow
  <2> HIDE DEF new
  <2> QED BY <1>1, <1>2, <1>7, <2>1, <2>2, PutRow DEF Served
<1>8. CASE m.kind = "release" /\ Settled(Me, a, e, m.lease)
  <2> DEFINE new == [request[e] EXCEPT !.state = "released"]
  <2>1. Put(e, new) /\ UNCHANGED receipts /\ request[e].owner = Me /\ request[e].agent = a
    BY <1>8 DEF Settled, Receipted
  <2>2. new \in RequestRow /\ new.state = "released" /\ new.lease = request[e].lease
        /\ new.owner = Me /\ new.agent = a
    BY <1>2, <2>1 DEF RequestRow
  <2> HIDE DEF new
  <2> QED BY <1>1, <1>2, <1>8, <2>1, <2>2, PutRow DEF Served
<1>9. CASE m.kind = "acquire"
  BY <1>3, <1>4, <1>5, <1>6, <1>9 DEF Handle, Acquire, AcquireRefused,
     authorityVars, authorityVars
<1>10. CASE m.kind = "inspect"
  BY <1>3, <1>4, <1>10 DEF Handle, Inspect, authorityVars, authorityVars
<1>11. CASE m.kind = "withdraw"
  BY <1>3, <1>7, <1>11 DEF Handle, Withdraw, WithdrawUnchanged,
     authorityVars, authorityVars
<1>12. CASE m.kind = "release"
  BY <1>3, <1>8, <1>12 DEF Handle, Release, ReleaseRefused,
     authorityVars, authorityVars
<1> QED BY <1>1, <1>9, <1>10, <1>11, <1>12

\* Whatever is served leaves the custody the owner believes in alone.
LEMMA ServedKeeps ==
  ASSUME LedgerInv, NEW m \in wire, Served(m), UNCHANGED <<row, census>>
  PROVE  /\ AuthorityTypeOK' /\ OwnRequests' /\ Custody'
         /\ \A e \in Executions :
              /\ request[e].state = "released" => request'[e].state = "released"
              /\ request[e].lease # None => request'[e].lease = request[e].lease
              /\ request[e].state = "active" /\ ~GivenUp(e) => request'[e].state = "active"
<1>1. /\ m \in Request /\ m.execution \in Executions
      /\ Known(m.execution) /\ (m.kind # "acquire" => GivenUp(m.execution))
  BY DEF LedgerInv, TypeOK, Request, Requests, WireIsForRows
<1>2. /\ request \in [Executions -> RequestRow] /\ initialized \in BOOLEAN
      /\ \A e \in Executions :
           /\ request[e].state = "absent" <=> request[e].owner = None
           /\ request[e].state = "absent" <=> request[e].agent = None
           /\ request[e].state = "active" => request[e].lease # None
           /\ request[e].state \in {"absent", "queued"} => request[e].lease = None
           /\ request[e].lease # None => initialized
  BY DEF LedgerInv, TypeOK, AuthorityTypeOK, InState
<1>3. Me # None /\ \A e \in Executions : Agent(e) # None
  BY LedgerAssumption, NoneAssumption, AnswerAssumption DEF Agent
<1>4. None \notin Leases
  BY NoneAssumption, AnswerAssumption
<1>5. \A e \in Executions :
        \/ request'[e] = request[e]
        \/ /\ e = m.execution /\ request'[e].owner = Me /\ request'[e].agent = Agent(e)
           /\ \/ /\ m.kind = "acquire" /\ request[e].state \in {"absent", "queued"}
                 /\ \/ request'[e].state = "queued" /\ request'[e].lease = None
                    \/ request'[e].state = "active" /\ request'[e].lease \in Leases /\ initialized
              \/ /\ m.kind # "acquire" /\ request'[e].state = "released"
                 /\ request'[e].lease = request[e].lease
  BY <1>1 DEF Served
<1>6. AuthorityTypeOK'
  BY <1>2, <1>3, <1>4, <1>5 DEF Served, AuthorityTypeOK, InState
<1>7. OwnRequests'
  BY <1>5 DEF LedgerInv, OwnRequests
<1>8. HeldIsActive'
  BY <1>1, <1>5 DEF LedgerInv, Custody, HeldIsActive, HasState, GivenUp
<1>9. ReleasedIsFenced'
  BY <1>1, <1>5 DEF LedgerInv, Custody, ReleasedIsFenced, HasState, Counted
<1>10. CustodyRemembered'
  <2> SUFFICES ASSUME NEW e \in Executions, request'[e].state = "active"
               PROVE  row[e].state \in {"requested", "held", "releasing"} \/ Counted(e)
    BY DEF CustodyRemembered, HasState, Counted
  <2>1. CASE request'[e] = request[e]
    BY <2>1 DEF LedgerInv, Custody, CustodyRemembered, HasState
  <2>2. CASE e = m.execution /\ request[e].state \in {"absent", "queued"}
    <3>1. row[e].state # "none" /\ row[e] \in Row
      BY <1>1, <2>2 DEF Known, LedgerInv, TypeOK
    <3>2. row[e].state = "released" => Counted(e)
      BY <2>2 DEF LedgerInv, Custody, ReleasedIsFenced, HasState
    <3> QED BY <3>1, <3>2 DEF Row
  <2> QED BY <1>5, <2>1, <2>2
<1>11. \A e \in Executions :
         /\ request[e].state = "released" => request'[e].state = "released"
         /\ request[e].lease # None => request'[e].lease = request[e].lease
         /\ request[e].state = "active" /\ ~GivenUp(e) => request'[e].state = "active"
  BY <1>1, <1>2, <1>5
<1> QED BY <1>6, <1>7, <1>8, <1>9, <1>10, <1>11 DEF Custody

LEMMA ExecuteInv ==
  ASSUME LedgerInv, NEW m \in wire, Execute(m)
  PROVE  LedgerInv'
<1> DEFINE c == m.caller
<1>1. m \in Request /\ wire' = wire \ {m} /\ UNCHANGED <<row, census>>
  BY DEF LedgerInv, TypeOK, Execute
<1>2. Served(m)
  BY <1>1, HandleServes DEF Execute
<1>3. /\ AuthorityTypeOK' /\ OwnRequests' /\ Custody'
      /\ \A e \in Executions :
           /\ request[e].state = "released" => request'[e].state = "released"
           /\ request[e].lease # None => request'[e].lease = request[e].lease
           /\ request[e].state = "active" /\ ~GivenUp(e) => request'[e].state = "active"
  BY <1>1, <1>2, ServedKeeps
<1>4. OwnCensus' /\ WireIsForRows'
  BY <1>1 DEF LedgerInv, OwnCensus, Requests, WireIsForRows, Known, GivenUp
\* The answers that had arrived before.
<1>5. ASSUME NEW d \in Callers, call[d].at = "answered", NEW e, e = call[d].execution,
             NEW answer, answer = call[d].answer
      PROVE  /\ call[d].kind = "acquire" /\ answer # "refused" =>
                  /\ answer \in Leases /\ request'[e].lease = answer
                  /\ row[e].state \notin {"releasing", "released"} => request'[e].state = "active"
             /\ call[d].kind = "inspect" /\ answer # "inactive" => answer \in Leases
             /\ call[d].kind \in {"release", "withdraw"} /\ answer = "done" =>
                  request'[e].state = "released" \/ Counted(e)
  <2>1. e \in Executions
    BY <1>5 DEF LedgerInv, Requests, CallsAreForRows
  <2>2. /\ call[d].kind = "acquire" /\ answer # "refused" =>
             /\ answer \in Leases /\ request[e].lease = answer
             /\ ~GivenUp(e) => request[e].state = "active"
        /\ call[d].kind = "inspect" /\ answer # "inactive" => answer \in Leases
        /\ call[d].kind \in {"release", "withdraw"} /\ answer = "done" =>
             request[e].state = "released" \/ Counted(e)
    BY <1>5 DEF LedgerInv, AnswersHold
  <2>3. None \notin Leases
    BY NoneAssumption, AnswerAssumption
  <2> QED BY <1>3, <2>1, <2>2, <2>3 DEF GivenUp
<1>6. CASE UNCHANGED call
  <2>1. TypeOK'
    BY <1>1, <1>3, <1>6 DEF LedgerInv, TypeOK
  <2>2. CallsAreForRows' /\ WireIsAwaited'
    BY <1>1, <1>6 DEF LedgerInv, Requests, CallsAreForRows, WireIsAwaited, Known, GivenUp
  <2>3. AnswersHold'
    BY <1>1, <1>5, <1>6 DEF AnswersHold, GivenUp, Counted
  <2> QED BY <1>3, <1>4, <2>1, <2>2, <2>3 DEF LedgerInv, Requests
<1>7. CASE m.caller # None
           /\ call' = [call EXCEPT ![m.caller] = [@ EXCEPT !.at = "answered", !.answer = Answered(m)]]
  <2>1. /\ c \in Callers /\ call[c] \in CallState /\ call[c].at = "awaiting"
        /\ call[c].kind = m.kind /\ call[c].execution = m.execution /\ call[c].lease = m.lease
    BY <1>1, <1>7 DEF LedgerInv, TypeOK, Request, Requests, WireIsAwaited
  <2> DEFINE new == [call[c] EXCEPT !.at = "answered", !.answer = Answered(m)]
  <2>2. Answered(m) \in Leases \cup {None, "refused", "inactive", "done"}
    BY <1>1, <1>2 DEF Answered, Served, RequestRow, Request
  <2>3. /\ new \in CallState /\ new.at = "answered" /\ new.answer = Answered(m)
        /\ new.kind = m.kind /\ new.execution = m.execution
        /\ new.todo = call[c].todo /\ new.then = call[c].then
    BY <2>1, <2>2 DEF CallState
  <2>4. call' = [call EXCEPT ![c] = new]
    BY <1>7
  <2> HIDE DEF new
  <2>5. /\ call' \in [Callers -> CallState] /\ call'[c] = new
        /\ \A d \in Callers : d # c => call'[d] = call[d]
    BY <2>1, <2>3, <2>4 DEF LedgerInv, TypeOK
  <2>6. TypeOK'
    BY <1>1, <1>3, <2>5 DEF LedgerInv, TypeOK
  <2>7. CallsAreForRows'
    BY <1>1, <2>1, <2>3, <2>5 DEF LedgerInv, Requests, CallsAreForRows, Known, GivenUp
  <2>8. WireIsAwaited'
    <3> SUFFICES ASSUME NEW n \in wire', n.caller # None
                 PROVE  /\ call'[n.caller].at = "awaiting"
                        /\ call'[n.caller].kind = n.kind /\ call'[n.caller].execution = n.execution
                        /\ call'[n.caller].lease = n.lease
      BY DEF WireIsAwaited
    <3>1. n \in Request /\ n \in wire /\ n # m /\ n.caller \in Callers
      BY <1>1 DEF LedgerInv, TypeOK, Request
    <3>2. /\ call[n.caller].at = "awaiting" /\ call[n.caller].kind = n.kind
          /\ call[n.caller].execution = n.execution /\ call[n.caller].lease = n.lease
      BY <3>1 DEF LedgerInv, Requests, WireIsAwaited
    <3>3. n.caller # c
      BY <1>1, <2>1, <3>1, <3>2 DEF Request
    <3> QED BY <2>5, <3>1, <3>2, <3>3
  <2>9. AnswersHold'
    <3>1. ASSUME NEW d \in Callers, call'[d].at = "answered", NEW e, e = call'[d].execution,
                 NEW answer, answer = call'[d].answer
          PROVE  /\ call'[d].kind = "acquire" /\ answer # "refused" =>
                      /\ answer \in Leases /\ request'[e].lease = answer
                      /\ row[e].state \notin {"releasing", "released"} => request'[e].state = "active"
                 /\ call'[d].kind = "inspect" /\ answer # "inactive" => answer \in Leases
                 /\ call'[d].kind \in {"release", "withdraw"} /\ answer = "done" =>
                      request'[e].state = "released" \/ Counted(e)
      <4>1. CASE d # c
        BY <1>5, <2>5, <3>1, <4>1
      <4>2. CASE d = c
        <5>1. e = m.execution /\ answer = Answered(m) /\ call'[d].kind = m.kind
          BY <2>3, <2>5, <3>1, <4>2
        <5>2. e \in Executions /\ request'[e] \in RequestRow
              /\ (request'[e].state = "active" => request'[e].lease \in Leases)
          <6>1. e \in Executions
            BY <1>1, <5>1 DEF Request
          <6> QED BY <1>2, <1>3, <6>1 DEF Served, AuthorityTypeOK, InState, RequestRow
        <5>3. {"refused", "inactive", "done"} \cap Leases = {}
          BY NoneAssumption, AnswerAssumption
        <5> QED BY <1>1, <5>1, <5>2, <5>3 DEF Answered, Request
      <4> QED BY <4>1, <4>2
    <3> QED BY <1>1, <3>1 DEF AnswersHold, GivenUp, Counted
  <2> QED BY <1>3, <1>4, <2>6, <2>7, <2>8, <2>9 DEF LedgerInv, Requests
<1> QED BY <1>6, <1>7 DEF Execute

-----------------------------------------------------------------------------
(* The cutover.                                                            *)

LEMMA CollectCensusInv ==
  ASSUME LedgerInv, CollectCensus
  PROVE  LedgerInv'
<1>1. /\ census = None /\ UNCHANGED <<request, initialized, receipts, row, call, wire>>
      /\ census' = {[execution |-> e, agent |-> Agent(e), owner |-> Me] : e \in Uncertain}
  BY DEF CollectCensus, authorityVars, ownerVars
<1>2. \A x \in census' : x \in CensusEntry /\ x.owner = Me /\ x.agent = Agent(x.execution)
  BY <1>1, LedgerAssumption DEF CensusEntry, Agent, Uncertain
<1>3. TypeOK' /\ OwnCensus'
  BY <1>1, <1>2 DEF LedgerInv, TypeOK, OwnCensus, AuthorityTypeOK, InState
<1>4. OwnRequests' /\ Requests'
  BY <1>1 DEF LedgerInv, OwnRequests, Requests, WireIsForRows, CallsAreForRows, WireIsAwaited, Known, GivenUp
<1>5. \A e \in Executions : ~Counted(e)
  BY <1>1 DEF Counted
<1>6. AnswersHold'
  BY <1>1, <1>5 DEF LedgerInv, Requests, CallsAreForRows, AnswersHold, GivenUp, Counted
<1>7. Custody'
  BY <1>1, <1>5 DEF LedgerInv, Custody, HeldIsActive, ReleasedIsFenced, CustodyRemembered, HasState, Counted
<1> QED BY <1>3, <1>4, <1>6, <1>7 DEF LedgerInv

\* It meets no lease, so nothing the owner believes in can be overwritten.
LEMMA CutoverInv ==
  ASSUME LedgerInv, Cutover
  PROVE  LedgerInv'
<1> DEFINE covered == Covered(census)
<1>1. /\ census # None /\ ~initialized /\ initialized' /\ UNCHANGED <<receipts, row, call, wire, census>>
      /\ initialized' \in BOOLEAN
  BY DEF Cutover, Initialize, ownerVars
<1>2. PICK lease \in [covered -> Unused] :
        request' = [e \in Executions |->
             IF e \in covered THEN Activated(EntryOf(census, e), lease[e])
                              ELSE request[e]]
  BY DEF Cutover, Initialize
<1>3. \A e \in Executions : request[e].lease = None /\ request[e].state # "active"
  BY <1>1 DEF LedgerInv, TypeOK, AuthorityTypeOK, InState
<1>4. ASSUME NEW e \in covered
      PROVE  /\ e \in Executions /\ Counted(e)
             /\ request'[e] \in RequestRow /\ request'[e].state = "active"
             /\ request'[e].owner = Me /\ request'[e].agent = Agent(e) /\ request'[e].lease \in Leases
  <2> DEFINE x == EntryOf(census, e)
  <2>1. PICK y \in census : y.execution = e
    BY DEF Covered
  <2>2. x \in census /\ x.execution = e
    BY <2>1 DEF EntryOf
  <2>3. e \in Executions /\ x.owner = Me /\ x.agent = Agent(e) /\ Counted(e)
    BY <1>1, <2>2 DEF LedgerInv, TypeOK, OwnCensus, CensusEntry, Counted
  <2> HIDE DEF x
  <2>4. lease[e] \in Leases
    BY DEF Unused
  <2>5. request'[e] = [RowOf(Me, Agent(e), e) EXCEPT !.state = "active", !.lease = lease[e]]
    BY <1>2, <2>2, <2>3 DEF Activated, x
  <2>6. /\ RowOf(Me, Agent(e), e) \in RequestRow
        /\ RowOf(Me, Agent(e), e).owner = Me
        /\ RowOf(Me, Agent(e), e).agent = Agent(e)
    BY <2>3, RowOfType
  <2> QED BY <2>3, <2>4, <2>5, <2>6 DEF RequestRow
<1>5. \A e \in Executions : e \notin covered => request'[e] = request[e]
  BY <1>2
<1>6. Me # None /\ None \notin Leases /\ \A e \in Executions : Agent(e) # None
  BY LedgerAssumption, NoneAssumption, AnswerAssumption DEF Agent
<1>7. TypeOK'
  <2>1. request' \in [Executions -> RequestRow]
    BY <1>2, <1>4, <1>5 DEF LedgerInv, TypeOK, AuthorityTypeOK
  <2>2. AuthorityTypeOK'
    BY <2>1, <1>1, <1>4, <1>5, <1>6 DEF LedgerInv, TypeOK, AuthorityTypeOK, InState
  <2> QED BY <1>1, <2>2 DEF LedgerInv, TypeOK
<1>8. OwnRequests' /\ OwnCensus'
  BY <1>1, <1>4, <1>5 DEF LedgerInv, OwnRequests, OwnCensus
<1>9. Requests'
  BY <1>1 DEF LedgerInv, Requests, WireIsForRows, CallsAreForRows, WireIsAwaited, Known, GivenUp
<1>10. AnswersHold'
  <2> SUFFICES ASSUME NEW c \in Callers, call[c].at = "answered", NEW e, e = call[c].execution,
                      NEW answer, answer = call[c].answer
               PROVE  /\ ~(call[c].kind = "acquire" /\ answer # "refused")
                      /\ call[c].kind = "inspect" /\ answer # "inactive" => answer \in Leases
                      /\ call[c].kind \in {"release", "withdraw"} /\ answer = "done" =>
                           request'[e].state = "released" \/ Counted(e)
    BY <1>1 DEF AnswersHold, Counted
  <2>1. e \in Executions
    BY DEF LedgerInv, Requests, CallsAreForRows
  <2>2. /\ call[c].kind = "acquire" /\ answer # "refused" =>
             answer \in Leases /\ request[e].lease = answer
        /\ call[c].kind = "inspect" /\ answer # "inactive" => answer \in Leases
        /\ call[c].kind \in {"release", "withdraw"} /\ answer = "done" =>
             request[e].state = "released" \/ Counted(e)
    BY DEF LedgerInv, AnswersHold
  <2> QED BY <1>3, <1>4, <1>5, <1>6, <2>1, <2>2
<1>11. HeldIsActive'
  BY <1>1, <1>3 DEF LedgerInv, Custody, HeldIsActive, HasState
<1>12. ReleasedIsFenced' /\ CustodyRemembered'
  BY <1>1, <1>3, <1>4, <1>5 DEF LedgerInv, Custody, ReleasedIsFenced, CustodyRemembered, HasState, Counted
<1> QED BY <1>7, <1>8, <1>9, <1>10, <1>11, <1>12 DEF LedgerInv, Custody

-----------------------------------------------------------------------------
LEMMA InitInv == Init => LedgerInv
<1> SUFFICES ASSUME Init PROVE LedgerInv
  OBVIOUS
<1>1. /\ \A e \in Executions : request[e] = Absent /\ row[e] = NoRow
      /\ request \in [Executions -> {Absent}] /\ row \in [Executions -> {NoRow}]
      /\ initialized = FALSE /\ receipts = {} /\ wire = {} /\ census = None
      /\ \A c \in Callers : call[c] = Idle
      /\ call \in [Callers -> {Idle}]
  BY DEF Init, AuthorityInit
<1>2. /\ Absent \in RequestRow /\ NoRow \in Row
      /\ Absent.state = "absent" /\ Absent.owner = None
      /\ Absent.agent = None /\ Absent.lease = None /\ NoRow.state = "none"
  BY DEF Absent, RequestRow, NoRow, Row
<1>3. Idle \in CallState /\ Idle.at = "idle" /\ Idle.todo = {} /\ Idle.then = "return"
  BY DEF Idle, At, CallState
<1>4. TypeOK
  BY <1>1, <1>2, <1>3 DEF TypeOK, AuthorityTypeOK, InState
<1>5. OwnRequests /\ OwnCensus /\ Requests /\ AnswersHold
  BY <1>1, <1>2, <1>3 DEF OwnRequests, OwnCensus, Requests, WireIsForRows, CallsAreForRows,
     WireIsAwaited, AnswersHold
<1>6. Custody
  BY <1>1, <1>2 DEF Custody, HeldIsActive, ReleasedIsFenced, CustodyRemembered, HasState
<1> QED BY <1>4, <1>5, <1>6 DEF LedgerInv

LEMMA NextInv == LedgerInv /\ [Next]_vars => LedgerInv'
<1> SUFFICES ASSUME LedgerInv, [Next]_vars PROVE LedgerInv'
  OBVIOUS
<1>1. CASE UNCHANGED vars
  BY <1>1 DEF vars, authorityVars, ownerVars, LedgerInv, TypeOK, AuthorityTypeOK, InState,
     OwnRequests, OwnCensus, Requests, WireIsForRows, CallsAreForRows, WireIsAwaited, AnswersHold,
     Known, GivenUp, Counted, Custody, HeldIsActive, ReleasedIsFenced, CustodyRemembered, HasState
<1>2. ASSUME NEW l \in Logicals, Retain(l) \/ BeginAcquire(l) PROVE LedgerInv'
  BY <1>2, RetainInv, BeginAcquireInv
<1>3. ASSUME NEW c \in Callers, CallerStep(c) PROVE LedgerInv'
  BY <1>3, RestartInv, EnterInv, ReleaseUnenteredInv, AcquireAnsweredInv, InspectAnsweredInv,
     ReleaseAnsweredInv DEF CallerStep
<1>4. ASSUME NEW c \in Callers, BeginRelease(c) PROVE LedgerInv'
  BY <1>4, ReleaseAllInv DEF BeginRelease
<1>5. ASSUME NEW c \in Callers, TimeOut(c) PROVE LedgerInv'
  BY <1>5, TimeOutInv
<1>6. ASSUME NEW a \in Agents, Reconcile(a) PROVE LedgerInv'
  BY <1>6, ReleaseAllInv, LedgerAssumption DEF Reconcile
<1>7. ASSUME NEW m \in wire, Execute(m) PROVE LedgerInv'
  BY <1>7, ExecuteInv
<1>8. CASE Crash \/ CollectCensus \/ Cutover
  BY <1>8, CrashInv, CollectCensusInv, CutoverInv
<1> QED BY <1>1, <1>2, <1>3, <1>4, <1>5, <1>6, <1>7, <1>8 DEF Next

LEMMA Invariance == Spec => []LedgerInv
BY InitInv, NextInv, PTL DEF Spec

-----------------------------------------------------------------------------
\* thread_capacity, the operations in progress and the requests on their way
\* always have the shapes the statements of the ledger allow.
THEOREM TypeCorrect == Spec => []TypeOK
BY Invariance, PTL DEF LedgerInv

\* A held row has its lease active at the authority: no late answer, no lost
\* answer and no halt makes the owner run without custody.
THEOREM HeldCustody == Spec => []HeldIsActive
BY Invariance, PTL DEF LedgerInv, Custody

\* A row called released is fenced for good, whatever acquire is still on its way.
THEOREM ReleaseFences == Spec => []ReleasedIsFenced
BY Invariance, PTL DEF LedgerInv, Custody

\* No custody leaks: the owner has a row for everything active in its name.
THEOREM CustodyKnown == Spec => []CustodyRemembered
BY Invariance, PTL DEF LedgerInv, Custody

-----------------------------------------------------------------------------
(* The owner's side is one of the authority's users.                       *)

\* What an owner asks is a request of that owner. A release without a lease
\* can only meet a row that never had one, and does what a withdrawal does.
LEMMA HandleIsStep ==
  ASSUME LedgerInv, NEW m \in Request, Handle(m)
  PROVE  AuthorityStep \/ UNCHANGED authorityVars
<1> DEFINE e == m.execution
           a == Agent(e)
<1>1. /\ e \in Executions /\ m.kind \in {"acquire", "release", "inspect", "withdraw"}
      /\ a \in Agents /\ Me \in Owners /\ Me # None /\ m.lease \in Leases \cup {None}
  BY LedgerAssumption, NoneAssumption, AnswerAssumption DEF Request, Agent
<1>2. CASE m.kind = "acquire"
  BY <1>1, <1>2 DEF Handle, AuthorityStep
<1>3. CASE m.kind = "inspect"
  BY <1>1, <1>3 DEF Handle, AuthorityStep
<1>4. CASE m.kind = "withdraw"
  BY <1>1, <1>4 DEF Handle, AuthorityStep
<1>5. CASE m.kind = "release"
  <2>1. Release(Me, a, e, m.lease)
    BY <1>5 DEF Handle
  <2>2. CASE m.lease \in Leases
    BY <1>1, <2>1, <2>2 DEF AuthorityStep
  <2>3. CASE m.lease = None /\ Settled(Me, a, e, None)
    <3>1. /\ request[e].owner = Me /\ request[e].agent = a /\ request[e].lease = None
          /\ Put(e, [request[e] EXCEPT !.state = "released"]) /\ UNCHANGED receipts
      BY <2>3 DEF Settled, Receipted
    <3>2. request[e].state \in {"queued", "released"}
      BY <1>1, <3>1 DEF LedgerInv, TypeOK, AuthorityTypeOK, RequestRow, InState
    <3>3. CASE request[e].state = "queued"
      <4>1. Tombstone(Me, a, e)
        BY <3>1, <3>3 DEF Tombstone, Recorded, RowOf,
           InState
      <4> QED BY <1>1, <4>1 DEF AuthorityStep, Withdraw
    <3>4. CASE request[e].state = "released"
      <4>1. request \in [Executions -> RequestRow]
        BY DEF LedgerInv, TypeOK, AuthorityTypeOK
      <4>2. [request[e] EXCEPT !.state = "released"] = request[e]
        BY <1>1, <3>4, <4>1 DEF RequestRow
      <4> QED BY <1>1, <3>1, <4>1, <4>2 DEF Put, authorityVars
    <3> QED BY <3>2, <3>3, <3>4
  <2>4. CASE ~Settled(Me, a, e, m.lease)
    BY <2>1, <2>4 DEF Release, ReleaseRefused, authorityVars,
       authorityVars
  <2> QED BY <1>1, <2>2, <2>3, <2>4
<1> QED BY <1>1, <1>2, <1>3, <1>4, <1>5

LEMMA LedgerStep ==
  ASSUME LedgerInv, [Next]_vars
  PROVE  AuthorityStep \/ UNCHANGED authorityVars
<1>1. ASSUME NEW m \in wire, Execute(m) PROVE AuthorityStep \/ UNCHANGED authorityVars
  BY <1>1, HandleIsStep DEF LedgerInv, TypeOK, Execute
<1>2. CASE Cutover
  BY <1>2 DEF LedgerInv, TypeOK, Cutover, AuthorityStep
<1>3. ASSUME NEW c \in Callers, CallerStep(c) \/ BeginRelease(c) \/ TimeOut(c)
      PROVE  UNCHANGED authorityVars
  BY <1>3 DEF CallerStep, Restart, Enter, ReleaseUnentered, AcquireAnswered, InspectAnswered,
     ReleaseAnswered, BeginRelease, ReleaseAll, TimeOut
<1>4. ASSUME NEW l \in Logicals, Retain(l) \/ BeginAcquire(l) PROVE UNCHANGED authorityVars
  BY <1>4 DEF Retain, BeginAcquire
<1>5. ASSUME NEW a \in Agents, Reconcile(a) PROVE UNCHANGED authorityVars
  BY <1>5 DEF Reconcile, ReleaseAll
<1>6. CASE Crash \/ CollectCensus \/ UNCHANGED vars
  BY <1>6 DEF Crash, CollectCensus, vars
<1> QED BY <1>1, <1>2, <1>3, <1>4, <1>5, <1>6 DEF Next

LEMMA LedgerAuthorityInv == Spec => []AuthorityInv
<1>1. Init => AuthorityInv
  BY AuthorityInitInv DEF Init
<1>2. LedgerInv /\ AuthorityInv /\ [Next]_vars => AuthorityInv'
  BY LedgerStep, AuthorityStepInv DEF authorityVars, authorityVars
<1> QED BY <1>1, <1>2, Invariance, PTL DEF Spec

\* However the owner's crashes, timeouts and late requests mix with a census
\* taken of its rows, no agent of it has two executions in custody.
THEOREM OwnersExclusion == Spec => []OneActivePerAgent
BY LedgerAuthorityInv, PTL DEF AuthorityInv

\* The owner, its outbox, the network and the authority together keep the
\* abstract promise: custody is exclusive, and an identity is admitted once.
THEOREM OwnersCustody == Spec => KeepsPromise
<1>1. Init => Promise!Init
  BY InitPromise DEF Init
<1>2. LedgerInv /\ AuthorityInv /\ AuthorityInv' /\ [Next]_vars
        => [Promise!Next]_<<InCustody, Spent>>
  BY LedgerStep, StepPromise DEF authorityVars, authorityVars
<1>3. [Promise!Next]_<<InCustody, Spent>>
        => [Promise!Next]_Promise!custodyVars
  BY DEF Promise!custodyVars, InCustody, Spent
<1> QED BY <1>1, <1>2, <1>3, Invariance, LedgerAuthorityInv, PTL
        DEF Spec, KeepsPromise, Promise!Spec
=============================================================================
