--------------------------- MODULE AccountTransfer ---------------------------
(***************************************************************************)
(* The transfer of one account between hosts (auth/account-transfer.ts and *)
(* the account command in commands.ts). Each host has an auth file and a   *)
(* ledger, written one after the other under the lock of the auth file; a  *)
(* command may die between two writes, and is then run again. The source   *)
(* replaces its credential by an envelope before anything is sent, and     *)
(* forgets the envelope when the destination has answered.                 *)
(*                                                                         *)
(* Commands run again any number of times and reach the destination late:  *)
(* a packet that was sent may be received at any time afterwards, and an   *)
(* answer may reach its source at any time after the reception.            *)
(***************************************************************************)
EXTENDS Naturals, Sequences

CONSTANTS
  Hosts,
  First,         \* the host that has the account at first
  Nowhere,       \* no host
  MaxTransfers,  \* bound: departures
  MaxGrants,     \* bound: refreshes of the credential
  MaxSpent,      \* bound: usage
  MaxCrashes     \* bound: commands that die between two writes

ASSUME TransferAssumption ==
  /\ First \in Hosts /\ Nowhere \notin Hosts
  /\ {MaxTransfers, MaxGrants, MaxSpent, MaxCrashes} \subseteq Nat

VARIABLES
  auth,     \* the entry of the account in the auth file of each host
  ledger,   \* its rows and account-transfer controls in the ledger of each host
  packet,   \* the envelopes, by transfer; written when the account departs
  wire,     \* transfers whose packet was sent
  op,       \* the command that holds the auth lock of each host
  work,     \* the hosts where a lease or a run uses the account
  provider, \* the last credential the provider issued
  crashes   \* number of commands that died

vars == <<auth, ledger, packet, wire, op, work, provider, crashes>>

NoId == 0
Transfers == 1..Len(packet)

Entry(kind, id, grant) == [kind |-> kind, id |-> id, grant |-> grant]
Oauth(grant) == Entry("oauth", NoId, grant)
NoEntry == Entry("none", NoId, 0)

\* "id" is the transfer the phase is about; imported and received hold the
\* receipts, by transfer.
NoRows == [account |-> FALSE, enabled |-> FALSE, phase |-> "none", id |-> NoId, usage |-> 0,
           imported |-> {}, received |-> {}]

Free == [at |-> "free", id |-> NoId]

Init ==
  /\ auth = [h \in Hosts |-> IF h = First THEN Oauth(0) ELSE NoEntry]
  /\ ledger = [h \in Hosts |-> IF h = First THEN [NoRows EXCEPT !.account = TRUE, !.enabled = TRUE] ELSE NoRows]
  /\ packet = <<>> /\ wire = {}
  /\ op = [h \in Hosts |-> Free]
  /\ work = {} /\ provider = 0 /\ crashes = 0

-----------------------------------------------------------------------------
(* The account on a host.                                                  *)

Usable(h) == auth[h].kind = "oauth"

Begin(h) ==
  /\ ledger[h].enabled /\ Usable(h)
  /\ work' = work \cup {h}
  /\ UNCHANGED <<auth, ledger, packet, wire, op, provider, crashes>>

Spend(h) ==
  /\ h \in work /\ ledger[h].usage < MaxSpent
  /\ ledger' = [ledger EXCEPT ![h].usage = @ + 1]
  /\ UNCHANGED <<auth, packet, wire, op, work, provider, crashes>>

End(h) ==
  /\ h \in work
  /\ work' = work \ {h}
  /\ UNCHANGED <<auth, ledger, packet, wire, op, provider, crashes>>

\* Under the lock; the credential it replaces is spent.
Refresh(h) ==
  /\ op[h] = Free /\ Usable(h) /\ provider < MaxGrants
  /\ provider' = provider + 1
  /\ auth' = [auth EXCEPT ![h].grant = provider + 1]
  /\ UNCHANGED <<ledger, packet, wire, op, work, crashes>>

\* The trigger account_transfer_exclusive.
Away == {"preparing", "outgoing", "transferred"}

\* The operator suspends and restores the account.
SetEnabled(h) ==
  /\ ledger[h].account
  /\ ledger[h].enabled \/ ledger[h].phase \notin Away
  /\ ledger' = [ledger EXCEPT ![h].enabled = ~@]
  /\ UNCHANGED <<auth, packet, wire, op, work, provider, crashes>>

-----------------------------------------------------------------------------
(* Departure.                                                              *)

\* departedAccount
Departed(h) == ~ledger[h].enabled /\ ledger[h].phase \in {"outgoing", "transferred"}

\* returnReceipt: what is left here is the receipt of a completed departure.
Returnable(h) == auth[h].kind = "receipt" /\ ledger[h].id = auth[h].id /\ Departed(h)

\* inspect. Nothing but a transfer of this account changes what it says.
Vacant(d) == ledger[d].account \/ auth[d] # NoEntry => Returnable(d)

\* prepare, its drain: no further work is admitted.
Prepare(s, d) ==
  /\ s # d /\ op[s] = Free /\ op[d] = Free /\ Usable(s) /\ Vacant(d)
  /\ ledger[s].phase \in {"none", "received"} /\ Len(packet) < MaxTransfers
  /\ packet' = Append(packet, [from |-> s, to |-> d, grant |-> 0, usage |-> 0])
  /\ ledger' = [ledger EXCEPT ![s].enabled = FALSE, ![s].phase = "preparing", ![s].id = Len(packet) + 1]
  /\ UNCHANGED <<auth, wire, op, work, provider, crashes>>

\* prepare, after the last reading of the meters: the envelope is written.
HandOff(s) ==
  LET id == ledger[s].id IN
  /\ op[s] = Free /\ Usable(s) /\ ledger[s].phase = "preparing" /\ ~ledger[s].enabled
  /\ s \notin work
  /\ packet' = [packet EXCEPT ![id].grant = auth[s].grant, ![id].usage = ledger[s].usage]
  /\ auth' = [auth EXCEPT ![s] = Entry("out", id, auth[s].grant)]
  /\ op' = [op EXCEPT ![s] = [at |-> "departing", id |-> id]]
  /\ UNCHANGED <<ledger, wire, work, provider, crashes>>

RecordOutgoing(s) ==
  /\ op[s].at = "departing"
  /\ ledger' = [ledger EXCEPT ![s].phase = "outgoing"]
  /\ op' = [op EXCEPT ![s] = Free]
  /\ UNCHANGED <<auth, packet, wire, work, provider, crashes>>

\* Whoever finds the envelope sends it, the first time or again.
Deliver(s) ==
  /\ op[s] = Free /\ auth[s].kind = "out"
  /\ wire' = wire \cup {auth[s].id}
  /\ UNCHANGED <<auth, ledger, packet, op, work, provider, crashes>>

-----------------------------------------------------------------------------
(* Arrival. A packet that was received is answered with its receipt.       *)

Receivable(d, id) ==
  op[d] = Free /\ id \in wire /\ packet[id].to = d /\ id \notin ledger[d].received

\* Mutant: what a dead command did is not looked at.
UnfinishedStaged(d, id) == auth[d].kind = "in" /\ auth[d].id = id

\* An earlier command got as far as staging or importing this packet.
Unfinished(d, id) ==
  \/ auth[d].kind = "in" /\ (auth[d].id = id \/ id \in ledger[d].imported)
  \/ Usable(d) /\ id \in ledger[d].imported

\* The staged entry cannot be used, refreshed or replaced.
Stage(d, id) ==
  /\ Receivable(d, id) /\ ~Unfinished(d, id) /\ Vacant(d)
  /\ auth' = [auth EXCEPT ![d] = Entry("in", id, packet[id].grant)]
  /\ op' = [op EXCEPT ![d] = [at |-> "importing", id |-> id]]
  /\ UNCHANGED <<ledger, packet, wire, work, provider, crashes>>

Continue(d, id) ==
  /\ Receivable(d, id) /\ Unfinished(d, id)
  /\ op' = [op EXCEPT ![d] = [at |-> IF id \in ledger[d].imported THEN "promoting" ELSE "importing", id |-> id]]
  /\ UNCHANGED <<auth, ledger, packet, wire, work, provider, crashes>>

Larger(m, n) == IF m > n THEN m ELSE n

\* Mutant: the incoming usage is added to what an earlier stay left here.
Total(here, incoming) == here + incoming

\* Usage is cumulative over the owners.
Merged(here, incoming) == Larger(here, incoming)

\* The account comes in disabled.
WithFacts(rows, id) ==
  [rows EXCEPT !.account = TRUE, !.enabled = FALSE, !.phase = "receiving", !.id = id,
               !.usage = Merged(rows.usage, packet[id].usage), !.imported = rows.imported \cup {id}]

\* An account that is there must have departed.
ImportFacts(d) ==
  /\ op[d].at = "importing"
  /\ IF ledger[d].account /\ ~Departed(d)
     THEN op' = [op EXCEPT ![d] = Free] /\ UNCHANGED ledger
     ELSE /\ op' = [op EXCEPT ![d].at = "promoting"]
          /\ ledger' = [ledger EXCEPT ![d] = WithFacts(ledger[d], op[d].id)]
  /\ UNCHANGED <<auth, packet, wire, work, provider, crashes>>

\* The staged credential is used from now on; one that was promoted before is
\* kept, it may have been refreshed.
Promote(d) ==
  /\ op[d].at = "promoting"
  /\ auth' = [auth EXCEPT ![d] = IF @.kind = "in" THEN Oauth(@.grant) ELSE @]
  /\ op' = [op EXCEPT ![d].at = "admitting"]
  /\ UNCHANGED <<ledger, packet, wire, work, provider, crashes>>

WithReceipt(rows, id) ==
  [rows EXCEPT !.received = rows.received \cup {id}, !.phase = "received", !.id = id, !.enabled = TRUE]

Admit(d) ==
  /\ op[d].at = "admitting"
  /\ ledger' = [ledger EXCEPT ![d] = WithReceipt(ledger[d], op[d].id)]
  /\ op' = [op EXCEPT ![d] = Free]
  /\ UNCHANGED <<auth, packet, wire, work, provider, crashes>>

-----------------------------------------------------------------------------
(* finish: the source learns of the reception. If its entry is of another  *)
(* transfer, or the account is back, an old answer changes nothing, whether *)
(* the command is told so or refused.                                      *)

Acknowledged(s, id) ==
  /\ op[s] = Free /\ packet[id].from = s /\ id \in ledger[packet[id].to].received
  /\ auth[s].kind \in {"out", "receipt"} /\ auth[s].id = id

ForgetEnvelope(s, id) ==
  /\ Acknowledged(s, id) /\ ledger[s].phase # "transferred"
  /\ auth' = [auth EXCEPT ![s] = Entry("receipt", id, 0)]
  /\ op' = [op EXCEPT ![s] = [at |-> "settling", id |-> id]]
  /\ UNCHANGED <<ledger, packet, wire, work, provider, crashes>>

RecordTransferred(s) ==
  /\ op[s].at = "settling"
  /\ ledger' = [ledger EXCEPT ![s].phase = "transferred", ![s].id = op[s].id]
  /\ op' = [op EXCEPT ![s] = Free]
  /\ UNCHANGED <<auth, packet, wire, work, provider, crashes>>

Crash(h) ==
  /\ op[h] # Free /\ crashes < MaxCrashes
  /\ op' = [op EXCEPT ![h] = Free] /\ crashes' = crashes + 1
  /\ UNCHANGED <<auth, ledger, packet, wire, work, provider>>

-----------------------------------------------------------------------------
Writes(h) ==
  RecordOutgoing(h) \/ ImportFacts(h) \/ Promote(h) \/ Admit(h) \/ RecordTransferred(h)

Next ==
  \/ \E h \in Hosts :
       \/ Begin(h) \/ Spend(h) \/ End(h) \/ Refresh(h) \/ SetEnabled(h)
       \/ \E d \in Hosts : Prepare(h, d)
       \/ HandOff(h) \/ Deliver(h) \/ Writes(h) \/ Crash(h)
       \/ \E id \in Transfers : Stage(h, id) \/ Continue(h, id) \/ ForgetEnvelope(h, id)

Spec == Init /\ [][Next]_vars

\* Work ends, and the command is run again until the destination has answered.
Fairness ==
  \A h \in Hosts :
    /\ WF_vars(End(h)) /\ WF_vars(HandOff(h)) /\ WF_vars(Deliver(h)) /\ WF_vars(Writes(h))
    /\ \A id \in 1..MaxTransfers : WF_vars(id \in Transfers /\ (Stage(h, id) \/ Continue(h, id)))

FairSpec == Spec /\ Fairness

-----------------------------------------------------------------------------
(* Properties.                                                             *)

\* Entries, rows, envelopes and operations keep their shape.
TypeOK ==
  /\ auth \in [Hosts -> [kind : {"oauth", "none", "out", "in", "receipt"}, id : Nat, grant : Nat]]
  /\ ledger \in [Hosts ->
       [account : BOOLEAN, enabled : BOOLEAN,
        phase : {"none", "preparing", "outgoing", "transferred", "receiving", "received"}, id : Nat,
        usage : Nat, imported : SUBSET Nat, received : SUBSET Nat]]
  /\ packet \in Seq([from : Hosts, to : Hosts, grant : Nat, usage : Nat])
  /\ wire \subseteq Transfers
  /\ op \in [Hosts -> [at : {"free", "departing", "importing", "promoting", "admitting", "settling"}, id : Nat]]
  /\ work \subseteq Hosts /\ provider \in Nat /\ crashes \in Nat

Holders == {h \in Hosts : Usable(h)}
Holder == CHOOSE h \in Hosts : Usable(h)
Carried == packet[Len(packet)]

Going == IF Holders = {} THEN Carried.to ELSE Nowhere
Grant == IF Holders = {} THEN Carried.grant ELSE auth[Holder].grant
Counted == IF Holders = {} THEN Carried.usage ELSE ledger[Holder].usage

Custody == INSTANCE AccountCustody WITH holders <- Holders, going <- Going, grant <- Grant, counted <- Counted

\* Over deaths between any two writes, late packets and late answers, returns
\* and onward transfers: one host can use the account, or it is on its way to
\* one; a refreshed credential is never replaced by the one that was sent; each
\* owner knows the usage of those before it, once.
KeepsCustody == Custody!Spec

\* A departure that was begun ends with the reception: no death leaves host and
\* packet in a state that running the command again does not resolve.
TransferEnds ==
  \A id \in 1..MaxTransfers :
    id \in Transfers ~> id \in Transfers /\ id \in ledger[packet[id].to].received
=============================================================================
