----------------------- MODULE AccountTransfer_proofs -----------------------
(***************************************************************************)
(* The transfer of an account for every set of hosts and any bounds: one   *)
(* host can use the account, and the transfers implement AccountCustody.   *)
(***************************************************************************)
EXTENDS AccountTransfer, TLAPS

Latest == Len(packet)

NoHolder == \A h \in Hosts : ~Usable(h)

OneHolder == \A h, k \in Hosts : Usable(h) /\ Usable(k) => h = k

\* The last transfer was begun and is not received.
Open == Latest # 0 /\ Latest \notin ledger[packet[Latest].to].received

\* A host departs with the account only after it was received there.
EarlierReceived == \A id \in Transfers : id # Latest => id \in ledger[packet[id].to].received

Journeys == \A id \in Transfers : packet[id].from # packet[id].to

Imports ==
  \A h \in Hosts :
    /\ ledger[h].received \subseteq ledger[h].imported
    /\ \A id \in ledger[h].imported : id \in Transfers /\ packet[id].to = h

Envelopes == \A h \in Hosts : auth[h].kind = "out" => auth[h].id \in Transfers /\ packet[auth[h].id].from = h

\* What is staged is what the last transfer carries, and nobody can use it.
Staged ==
  \A h \in Hosts : auth[h].kind = "in" =>
    /\ Open /\ NoHolder
    /\ packet[Latest].to = h /\ auth[h].id = Latest /\ auth[h].grant = packet[Latest].grant
    /\ Latest \in ledger[h].imported => ledger[h].usage = packet[Latest].usage /\ ledger[h].phase = "receiving"

\* Without a holder the last transfer carries the credential and the usage.
CarriesAll ==
  NoHolder =>
    /\ Open
    /\ packet[Latest].grant = provider
    /\ Latest \in ledger[packet[Latest].to].imported => auth[packet[Latest].to].kind = "in"
    /\ \A h \in Hosts : ledger[h].usage <= packet[Latest].usage

\* The holder is the source that prepares the last transfer, the destination
\* that has not admitted it yet, or nobody's business.
Preparing(h) ==
  /\ packet[Latest].from = h /\ ledger[h].phase = "preparing" /\ ledger[h].id = Latest
  /\ Latest \notin wire /\ Latest \notin ledger[packet[Latest].to].imported

Arrived(h) == packet[Latest].to = h /\ ledger[h].phase = "receiving" /\ Latest \in ledger[h].imported

Held ==
  \A h \in Hosts : Usable(h) =>
    /\ auth[h].grant = provider
    /\ \A k \in Hosts : ledger[k].usage <= ledger[h].usage
    /\ Open => Preparing(h) \/ Arrived(h)
    /\ ~Open => ledger[h].phase \in {"none", "received"}

\* What an operation knows between two of its writes.
Operations ==
  \A h \in Hosts :
    /\ op[h].at = "departing" => auth[h].kind = "out"
    /\ op[h].at = "settling" => auth[h].kind = "receipt"
    /\ op[h].at = "importing" => auth[h].kind = "in"
    /\ op[h].at = "promoting" => (auth[h].kind = "in" \/ Usable(h)) /\ Latest \in ledger[h].imported
    /\ op[h].at = "admitting" => Usable(h)
    /\ op[h].at \in {"importing", "promoting", "admitting"} =>
         Open /\ packet[Latest].to = h /\ op[h].id = Latest
    /\ op[h].at = "admitting" => Latest \in ledger[h].imported

Workers == \A h \in work : Usable(h)

TransferInv ==
  /\ TypeOK /\ OneHolder
  /\ EarlierReceived /\ Journeys /\ Imports /\ Envelopes
  /\ Staged /\ CarriesAll /\ Held /\ Operations /\ Workers

-----------------------------------------------------------------------------

Envelope == [from : Hosts, to : Hosts, grant : Nat, usage : Nat]

Entries == [kind : {"oauth", "none", "out", "in", "receipt"}, id : Nat, grant : Nat]

Ops == [at : {"free", "departing", "importing", "promoting", "admitting", "settling"}, id : Nat]

Rows ==
  [account : BOOLEAN, enabled : BOOLEAN,
   phase : {"none", "preparing", "outgoing", "transferred", "receiving", "received"}, id : Nat,
   usage : Nat, imported : SUBSET Nat, received : SUBSET Nat]

LEMMA Shapes ==
  ASSUME TypeOK
  PROVE  /\ Latest \in Nat
         /\ Transfers = {id \in Nat : 1 <= id /\ id <= Latest}
         /\ Latest # 0 => Latest \in Transfers
         /\ \A id \in Transfers : packet[id] \in Envelope
         /\ \A h \in Hosts : ledger[h].received \subseteq Nat /\ ledger[h].imported \subseteq Nat
         /\ \A h \in Hosts : ledger[h].usage \in Nat /\ auth[h].id \in Nat /\ auth[h].grant \in Nat
<1>1. packet \in Seq(Envelope)
  BY DEF TypeOK, Ops, Envelope
<1>2. Len(packet) \in Nat /\ \A id \in 1..Len(packet) : packet[id] \in Envelope
  BY <1>1
<1>3. /\ Latest \in Nat
      /\ Transfers = {id \in Nat : 1 <= id /\ id <= Latest}
      /\ Latest # 0 => Latest \in Transfers
      /\ \A id \in Transfers : packet[id] \in Envelope
  BY <1>2 DEF Latest, Transfers
<1>4. \A h \in Hosts : ledger[h].received \subseteq Nat /\ ledger[h].imported \subseteq Nat /\ ledger[h].usage \in Nat
  BY DEF TypeOK, Ops
<1>5. \A h \in Hosts : auth[h].id \in Nat /\ auth[h].grant \in Nat
  BY DEF TypeOK, Ops
<1> QED
  BY <1>3, <1>4, <1>5

LEMMA OpUpdates ==
  ASSUME op \in [Hosts -> Ops], NEW h \in Hosts
  PROVE  /\ [op EXCEPT ![h] = Free] \in [Hosts -> Ops] /\ [op EXCEPT ![h] = Free][h].at = "free"
         /\ \A at \in {"importing", "promoting", "admitting"} :
              /\ [op EXCEPT ![h].at = at] \in [Hosts -> Ops]
              /\ [op EXCEPT ![h].at = at][h].at = at /\ [op EXCEPT ![h].at = at][h].id = op[h].id
<1>1. Free \in Ops /\ Free.at = "free"
  BY DEF Free, NoId, Ops
<1>2. ASSUME NEW at \in {"importing", "promoting", "admitting"}
      PROVE  [op[h] EXCEPT !.at = at] \in Ops /\ [op[h] EXCEPT !.at = at].at = at /\ [op[h] EXCEPT !.at = at].id = op[h].id
  BY DEF Ops
<1> QED
  BY <1>1, <1>2

LEMMA RowUpdates ==
  ASSUME NEW rows \in Rows, NEW id \in Nat
  PROVE  /\ [rows EXCEPT !.enabled = FALSE, !.phase = "preparing", !.id = id] \in Rows
         /\ Merged(rows.usage, packet[id].usage) \in Nat =>
              /\ WithFacts(rows, id) \in Rows
              /\ WithFacts(rows, id).phase = "receiving" /\ WithFacts(rows, id).received = rows.received
              /\ WithFacts(rows, id).usage = Merged(rows.usage, packet[id].usage)
              /\ WithFacts(rows, id).imported = rows.imported \cup {id}
         /\ WithReceipt(rows, id) \in Rows
         /\ WithReceipt(rows, id).phase = "received" /\ WithReceipt(rows, id).received = rows.received \cup {id}
         /\ WithReceipt(rows, id).imported = rows.imported /\ WithReceipt(rows, id).usage = rows.usage
<1>1. [rows EXCEPT !.enabled = FALSE, !.phase = "preparing", !.id = id] \in Rows
  BY DEF Rows
<1>2. rows.imported \cup {id} \in SUBSET Nat /\ rows.received \cup {id} \in SUBSET Nat
  BY DEF Rows
<1>3. /\ WithFacts(rows, id).phase = "receiving" /\ WithFacts(rows, id).received = rows.received
      /\ WithFacts(rows, id).usage = Merged(rows.usage, packet[id].usage)
      /\ WithFacts(rows, id).imported = rows.imported \cup {id}
  BY DEF Rows, WithFacts
<1>4. Merged(rows.usage, packet[id].usage) \in Nat => WithFacts(rows, id) \in Rows
  BY <1>2 DEF Rows, WithFacts
<1>5. /\ WithReceipt(rows, id).phase = "received" /\ WithReceipt(rows, id).received = rows.received \cup {id}
      /\ WithReceipt(rows, id).imported = rows.imported /\ WithReceipt(rows, id).usage = rows.usage
  BY DEF Rows, WithReceipt
<1>6. WithReceipt(rows, id) \in Rows
  BY <1>2 DEF Rows, WithReceipt
<1> QED
  BY <1>1, <1>3, <1>4, <1>5, <1>6

LEMMA InitInv == Init => TransferInv
<1> SUFFICES ASSUME Init PROVE TransferInv
  OBVIOUS
<1> USE TransferAssumption
<1>1. Len(packet) = 0 /\ Transfers = {}
  BY DEF Init, Transfers
<1>2. \A h \in Hosts :
        /\ ledger[h].received = {} /\ ledger[h].imported = {} /\ ledger[h].phase = "none" /\ ledger[h].usage = 0
        /\ auth[h].kind \in {"oauth", "none"} /\ auth[h].grant = 0 /\ (Usable(h) <=> h = First)
        /\ op[h].at = "free"
  BY DEF Init, NoRows, Free, Oauth, NoEntry, Entry, Usable, NoId
<1>3. TypeOK
  <2>1. auth \in [Hosts -> [kind : {"oauth", "none", "out", "in", "receipt"}, id : Nat, grant : Nat]]
    BY DEF Init, Oauth, NoEntry, Entry, NoId
  <2>2. ledger \in [Hosts -> Rows]
    <3>1. NoRows \in Rows /\ [NoRows EXCEPT !.account = TRUE, !.enabled = TRUE] \in Rows
      BY DEF NoRows, NoId, Rows
    <3> QED
      BY <3>1 DEF Init
  <2>3. packet \in Seq(Envelope) /\ wire \subseteq Transfers /\ work \subseteq Hosts /\ provider \in Nat /\ crashes \in Nat
    BY <1>1 DEF Init
  <2>4. op \in [Hosts -> Ops]
    BY DEF Init, Free, NoId, Ops
  <2> QED
    BY <2>1, <2>2, <2>3, <2>4 DEF TypeOK, Ops, Rows, Envelope
<1>4. OneHolder /\ Workers
  BY <1>2 DEF OneHolder, Workers, Init
<1>5. EarlierReceived /\ Journeys /\ Imports /\ Envelopes
  BY <1>1, <1>2 DEF EarlierReceived, Journeys, Imports, Envelopes
<1>6. Staged /\ CarriesAll /\ Operations
  BY <1>2 DEF Staged, CarriesAll, Operations, NoHolder, Usable
<1>7. Held
  BY <1>1, <1>2 DEF Held, Open, Latest, Init
<1> QED
  BY <1>3, <1>4, <1>5, <1>6, <1>7 DEF TransferInv

-----------------------------------------------------------------------------
(* Use of the account.                                                     *)

LEMMA BeginInv ==
  ASSUME TransferInv, NEW h \in Hosts, Begin(h)
  PROVE  TransferInv'
<1> USE DEF Begin, Latest, Open, Usable, NoHolder
<1>1. TypeOK'
  BY DEF TransferInv, TypeOK, Ops, Transfers
<1>2. OneHolder' /\ EarlierReceived' /\ Journeys' /\ Imports' /\ Envelopes'
  BY DEF TransferInv, OneHolder, EarlierReceived, Journeys, Imports, Envelopes, Transfers
<1>3. Staged' /\ CarriesAll' /\ Held' /\ Operations'
  BY DEF TransferInv, Staged, CarriesAll, Held, Operations, Preparing, Arrived
<1>4. Workers'
  BY DEF TransferInv, Workers
<1> QED
  BY <1>1, <1>2, <1>3, <1>4 DEF TransferInv

LEMMA EndInv ==
  ASSUME TransferInv, NEW h \in Hosts, End(h)
  PROVE  TransferInv'
<1> USE DEF End, Latest, Open, Usable, NoHolder
<1>1. TypeOK'
  BY DEF TransferInv, TypeOK, Ops, Transfers
<1>2. OneHolder' /\ EarlierReceived' /\ Journeys' /\ Imports' /\ Envelopes'
  BY DEF TransferInv, OneHolder, EarlierReceived, Journeys, Imports, Envelopes, Transfers
<1>3. Staged' /\ CarriesAll' /\ Held' /\ Operations'
  BY DEF TransferInv, Staged, CarriesAll, Held, Operations, Preparing, Arrived
<1>4. Workers'
  BY DEF TransferInv, Workers
<1> QED
  BY <1>1, <1>2, <1>3, <1>4 DEF TransferInv

LEMMA SpendInv ==
  ASSUME TransferInv, NEW h \in Hosts, Spend(h)
  PROVE  TransferInv'
<1> USE DEF Latest, Open, Usable, NoHolder
<1>1. /\ h \in work /\ UNCHANGED <<auth, packet, wire, op, work, provider, crashes>>
      /\ Usable(h)
  BY DEF TransferInv, Workers, Spend
<1>2. TypeOK'
  <2>1. ledger \in [Hosts -> Rows] /\ h \in Hosts
    BY DEF TransferInv, TypeOK, Ops, Rows
  <2>2. ledger' = [ledger EXCEPT ![h] = [@ EXCEPT !.usage = ledger[h].usage + 1]]
    BY DEF Spend
  <2>3. [ledger[h] EXCEPT !.usage = ledger[h].usage + 1] \in Rows
    BY <2>1 DEF Rows
  <2>4. ledger' \in [Hosts -> Rows]
    BY <2>1, <2>2, <2>3
  <2> QED
    BY <1>1, <2>4 DEF TransferInv, TypeOK, Ops, Transfers, Rows
<1>3. /\ ledger'[h].usage = ledger[h].usage + 1
      /\ \A k \in Hosts :
        /\ ledger'[k].received = ledger[k].received /\ ledger'[k].imported = ledger[k].imported
        /\ ledger'[k].phase = ledger[k].phase /\ ledger'[k].id = ledger[k].id
        /\ k # h => ledger'[k].usage = ledger[k].usage
  BY DEF TransferInv, TypeOK, Ops, Spend
<1>4. OneHolder' /\ EarlierReceived' /\ Journeys' /\ Imports' /\ Envelopes'
  <2>1. \A id \in Transfers : packet[id].to \in Hosts
    BY Shapes DEF TransferInv, Envelope
  <2> QED
    BY <1>1, <1>3, <2>1 DEF TransferInv, OneHolder, EarlierReceived, Journeys, Imports, Envelopes, Transfers
<1>5. Staged' /\ CarriesAll'
  BY <1>1, <1>3 DEF TransferInv, Staged, CarriesAll
<1>6. Operations' /\ Workers'
  BY <1>1, <1>3 DEF TransferInv, Operations, Workers
<1>7. Held'
  <2>1. \A k \in Hosts : Usable(k) => k = h
    BY <1>1 DEF TransferInv, OneHolder
  <2>2. \A k \in Hosts : ledger'[k].usage <= ledger'[h].usage
    BY <1>1, <1>3, Shapes DEF TransferInv, Held
  <2>3. Latest # 0 => packet[Latest].to \in Hosts
    BY Shapes DEF TransferInv, Envelope
  <2> QED
    BY <1>1, <1>3, <2>1, <2>2, <2>3 DEF TransferInv, Held, Preparing, Arrived
<1> QED
  BY <1>2, <1>4, <1>5, <1>6, <1>7 DEF TransferInv

LEMMA RefreshInv ==
  ASSUME TransferInv, NEW h \in Hosts, Refresh(h)
  PROVE  TransferInv'
<1> USE DEF Latest, Open, Usable, NoHolder
<1>1. /\ Usable(h) /\ op[h].at = "free" /\ provider' = provider + 1
      /\ UNCHANGED <<ledger, packet, wire, op, work, crashes>>
      /\ auth'[h].grant = provider'
      /\ \A k \in Hosts : auth'[k].kind = auth[k].kind /\ auth'[k].id = auth[k].id
  BY DEF TransferInv, TypeOK, Ops, Refresh, Free
<1>2. TypeOK'
  <2>1. auth' \in [Hosts -> [kind : {"oauth", "none", "out", "in", "receipt"}, id : Nat, grant : Nat]]
    <3>1. auth \in [Hosts -> Entries] /\ provider \in Nat
      BY DEF TransferInv, TypeOK, Ops, Entries
    <3>2. auth' = [auth EXCEPT ![h] = [@ EXCEPT !.grant = provider + 1]]
      BY DEF Refresh
    <3>3. [auth[h] EXCEPT !.grant = provider + 1] \in Entries
      BY <3>1 DEF Entries
    <3> QED
      BY <3>1, <3>2, <3>3 DEF Entries
  <2> QED
    BY <1>1, <2>1 DEF TransferInv, TypeOK, Ops, Transfers
<1>3. OneHolder' /\ EarlierReceived' /\ Journeys' /\ Imports' /\ Envelopes'
  BY <1>1 DEF TransferInv, OneHolder, EarlierReceived, Journeys, Imports, Envelopes, Transfers
<1>4. Staged' /\ CarriesAll'
  BY <1>1 DEF TransferInv, Staged, CarriesAll
<1>5. \A k \in Hosts : Usable(k) => k = h
  BY <1>1 DEF TransferInv, OneHolder
<1>6. Held'
  BY <1>1, <1>5 DEF TransferInv, Held, Preparing, Arrived
<1>7. Operations'
  BY <1>1 DEF TransferInv, Operations
<1>8. Workers'
  BY <1>1 DEF TransferInv, TypeOK, Ops, Workers
<1> QED
  BY <1>2, <1>3, <1>4, <1>6, <1>7, <1>8 DEF TransferInv

LEMMA SetEnabledInv ==
  ASSUME TransferInv, NEW h \in Hosts, SetEnabled(h)
  PROVE  TransferInv'
<1> USE DEF Latest, Open, Usable, NoHolder
<1>1. /\ UNCHANGED <<auth, packet, wire, op, work, provider, crashes>>
      /\ \A k \in Hosts :
        /\ ledger'[k].received = ledger[k].received /\ ledger'[k].imported = ledger[k].imported
        /\ ledger'[k].phase = ledger[k].phase /\ ledger'[k].id = ledger[k].id
        /\ ledger'[k].usage = ledger[k].usage
  BY DEF TransferInv, TypeOK, Ops, SetEnabled
<1>2. TypeOK'
  <2>1. ledger \in [Hosts -> Rows]
    BY DEF TransferInv, TypeOK, Ops, Rows
  <2>2. ledger' = [ledger EXCEPT ![h] = [@ EXCEPT !.enabled = ~ledger[h].enabled]]
    BY DEF SetEnabled
  <2>3. [ledger[h] EXCEPT !.enabled = ~ledger[h].enabled] \in Rows
    BY <2>1 DEF Rows
  <2>4. ledger' \in [Hosts -> Rows]
    BY <2>1, <2>2, <2>3
  <2> QED
    BY <1>1, <2>4 DEF TransferInv, TypeOK, Ops, Transfers, Rows
<1>3. \A id \in Transfers : packet[id].to \in Hosts
  BY Shapes DEF TransferInv, Envelope
<1>4. Latest # 0 => packet[Latest].to \in Hosts
  BY Shapes DEF TransferInv, Envelope
<1>5. OneHolder' /\ EarlierReceived' /\ Journeys' /\ Imports' /\ Envelopes' /\ Workers'
  BY <1>1, <1>3 DEF TransferInv, OneHolder, EarlierReceived, Journeys, Imports, Envelopes, Transfers, Workers
<1>6. Staged' /\ CarriesAll' /\ Operations'
  BY <1>1, <1>4 DEF TransferInv, Staged, CarriesAll, Operations
<1>7. Held'
  BY <1>1, <1>4 DEF TransferInv, Held, Preparing, Arrived
<1> QED
  BY <1>2, <1>5, <1>6, <1>7 DEF TransferInv

-----------------------------------------------------------------------------
(* Departure.                                                              *)

\* A departure begins only when the transfer before it was received.
LEMMA PrepareInv ==
  ASSUME TransferInv, NEW s \in Hosts, NEW d \in Hosts, Prepare(s, d)
  PROVE  TransferInv'
<1> DEFINE n == Len(packet)
<1> DEFINE row == [from |-> s, to |-> d, grant |-> 0, usage |-> 0]
<1>1. /\ s # d /\ Usable(s) /\ ledger[s].phase \in {"none", "received"}
      /\ packet' = Append(packet, row)
      /\ UNCHANGED <<auth, wire, op, work, provider, crashes>>
      /\ ledger'[s].phase = "preparing" /\ ledger'[s].id = n + 1
      /\ \A k \in Hosts :
        /\ ledger'[k].received = ledger[k].received /\ ledger'[k].imported = ledger[k].imported
        /\ ledger'[k].usage = ledger[k].usage
        /\ k # s => ledger'[k].phase = ledger[k].phase
  BY DEF TransferInv, TypeOK, Ops, Prepare
<1>2. n \in Nat /\ packet \in Seq(Envelope) /\ row \in Envelope
  BY DEF TransferInv, TypeOK, Ops, Envelope
<1>3. /\ Latest' = n + 1 /\ packet'[n + 1] = row
      /\ Transfers' = Transfers \cup {n + 1} /\ n + 1 \notin Transfers
      /\ \A id \in Transfers : packet'[id] = packet[id]
      /\ packet' \in Seq(Envelope)
  BY <1>1, <1>2 DEF Latest, Transfers
<1>4. ~Open /\ \A k \in Hosts : Usable(k) => k = s
  BY <1>1 DEF TransferInv, OneHolder, Held, Preparing, Arrived
<1>5. \A id \in Transfers : id \in ledger[packet[id].to].received /\ packet[id].to \in Hosts
  BY <1>4, Shapes DEF TransferInv, EarlierReceived, Open, Latest, Transfers, Envelope
<1>6. n + 1 \notin wire /\ \A k \in Hosts : n + 1 \notin ledger[k].imported
  BY <1>3 DEF TransferInv, TypeOK, Ops, Imports
<1>7. TypeOK'
  <2>1. ledger \in [Hosts -> Rows]
    BY DEF TransferInv, TypeOK, Ops, Rows
  <2>2. ledger' = [ledger EXCEPT ![s] = [@ EXCEPT !.enabled = FALSE, !.phase = "preparing", !.id = n + 1]]
    BY <2>1 DEF Prepare, Rows
  <2>3. [ledger[s] EXCEPT !.enabled = FALSE, !.phase = "preparing", !.id = n + 1] \in Rows
    <3>1. ledger[s] \in Rows /\ n + 1 \in Nat
      BY <1>2, <2>1
    <3> QED
      BY <3>1, RowUpdates
  <2>4. ledger' \in [Hosts -> Rows]
    BY <2>1, <2>2, <2>3
  <2> QED
    BY <1>1, <1>3, <2>4 DEF TransferInv, TypeOK, Ops, Rows, Envelope
<1>8. EarlierReceived' /\ Journeys' /\ Imports' /\ Envelopes'
  <2> DEFINE m == n + 1
  <2> HIDE DEF m
  <2>1. /\ Latest' = m /\ Transfers' = Transfers \cup {m}
        /\ \A id \in Transfers : packet'[id] = packet[id]
    BY <1>3 DEF m
  <2>2. \A k \in Hosts : ledger'[k].received = ledger[k].received /\ ledger'[k].imported = ledger[k].imported
    BY <1>1
  <2>3. EarlierReceived'
    BY <1>5, <2>1, <2>2 DEF EarlierReceived
  <2>4. Journeys'
    <3>1. row.from # row.to
      BY <1>1
    <3>2. \A id \in Transfers : packet'[id].from # packet'[id].to
      BY <1>3 DEF TransferInv, Journeys
    <3>3. packet'[n + 1].from # packet'[n + 1].to
      BY <1>3, <3>1
    <3> QED
      BY <1>3, <3>2, <3>3 DEF Journeys
  <2>5. Imports'
    <3> SUFFICES ASSUME NEW k \in Hosts
                 PROVE  /\ ledger'[k].received \subseteq ledger'[k].imported
                        /\ \A id \in ledger'[k].imported : id \in Transfers' /\ packet'[id].to = k
      BY DEF Imports
    <3> QED
      BY <2>1, <2>2 DEF TransferInv, Imports
  <2>6. Envelopes'
    BY <1>1, <1>3 DEF TransferInv, Envelopes
  <2> QED
    BY <2>3, <2>4, <2>5, <2>6
<1>9. OneHolder' /\ Workers' /\ ~NoHolder'
  BY <1>1 DEF TransferInv, OneHolder, Workers, NoHolder, Usable
<1>10. Staged' /\ CarriesAll'
  <2>1. \A k \in Hosts : auth[k].kind # "in"
    BY <1>1 DEF TransferInv, Staged, NoHolder
  <2> QED
    BY <1>1, <1>9, <2>1 DEF Staged, CarriesAll
<1>11. Held'
  <2>1. Preparing(s)'
    BY <1>1, <1>3, <1>6 DEF Preparing
  <2>2. \A k \in Hosts : Usable(k)' => k = s
    BY <1>1, <1>4 DEF Usable
  <2>3. Open'
    BY <1>1, <1>3, <1>6 DEF Open, TransferInv, Imports
  <2>4. auth'[s].grant = provider' /\ \A k \in Hosts : ledger'[k].usage <= ledger'[s].usage
    BY <1>1 DEF TransferInv, Held
  <2> QED
    BY <2>1, <2>2, <2>3, <2>4 DEF Held
<1>12. Operations'
  BY <1>1, <1>4 DEF TransferInv, Operations, Usable
<1> QED
  BY <1>7, <1>8, <1>9, <1>10, <1>11, <1>12 DEF TransferInv

\* The envelope takes the credential and the usage of the last holder.
LEMMA HandOffInv ==
  ASSUME TransferInv, NEW s \in Hosts, HandOff(s)
  PROVE  TransferInv'
<1> DEFINE n == Len(packet)
<1>1. /\ Usable(s) /\ s \notin work /\ op[s].at = "free" /\ ledger[s].phase = "preparing"
      /\ UNCHANGED <<ledger, wire, work, provider, crashes>>
  BY DEF HandOff, Free
<1>2. Open /\ Preparing(s) /\ auth[s].grant = provider /\ \A k \in Hosts : ledger[k].usage <= ledger[s].usage
  BY <1>1 DEF TransferInv, Held, Arrived
<1>3. n \in Nat /\ n # 0 /\ ledger[s].id = n /\ packet \in Seq(Envelope) /\ n \in Transfers
  BY <1>2, Shapes DEF TransferInv, TypeOK, Ops, Preparing, Open, Latest, Envelope
<1>4. packet' = [packet EXCEPT ![n] = [@ EXCEPT !.grant = auth[s].grant, !.usage = ledger[s].usage]]
  BY <1>3 DEF HandOff
<1>5. packet[n] \in Envelope /\ auth[s].grant \in Nat /\ ledger[s].usage \in Nat
  BY <1>3, Shapes DEF TransferInv
<1>6. [packet[n] EXCEPT !.grant = auth[s].grant, !.usage = ledger[s].usage] \in Envelope
  BY <1>5 DEF Envelope
<1>7. /\ Latest' = n /\ Transfers' = Transfers /\ packet' \in Seq(Envelope)
      /\ packet'[n].grant = provider /\ packet'[n].usage = ledger[s].usage
      /\ \A id \in Transfers : packet'[id].from = packet[id].from /\ packet'[id].to = packet[id].to
  BY <1>2, <1>3, <1>4, <1>5, <1>6 DEF Latest, Transfers, Envelope
<1>8. /\ auth'[s] = Entry("out", n, auth[s].grant)
      /\ \A k \in Hosts : k # s => auth'[k] = auth[k]
      /\ op'[s] = [at |-> "departing", id |-> n]
      /\ \A k \in Hosts : k # s => op'[k] = op[k]
  BY <1>3 DEF HandOff, TransferInv, TypeOK, Ops
<1>9. NoHolder' /\ \A k \in Hosts : auth'[k].kind # "in"
  BY <1>1, <1>8 DEF TransferInv, OneHolder, Staged, NoHolder, Usable, Entry
<1>10. TypeOK'
  <2>1. auth' \in [Hosts -> [kind : {"oauth", "none", "out", "in", "receipt"}, id : Nat, grant : Nat]]
    BY <1>3, <1>5 DEF TransferInv, TypeOK, Ops, HandOff, Entry
  <2>2. op' \in [Hosts -> Ops]
    BY <1>3 DEF TransferInv, TypeOK, Ops, HandOff
  <2> QED
    BY <1>1, <1>7, <2>1, <2>2 DEF TransferInv, TypeOK, Ops, Envelope
<1>11. OneHolder' /\ Staged' /\ Held' /\ EarlierReceived' /\ Journeys' /\ Imports'
  BY <1>1, <1>3, <1>7, <1>9 DEF TransferInv, OneHolder, Staged, Held, EarlierReceived, Journeys, Imports, NoHolder, Latest
<1>12. Envelopes'
  BY <1>2, <1>3, <1>7, <1>8 DEF TransferInv, Envelopes, Entry, Preparing, Latest
<1>13. Open'
  BY <1>1, <1>2, <1>3, <1>7 DEF Open, Latest
<1>14. CarriesAll'
  BY <1>1, <1>2, <1>3, <1>7, <1>13 DEF CarriesAll, Preparing, Latest
<1>15. Workers'
  BY <1>1, <1>8 DEF TransferInv, TypeOK, Ops, Workers, Usable
<1>16. Operations'
  <2>1. \A k \in Hosts : op[k].at \notin {"importing", "promoting", "admitting"}
    BY <1>1, <1>2 DEF TransferInv, OneHolder, Operations, Staged, NoHolder, Preparing
  <2> QED
    BY <1>8, <2>1 DEF TransferInv, Operations, Entry
<1> QED
  BY <1>10, <1>11, <1>12, <1>14, <1>15, <1>16 DEF TransferInv

LEMMA RecordOutgoingInv ==
  ASSUME TransferInv, NEW s \in Hosts, RecordOutgoing(s)
  PROVE  TransferInv'
<1> USE DEF Latest, Open, Usable, NoHolder
<1>1. /\ UNCHANGED <<auth, packet, wire, work, provider, crashes>>
      /\ auth[s].kind = "out"
      /\ \A k \in Hosts :
        /\ ledger'[k].received = ledger[k].received /\ ledger'[k].imported = ledger[k].imported
        /\ ledger'[k].usage = ledger[k].usage
        /\ k # s => ledger'[k].phase = ledger[k].phase /\ ledger'[k].id = ledger[k].id
      /\ op'[s].at = "free" /\ \A k \in Hosts : k # s => op'[k] = op[k]
  BY DEF TransferInv, TypeOK, Ops, Operations, RecordOutgoing, Free
<1>2. TypeOK'
  <2>1. ledger \in [Hosts -> Rows]
    BY DEF TransferInv, TypeOK, Ops, Rows
  <2>2. ledger' = [ledger EXCEPT ![s] = [@ EXCEPT !.phase = "outgoing"]]
    BY DEF RecordOutgoing
  <2>3. [ledger[s] EXCEPT !.phase = "outgoing"] \in Rows
    BY <2>1 DEF Rows
  <2>4. ledger' \in [Hosts -> Rows]
    BY <2>1, <2>2, <2>3
  <2>5. op' \in [Hosts -> Ops]
    BY DEF TransferInv, TypeOK, Ops, RecordOutgoing, Free, NoId
  <2> QED
    BY <1>1, <2>4, <2>5 DEF TransferInv, TypeOK, Ops, Transfers, Rows
<1>3. \A id \in Transfers : packet[id].to \in Hosts
  BY Shapes DEF TransferInv, Envelope
<1>4. Latest # 0 => packet[Latest].to \in Hosts
  BY Shapes DEF TransferInv, Envelope
<1>5. OneHolder' /\ EarlierReceived' /\ Journeys' /\ Imports' /\ Envelopes' /\ Workers'
  BY <1>1, <1>3 DEF TransferInv, OneHolder, EarlierReceived, Journeys, Imports, Envelopes, Transfers, Workers
<1>6. Staged' /\ CarriesAll'
  BY <1>1, <1>4 DEF TransferInv, Staged, CarriesAll
<1>7. Operations'
  BY <1>1, <1>4 DEF TransferInv, Operations
<1>8. Held'
  BY <1>1, <1>4 DEF TransferInv, Held, Preparing, Arrived
<1> QED
  BY <1>2, <1>5, <1>6, <1>7, <1>8 DEF TransferInv

\* The packet of the last transfer is sent only when its source gave it up.
LEMMA DeliverInv ==
  ASSUME TransferInv, NEW s \in Hosts, Deliver(s)
  PROVE  TransferInv'
<1> USE DEF Latest, Open, Usable, NoHolder
<1>1. /\ UNCHANGED <<auth, ledger, packet, op, work, provider, crashes>>
      /\ wire' = wire \cup {auth[s].id} /\ auth[s].kind = "out"
      /\ auth[s].id \in Transfers /\ packet[auth[s].id].from = s
  BY DEF TransferInv, Envelopes, Deliver
<1>2. TypeOK'
  BY <1>1 DEF TransferInv, TypeOK, Ops, Transfers
<1>3. OneHolder' /\ EarlierReceived' /\ Journeys' /\ Imports' /\ Envelopes' /\ Staged' /\ CarriesAll'
  BY <1>1 DEF TransferInv, OneHolder, EarlierReceived, Journeys, Imports, Envelopes, Staged, CarriesAll, Transfers
<1>4. Held'
  BY <1>1 DEF TransferInv, Held, Preparing, Arrived
<1>5. Operations' /\ Workers'
  BY <1>1 DEF TransferInv, Operations, Workers
<1> QED
  BY <1>2, <1>3, <1>4, <1>5 DEF TransferInv

-----------------------------------------------------------------------------
(* Arrival.                                                                *)

\* What can still be received is the last transfer.
LEMMA OnlyLatest ==
  ASSUME TransferInv, NEW d \in Hosts, NEW id \in Transfers, Receivable(d, id)
  PROVE  /\ id = Latest /\ Open /\ packet[Latest].to = d
         /\ op[d].at = "free" /\ Latest \in wire /\ Latest \notin ledger[d].received
<1>1. id = Latest
  BY DEF TransferInv, EarlierReceived, Receivable
<1> QED
  BY <1>1, Shapes DEF TransferInv, Receivable, Open, Free

\* A packet is staged only when nobody has the account.
LEMMA StageInv ==
  ASSUME TransferInv, NEW d \in Hosts, NEW id \in Transfers, Stage(d, id)
  PROVE  TransferInv'
<1>1. /\ id = Latest /\ Open /\ packet[Latest].to = d
      /\ op[d].at = "free" /\ Latest \in wire /\ Latest \notin ledger[d].received
  BY OnlyLatest DEF Stage
<1>2. UNCHANGED <<ledger, packet, wire, work, provider, crashes>>
  BY DEF Stage
<1>3. /\ auth'[d] = Entry("in", Latest, packet[Latest].grant)
      /\ \A k \in Hosts : k # d => auth'[k] = auth[k]
      /\ op'[d] = [at |-> "importing", id |-> Latest]
      /\ \A k \in Hosts : k # d => op'[k] = op[k]
  BY <1>1 DEF Stage, TransferInv, TypeOK, Ops
<1>4. NoHolder
  BY <1>1 DEF TransferInv, Held, Preparing, Arrived, Stage, Unfinished, NoHolder, Usable
<1>5. NoHolder' /\ OneHolder'
  BY <1>3, <1>4 DEF NoHolder, OneHolder, Usable, Entry
<1>6. auth[d].kind # "in" /\ Latest \notin ledger[d].imported
  BY <1>1, <1>4 DEF TransferInv, Staged, CarriesAll, Stage, Unfinished
<1>7. TypeOK'
  <2>1. packet[Latest].grant \in Nat /\ Latest \in Nat
    BY <1>1, Shapes DEF TransferInv, Open, Envelope
  <2>2. Entry("in", Latest, packet[Latest].grant) \in Entries
    BY <2>1 DEF Entry, Entries
  <2>3. auth' \in [Hosts -> Entries]
    BY <1>1, <2>2 DEF Stage, TransferInv, TypeOK, Ops, Entries
  <2>4. op' \in [Hosts -> Ops]
    BY <1>1, <2>1 DEF Stage, TransferInv, TypeOK, Ops
  <2> QED
    BY <1>2, <2>3, <2>4 DEF TransferInv, TypeOK, Ops, Transfers, Entries
<1>8. EarlierReceived' /\ Journeys' /\ Imports' /\ Open' /\ Latest' = Latest
  BY <1>1, <1>2 DEF TransferInv, EarlierReceived, Journeys, Imports, Transfers, Latest, Open
<1>9. Envelopes'
  BY <1>2, <1>3 DEF TransferInv, Envelopes, Transfers, Entry
<1>10. Staged'
  BY <1>1, <1>2, <1>3, <1>5, <1>6, <1>8 DEF TransferInv, Staged, Entry
<1>11. CarriesAll'
  BY <1>1, <1>2, <1>3, <1>4, <1>8 DEF TransferInv, CarriesAll, Entry
<1>12. Held' /\ Workers'
  BY <1>2, <1>4, <1>5 DEF TransferInv, TypeOK, Ops, Held, Workers, NoHolder
<1>13. Operations'
  BY <1>1, <1>2, <1>3, <1>4, <1>8 DEF TransferInv, Operations, NoHolder, Usable, Entry
<1> QED
  BY <1>5, <1>7, <1>8, <1>9, <1>10, <1>11, <1>12, <1>13 DEF TransferInv

LEMMA ContinueInv ==
  ASSUME TransferInv, NEW d \in Hosts, NEW id \in Transfers, Continue(d, id)
  PROVE  TransferInv'
<1> USE DEF Usable, NoHolder
<1>1. /\ id = Latest /\ Open /\ packet[Latest].to = d
  BY OnlyLatest DEF Continue
<1>2. UNCHANGED <<auth, ledger, packet, wire, work, provider, crashes>> /\ Latest' = Latest /\ Open' = Open
  BY DEF Continue, Latest, Open
<1>3. /\ op'[d].at = (IF Latest \in ledger[d].imported THEN "promoting" ELSE "importing") /\ op'[d].id = Latest
      /\ \A k \in Hosts : k # d => op'[k] = op[k]
  <2>1. op' = [op EXCEPT ![d] = [at |-> IF Latest \in ledger[d].imported THEN "promoting" ELSE "importing", id |-> Latest]]
    BY <1>1 DEF Continue
  <2>2. DOMAIN op = Hosts
    BY DEF TransferInv, TypeOK
  <2> QED
    BY <2>1, <2>2
<1>4. \/ auth[d].kind = "in"
      \/ Usable(d) /\ Latest \in ledger[d].imported
  <2>1. Unfinished(d, Latest)
    BY <1>1 DEF Continue
  <2> QED
    BY <2>1 DEF Unfinished
<1>5. TypeOK'
  <2>1. op' \in [Hosts -> Ops]
    BY <1>1, Shapes DEF Continue, TransferInv, TypeOK, Ops, Open
  <2> QED
    BY <1>2, <2>1 DEF TransferInv, TypeOK, Ops, Transfers
<1>6. OneHolder' /\ EarlierReceived' /\ Journeys' /\ Imports' /\ Envelopes' /\ Staged' /\ CarriesAll' /\ Workers'
  BY <1>2 DEF TransferInv, OneHolder, EarlierReceived, Journeys, Imports, Envelopes, Staged, CarriesAll, Workers, Transfers
<1>7. Held'
  BY <1>2 DEF TransferInv, Held, Preparing, Arrived
<1>8. Operations'
  BY <1>1, <1>2, <1>3, <1>4 DEF TransferInv, Operations
<1> QED
  BY <1>5, <1>6, <1>7, <1>8 DEF TransferInv

LEMMA ImportFactsInv ==
  ASSUME TransferInv, NEW d \in Hosts, ImportFacts(d)
  PROVE  TransferInv'
<1> DEFINE n == Len(packet)
<1> USE DEF Latest, Usable, NoHolder
<1>1. /\ op[d].at = "importing" /\ auth[d].kind = "in" /\ Open /\ NoHolder
      /\ packet[n].to = d /\ op[d].id = n /\ auth[d].grant = packet[n].grant
      /\ UNCHANGED <<auth, packet, wire, work, provider, crashes>>
  BY DEF TransferInv, Operations, Staged, ImportFacts
<1>2. n # 0 /\ n \in Nat /\ n \in Transfers /\ packet[n].usage \in Nat
  BY <1>1, Shapes DEF TransferInv, Open, Envelope
<1>3. CASE ledger[d].account /\ ~Departed(d)
  <2>1. ledger' = ledger /\ op'[d].at = "free" /\ \A k \in Hosts : k # d => op'[k] = op[k]
    BY <1>3 DEF ImportFacts, Free, TransferInv, TypeOK, Ops
  <2>2. op' \in [Hosts -> Ops]
    <3>1. op \in [Hosts -> Ops] /\ op' = [op EXCEPT ![d] = Free]
      BY <1>3 DEF ImportFacts, TransferInv, TypeOK, Ops
    <3> QED
      BY <3>1, OpUpdates
  <2>3. TypeOK' /\ Open'
    BY <1>1, <2>1, <2>2 DEF TransferInv, TypeOK, Ops, Transfers, Open
  <2>4. OneHolder' /\ EarlierReceived' /\ Journeys' /\ Imports' /\ Envelopes' /\ Staged' /\ CarriesAll' /\ Workers'
    BY <1>1, <2>1 DEF TransferInv, OneHolder, EarlierReceived, Journeys, Imports, Envelopes, Staged, CarriesAll, Workers, Transfers, Open
  <2>5. Held' /\ Operations'
    BY <1>1, <2>1, <2>3 DEF TransferInv, Held, Operations
  <2> QED
    BY <2>3, <2>4, <2>5 DEF TransferInv
<1>4. CASE ~(ledger[d].account /\ ~Departed(d))
  <2>1. ledger' = [ledger EXCEPT ![d] = WithFacts(ledger[d], n)]
    BY <1>1, <1>4 DEF ImportFacts
  <2>2. Merged(ledger[d].usage, packet[n].usage) = packet[n].usage
    BY <1>1, <1>2, Shapes DEF TransferInv, CarriesAll, Merged, Larger
  <2>3. ledger \in [Hosts -> Rows] /\ ledger[d] \in Rows
    BY DEF TransferInv, TypeOK, Rows
  <2>4. /\ ledger'[d].phase = "receiving" /\ ledger'[d].usage = packet[n].usage
        /\ ledger'[d].imported = ledger[d].imported \cup {n} /\ ledger'[d].received = ledger[d].received
        /\ \A k \in Hosts : k # d => ledger'[k] = ledger[k]
    <3> DEFINE rows == WithFacts(ledger[d], n)
    <3>1. /\ rows.phase = "receiving" /\ rows.usage = packet[n].usage
          /\ rows.imported = ledger[d].imported \cup {n} /\ rows.received = ledger[d].received
      BY <1>2, <2>2, <2>3, RowUpdates
    <3>2. ledger'[d] = rows /\ \A k \in Hosts : k # d => ledger'[k] = ledger[k]
      BY <2>1, <2>3
    <3> HIDE DEF rows
    <3> QED
      BY <3>1, <3>2
  <2>5. ledger' \in [Hosts -> Rows]
    BY <1>2, <2>1, <2>2, <2>3, RowUpdates
  <2>6. /\ op'[d].at = "promoting" /\ op'[d].id = n
        /\ \A k \in Hosts : k # d => op'[k] = op[k]
        /\ op' \in [Hosts -> Ops]
    <3>1. op \in [Hosts -> Ops] /\ op' = [op EXCEPT ![d].at = "promoting"]
      BY <1>4 DEF ImportFacts, TransferInv, TypeOK, Ops
    <3> QED
      BY <1>1, <3>1, OpUpdates
  <2>7. TypeOK'
    BY <1>1, <2>5, <2>6 DEF TransferInv, TypeOK, Ops, Transfers, Rows
  <2>8. Open' /\ NoHolder' /\ OneHolder' /\ \A k \in Hosts : ledger'[k].received = ledger[k].received
    BY <1>1, <2>4 DEF Open, OneHolder
  <2>9. \A id \in Transfers : packet[id].to \in Hosts
    BY Shapes DEF TransferInv, Envelope
  <2>10. EarlierReceived' /\ Journeys' /\ Envelopes' /\ Workers'
    BY <1>1, <2>8, <2>9 DEF TransferInv, EarlierReceived, Journeys, Envelopes, Workers, Transfers
  <2>11. Imports'
    BY <1>1, <1>2, <2>4 DEF TransferInv, Imports, Transfers
  <2>12. Staged'
    BY <1>1, <2>4, <2>8 DEF TransferInv, Staged
  <2>13. CarriesAll'
    <3>1. \A k \in Hosts : ledger'[k].usage <= packet[n].usage
      BY <1>1, <1>2, <2>4 DEF TransferInv, CarriesAll
    <3> QED
      BY <1>1, <2>8, <3>1 DEF TransferInv, CarriesAll
  <2>14. Held'
    BY <2>8 DEF Held
  <2>15. Operations'
    BY <1>1, <2>4, <2>6, <2>8 DEF TransferInv, Operations
  <2> QED
    BY <2>7, <2>8, <2>10, <2>11, <2>12, <2>13, <2>14, <2>15 DEF TransferInv
<1> QED
  BY <1>3, <1>4

\* A staged credential is the last one; a promoted one is left alone.
LEMMA PromoteInv ==
  ASSUME TransferInv, NEW d \in Hosts, Promote(d)
  PROVE  TransferInv'
<1> DEFINE n == Len(packet)
<1> USE DEF Latest, Usable, NoHolder
<1>1. /\ op[d].at = "promoting" /\ Open /\ packet[n].to = d /\ op[d].id = n /\ n \in ledger[d].imported
      /\ auth[d].kind = "in" \/ Usable(d)
      /\ UNCHANGED <<ledger, packet, wire, work, provider, crashes>>
      /\ Open' = Open
  BY DEF TransferInv, Operations, Promote, Open
<1>2. /\ op'[d].at = "admitting" /\ op'[d].id = n
      /\ \A k \in Hosts : k # d => op'[k] = op[k]
      /\ op' \in [Hosts -> Ops]
  <2>1. op \in [Hosts -> Ops] /\ op' = [op EXCEPT ![d].at = "admitting"]
    BY DEF Promote, TransferInv, TypeOK, Ops
  <2> QED
    BY <1>1, <2>1, OpUpdates
<1>3. /\ auth'[d].kind = "oauth" /\ auth'[d].grant = auth[d].grant
      /\ \A k \in Hosts : k # d => auth'[k] = auth[k]
      /\ auth' \in [Hosts -> Entries]
  BY <1>1 DEF Promote, TransferInv, TypeOK, Ops, Oauth, Entry, Entries, NoId
<1>4. TypeOK'
  BY <1>1, <1>2, <1>3 DEF TransferInv, TypeOK, Ops, Transfers, Entries
<1>5. \A k \in Hosts : k # d => ~Usable(k) /\ auth[k].kind # "in"
  BY <1>1 DEF TransferInv, OneHolder, Staged
<1>6. OneHolder' /\ ~NoHolder'
  BY <1>3, <1>5 DEF OneHolder
<1>7. EarlierReceived' /\ Journeys' /\ Imports' /\ Envelopes'
  BY <1>1, <1>3 DEF TransferInv, EarlierReceived, Journeys, Imports, Envelopes, Transfers
<1>8. Staged' /\ CarriesAll' /\ Workers'
  BY <1>1, <1>3, <1>5, <1>6 DEF TransferInv, TypeOK, Ops, Staged, CarriesAll, Workers
<1>9. /\ auth[d].grant = provider /\ \A k \in Hosts : ledger[k].usage <= ledger[d].usage
      /\ Arrived(d)
  <2>1. CASE auth[d].kind = "in"
    BY <1>1, <2>1 DEF TransferInv, Staged, CarriesAll, Arrived
  <2>2. CASE Usable(d)
    BY <1>1, <2>2 DEF TransferInv, Held, Preparing, Arrived
  <2> QED
    BY <1>1, <2>1, <2>2
<1>10. Held'
  BY <1>1, <1>3, <1>5, <1>9 DEF Held, Arrived
<1>11. Operations'
  BY <1>1, <1>2, <1>3 DEF TransferInv, Operations
<1> QED
  BY <1>4, <1>6, <1>7, <1>8, <1>10, <1>11 DEF TransferInv

LEMMA AdmitInv ==
  ASSUME TransferInv, NEW d \in Hosts, Admit(d)
  PROVE  TransferInv'
<1> DEFINE n == Len(packet)
<1> USE DEF Latest, Usable, NoHolder
<1>1. /\ op[d].at = "admitting" /\ Usable(d) /\ Open /\ packet[n].to = d /\ op[d].id = n /\ n \in ledger[d].imported
      /\ UNCHANGED <<auth, packet, wire, work, provider, crashes>>
  BY DEF TransferInv, Operations, Admit
<1>2. n # 0 /\ n \in Nat
  BY <1>1, Shapes DEF TransferInv, Open
<1>3. /\ op'[d].at = "free" /\ \A k \in Hosts : k # d => op'[k] = op[k]
      /\ op' \in [Hosts -> Ops]
  BY DEF Admit, Free, NoId, TransferInv, TypeOK, Ops
<1>4. ledger' = [ledger EXCEPT ![d] = WithReceipt(ledger[d], n)]
  BY <1>1 DEF Admit
<1>5. ledger \in [Hosts -> Rows] /\ ledger[d] \in Rows
  BY DEF TransferInv, TypeOK, Rows
<1>6. /\ ledger'[d].phase = "received" /\ ledger'[d].received = ledger[d].received \cup {n}
      /\ \A k \in Hosts : ledger'[k].imported = ledger[k].imported /\ ledger'[k].usage = ledger[k].usage
      /\ \A k \in Hosts : k # d => ledger'[k] = ledger[k]
  <2> DEFINE rows == WithReceipt(ledger[d], n)
  <2>1. /\ rows.phase = "received" /\ rows.received = ledger[d].received \cup {n}
        /\ rows.imported = ledger[d].imported /\ rows.usage = ledger[d].usage
    BY <1>2, <1>5, RowUpdates
  <2>2. ledger'[d] = rows /\ \A k \in Hosts : k # d => ledger'[k] = ledger[k]
    BY <1>4, <1>5
  <2> HIDE DEF rows
  <2> QED
    BY <2>1, <2>2
<1>7. ledger' \in [Hosts -> Rows]
  BY <1>2, <1>4, <1>5, RowUpdates
<1>8. TypeOK' /\ ~Open'
  BY <1>1, <1>3, <1>6, <1>7 DEF TransferInv, TypeOK, Ops, Transfers, Rows, Open
<1>9. OneHolder' /\ Journeys' /\ Envelopes' /\ Workers' /\ ~NoHolder'
  BY <1>1 DEF TransferInv, OneHolder, Journeys, Envelopes, Workers, Transfers
<1>10. EarlierReceived'
  <2>1. \A id \in Transfers : packet[id].to \in Hosts
    BY Shapes DEF TransferInv, Envelope
  <2>2. \A k \in Hosts : ledger[k].received \subseteq ledger'[k].received
    BY <1>6
  <2> QED
    BY <1>1, <2>1, <2>2 DEF TransferInv, EarlierReceived, Transfers
<1>11. Imports'
  BY <1>1, <1>6 DEF TransferInv, Imports, Transfers
<1>12. \A k \in Hosts : k # d => ~Usable(k) /\ auth[k].kind # "in"
  BY <1>1 DEF TransferInv, OneHolder, Staged
<1>13. Staged' /\ CarriesAll'
  BY <1>1, <1>9, <1>12 DEF Staged, CarriesAll
<1>14. Held'
  BY <1>1, <1>6, <1>8, <1>12 DEF TransferInv, Held
<1>15. Operations'
  BY <1>1, <1>3, <1>12 DEF TransferInv, Operations
<1> QED
  BY <1>8, <1>9, <1>10, <1>11, <1>13, <1>14, <1>15 DEF TransferInv

-----------------------------------------------------------------------------
(* Acknowledgement.                                                        *)

LEMMA ForgetEnvelopeInv ==
  ASSUME TransferInv, NEW s \in Hosts, NEW id \in Transfers, ForgetEnvelope(s, id)
  PROVE  TransferInv'
<1> USE DEF Latest, Usable, NoHolder
<1>1. /\ auth[s].kind \in {"out", "receipt"} /\ op[s].at = "free"
      /\ UNCHANGED <<ledger, packet, wire, work, provider, crashes>>
      /\ Open' = Open
  BY DEF ForgetEnvelope, Acknowledged, Free, Open
<1>2. /\ auth'[s].kind = "receipt" /\ \A k \in Hosts : k # s => auth'[k] = auth[k]
      /\ auth' \in [Hosts -> Entries]
  BY Shapes DEF ForgetEnvelope, TransferInv, TypeOK, Ops, Entry, Entries
<1>3. /\ op'[s].at = "settling" /\ \A k \in Hosts : k # s => op'[k] = op[k]
      /\ op' \in [Hosts -> Ops]
  BY Shapes DEF ForgetEnvelope, TransferInv, TypeOK, Ops
<1>4. TypeOK'
  BY <1>1, <1>2, <1>3 DEF TransferInv, TypeOK, Ops, Transfers, Entries
<1>5. NoHolder' = NoHolder /\ OneHolder'
  BY <1>1, <1>2 DEF TransferInv, OneHolder
<1>6. EarlierReceived' /\ Journeys' /\ Imports' /\ Envelopes'
  BY <1>1, <1>2 DEF TransferInv, EarlierReceived, Journeys, Imports, Envelopes, Transfers
<1>7. Staged' /\ Workers'
  <2>1. Staged'
    BY <1>1, <1>2, <1>5 DEF TransferInv, Staged
  <2>2. Workers'
    BY <1>1, <1>2 DEF TransferInv, TypeOK, Workers
  <2> QED
    BY <2>1, <2>2
<1>8. CarriesAll'
  <2>1. Open => packet[Latest].to \in Hosts
    BY Shapes DEF TransferInv, Open, Envelope
  <2> QED
    BY <1>1, <1>2, <1>5, <2>1 DEF TransferInv, CarriesAll
<1>9. Held'
  BY <1>1, <1>2 DEF TransferInv, Held, Preparing, Arrived
<1>10. Operations'
  BY <1>1, <1>2, <1>3 DEF TransferInv, Operations
<1> QED
  BY <1>4, <1>5, <1>6, <1>7, <1>8, <1>9, <1>10 DEF TransferInv

LEMMA RecordTransferredInv ==
  ASSUME TransferInv, NEW s \in Hosts, RecordTransferred(s)
  PROVE  TransferInv'
<1> USE DEF Latest, Open, Usable, NoHolder
<1>1. /\ UNCHANGED <<auth, packet, wire, work, provider, crashes>>
      /\ auth[s].kind = "receipt"
      /\ \A k \in Hosts :
        /\ ledger'[k].received = ledger[k].received /\ ledger'[k].imported = ledger[k].imported
        /\ ledger'[k].usage = ledger[k].usage
        /\ k # s => ledger'[k].phase = ledger[k].phase /\ ledger'[k].id = ledger[k].id
      /\ op'[s].at = "free" /\ \A k \in Hosts : k # s => op'[k] = op[k]
  BY DEF TransferInv, TypeOK, Ops, Operations, RecordTransferred, Free
<1>2. TypeOK'
  <2>1. ledger \in [Hosts -> Rows] /\ ledger[s] \in Rows /\ op[s].id \in Nat
    BY DEF TransferInv, TypeOK, Ops, Rows
  <2>2. ledger' = [ledger EXCEPT ![s] = [@ EXCEPT !.phase = "transferred", !.id = op[s].id]]
    BY DEF RecordTransferred
  <2>3. [ledger[s] EXCEPT !.phase = "transferred", !.id = op[s].id] \in Rows
    BY <2>1 DEF Rows
  <2>4. ledger' \in [Hosts -> Rows]
    BY <2>1, <2>2, <2>3
  <2>5. op' \in [Hosts -> Ops]
    BY DEF TransferInv, TypeOK, Ops, RecordTransferred, Free, NoId
  <2> QED
    BY <1>1, <2>4, <2>5 DEF TransferInv, TypeOK, Ops, Transfers, Rows
<1>3. \A id \in Transfers : packet[id].to \in Hosts
  BY Shapes DEF TransferInv, Envelope
<1>4. Latest # 0 => packet[Latest].to \in Hosts
  BY Shapes DEF TransferInv, Envelope
<1>5. OneHolder' /\ EarlierReceived' /\ Journeys' /\ Imports' /\ Envelopes' /\ Workers'
  BY <1>1, <1>3 DEF TransferInv, OneHolder, EarlierReceived, Journeys, Imports, Envelopes, Transfers, Workers
<1>6. Staged' /\ CarriesAll'
  BY <1>1, <1>4 DEF TransferInv, Staged, CarriesAll
<1>7. Operations'
  BY <1>1, <1>4 DEF TransferInv, Operations
<1>8. Held'
  BY <1>1, <1>4 DEF TransferInv, Held, Preparing, Arrived
<1> QED
  BY <1>2, <1>5, <1>6, <1>7, <1>8 DEF TransferInv

LEMMA CrashInv ==
  ASSUME TransferInv, NEW h \in Hosts, Crash(h)
  PROVE  TransferInv'
<1> USE DEF Latest, Open, Usable, NoHolder
<1>1. /\ UNCHANGED <<auth, ledger, packet, wire, work, provider>>
      /\ op'[h].at = "free" /\ \A k \in Hosts : k # h => op'[k] = op[k]
  BY DEF Crash, Free, TransferInv, TypeOK, Ops
<1>2. TypeOK'
  <2>1. op' \in [Hosts -> Ops]
    <3>1. op \in [Hosts -> Ops] /\ op' = [op EXCEPT ![h] = Free]
      BY DEF Crash, TransferInv, TypeOK, Ops
    <3> QED
      BY <3>1, OpUpdates
  <2>2. crashes' \in Nat
    BY DEF Crash, TransferInv, TypeOK
  <2> QED
    BY <1>1, <2>1, <2>2 DEF TransferInv, TypeOK, Ops, Transfers
<1>3. OneHolder' /\ EarlierReceived' /\ Journeys' /\ Imports' /\ Envelopes'
  BY <1>1 DEF TransferInv, OneHolder, EarlierReceived, Journeys, Imports, Envelopes, Transfers
<1>4. Staged' /\ CarriesAll' /\ Workers'
  BY <1>1 DEF TransferInv, Staged, CarriesAll, Workers
<1>5. Held'
  BY <1>1 DEF TransferInv, Held, Preparing, Arrived
<1>6. Operations'
  BY <1>1 DEF TransferInv, Operations
<1> QED
  BY <1>2, <1>3, <1>4, <1>5, <1>6 DEF TransferInv

-----------------------------------------------------------------------------
(* The invariant, and what the runs check.                                 *)

LEMMA StepInv == TransferInv /\ [Next]_vars => TransferInv'
<1> SUFFICES ASSUME TransferInv, [Next]_vars PROVE TransferInv'
  OBVIOUS
<1>1. CASE UNCHANGED vars
  <2> USE <1>1 DEF vars, Latest, Open, Usable, NoHolder, Transfers
  <2>1. TypeOK' /\ OneHolder' /\ EarlierReceived' /\ Journeys' /\ Imports' /\ Envelopes' /\ Workers'
    BY DEF TransferInv, TypeOK, OneHolder, EarlierReceived, Journeys, Imports, Envelopes, Workers
  <2>2. Staged' /\ CarriesAll' /\ Held' /\ Operations'
    BY DEF TransferInv, Staged, CarriesAll, Held, Operations, Preparing, Arrived
  <2> QED
    BY <2>1, <2>2 DEF TransferInv
<1>2. ASSUME NEW h \in Hosts, Begin(h) \/ Spend(h) \/ End(h) \/ Refresh(h) \/ SetEnabled(h)
      PROVE  TransferInv'
  BY <1>2, BeginInv, SpendInv, EndInv, RefreshInv, SetEnabledInv
<1>3. ASSUME NEW h \in Hosts, NEW d \in Hosts, Prepare(h, d)
      PROVE  TransferInv'
  BY <1>3, PrepareInv
<1>4. ASSUME NEW h \in Hosts, HandOff(h) \/ Deliver(h) \/ Writes(h) \/ Crash(h)
      PROVE  TransferInv'
  BY <1>4, HandOffInv, DeliverInv, RecordOutgoingInv, ImportFactsInv, PromoteInv, AdmitInv, RecordTransferredInv,
     CrashInv DEF Writes
<1>5. ASSUME NEW h \in Hosts, NEW id \in Transfers, Stage(h, id) \/ Continue(h, id) \/ ForgetEnvelope(h, id)
      PROVE  TransferInv'
  BY <1>5, StageInv, ContinueInv, ForgetEnvelopeInv
<1> QED
  BY <1>1, <1>2, <1>3, <1>4, <1>5 DEF Next

LEMMA Invariance == Spec => []TransferInv
BY InitInv, StepInv, PTL DEF Spec

\* Entries of the auth files, rows of the ledgers, envelopes and the commands
\* under way keep their shape, and only what was prepared is sent.
THEOREM TypeCorrect == Spec => []TypeOK
<1>1. TransferInv => TypeOK
  BY DEF TransferInv
<1> QED
  BY <1>1, Invariance, PTL

\* No two hosts can use the account, whatever dies, is lost or comes late: the
\* promise of docs/account-transfer.md that the transfer is exclusive.
THEOREM Exclusive == Spec => []OneHolder
<1>1. TransferInv => OneHolder
  BY DEF TransferInv
<1> QED
  BY <1>1, Invariance, PTL

-----------------------------------------------------------------------------
(* Transfers implement AccountCustody.                                     *)

LEMMA HolderIs ==
  ASSUME OneHolder, NEW h \in Hosts, Usable(h)
  PROVE  Holders = {h} /\ Going = Nowhere /\ Grant = auth[h].grant /\ Counted = ledger[h].usage
<1>1. Holders = {h}
  BY DEF OneHolder, Holders
<1>2. Holder = h
  BY DEF OneHolder, Holder
<1> QED
  BY <1>1, <1>2 DEF Going, Grant, Counted

LEMMA CarriedIs ==
  ASSUME NoHolder
  PROVE  /\ Holders = {} /\ Going = packet[Latest].to
         /\ Grant = packet[Latest].grant /\ Counted = packet[Latest].usage
BY DEF NoHolder, Holders, Going, Grant, Counted, Carried, Latest

\* Nothing the promise speaks of changes.
LEMMA Stutters ==
  ASSUME OneHolder, OneHolder',
         \A h \in Hosts : Usable(h)' <=> Usable(h),
         \A h \in Hosts : Usable(h) => auth'[h].grant = auth[h].grant /\ ledger'[h].usage = ledger[h].usage,
         NoHolder => packet' = packet
  PROVE  UNCHANGED Custody!vars
<1>1. CASE NoHolder
  <2>1. NoHolder' /\ packet' = packet /\ Latest' = Latest
    BY <1>1 DEF NoHolder, Latest
  <2> QED
    BY <1>1, <2>1, CarriedIs DEF Custody!vars, Holders, Going, Grant, Counted, Carried, NoHolder
<1>2. CASE ~NoHolder
  <2>1. PICK h \in Hosts : Usable(h)
    BY <1>2 DEF NoHolder
  <2>2. Holders = {h} /\ Going = Nowhere /\ Grant = auth[h].grant /\ Counted = ledger[h].usage
    BY <2>1, HolderIs
  <2>3. Holders' = {h} /\ Holder' = h
    BY <2>1 DEF OneHolder, Holders, Holder
  <2>4. Going' = Nowhere /\ Grant' = auth'[h].grant /\ Counted' = ledger'[h].usage
    BY <2>3 DEF Going, Grant, Counted
  <2> QED
    BY <2>1, <2>2, <2>3, <2>4 DEF Custody!vars
<1> QED
  BY <1>1, <1>2

LEMMA InitCustody == Init => Custody!Init
<1> SUFFICES ASSUME Init PROVE Custody!Init
  OBVIOUS
<1>1. /\ OneHolder /\ First \in Hosts /\ Usable(First)
      /\ auth[First].grant = 0 /\ ledger[First].usage = 0
  BY InitInv, TransferAssumption DEF TransferInv, Init, NoRows, Oauth, Entry, Usable
<1> QED
  BY <1>1, HolderIs DEF Custody!Init

LEMMA HandOffDeparts ==
  ASSUME TransferInv, TransferInv', NEW s \in Hosts, HandOff(s)
  PROVE  Custody!Next
<1>1. Usable(s) /\ s \notin work /\ ledger[s].phase = "preparing" /\ op[s].at = "free"
  BY DEF HandOff, Free
<1>2. Open /\ Preparing(s)
  BY <1>1 DEF TransferInv, Held, Arrived
<1>3. /\ Latest \in Transfers /\ ledger[s].id = Latest /\ packet[Latest].from = s
      /\ packet \in Seq(Envelope) /\ packet[Latest] \in Envelope /\ Latest \in 1..Len(packet)
  BY <1>2, Shapes DEF TransferInv, TypeOK, Envelope, Open, Preparing, Transfers
<1>4. packet' = [packet EXCEPT ![Latest] = [@ EXCEPT !.grant = auth[s].grant, !.usage = ledger[s].usage]]
  BY <1>3 DEF HandOff
<1>5. /\ packet'[Latest].to = packet[Latest].to /\ packet'[Latest].grant = auth[s].grant
      /\ packet'[Latest].usage = ledger[s].usage /\ Latest' = Latest
  BY <1>3, <1>4 DEF Latest, Envelope
<1>6. NoHolder'
  BY <1>1 DEF HandOff, TransferInv, TypeOK, OneHolder, NoHolder, Usable, Entry
<1>7. packet[Latest].to \in Hosts /\ packet[Latest].to # s
  BY <1>3 DEF TransferInv, Journeys, Envelope
<1>8. Holders = {s} /\ Going = Nowhere /\ Grant = auth[s].grant /\ Counted = ledger[s].usage
  BY <1>1, HolderIs DEF TransferInv
<1>9. Holders' = {} /\ Going' = packet[Latest].to /\ Grant' = auth[s].grant /\ Counted' = ledger[s].usage
  BY <1>5, <1>6 DEF NoHolder, Holders, Going, Grant, Counted, Carried, Latest
<1>10. Custody!Depart(packet[Latest].to)
  BY <1>7, <1>8, <1>9 DEF Custody!Depart
<1> QED
  BY <1>7, <1>10 DEF Custody!Next

LEMMA PromoteArrives ==
  ASSUME TransferInv, TransferInv', NEW d \in Hosts, Promote(d)
  PROVE  Custody!Next \/ UNCHANGED Custody!vars
<1>1. /\ Open /\ packet[Latest].to = d /\ Latest \in ledger[d].imported
      /\ auth[d].kind = "in" \/ Usable(d)
      /\ UNCHANGED <<ledger, packet>>
  BY DEF TransferInv, Operations, Promote
<1>2. auth'[d] = (IF auth[d].kind = "in" THEN Oauth(auth[d].grant) ELSE auth[d])
      /\ \A k \in Hosts : k # d => auth'[k] = auth[k]
  BY DEF Promote, TransferInv, TypeOK
<1>3. CASE auth[d].kind = "in"
  <2>1. NoHolder /\ auth[d].grant = packet[Latest].grant /\ ledger[d].usage = packet[Latest].usage
    BY <1>1, <1>3 DEF TransferInv, Staged
  <2>2. Holders = {} /\ Going = d /\ Grant = auth[d].grant /\ Counted = ledger[d].usage
    BY <1>1, <2>1, CarriedIs
  <2>3. auth'[d].kind = "oauth" /\ auth'[d].grant = auth[d].grant
    BY <1>2, <1>3 DEF Oauth, Entry
  <2>4. Holders' = {d} /\ Holder' = d
    BY <1>2, <2>1, <2>3 DEF Holders, Holder, Usable, NoHolder
  <2>5. Going' = Nowhere /\ Grant' = auth[d].grant /\ Counted' = ledger[d].usage
    BY <1>1, <2>3, <2>4 DEF Going, Grant, Counted
  <2>6. Custody!Arrive
    BY <2>2, <2>4, <2>5 DEF Custody!Arrive
  <2> QED
    BY <2>6 DEF Custody!Next
<1>4. CASE auth[d].kind # "in"
  <2>1. \A k \in Hosts : auth'[k] = auth[k]
    BY <1>2, <1>4
  <2> QED
    BY <1>1, <2>1, Stutters DEF TransferInv, Usable
<1> QED
  BY <1>3, <1>4

LEMMA RefreshRotates ==
  ASSUME TransferInv, TransferInv', NEW h \in Hosts, Refresh(h)
  PROVE  Custody!Next
<1>1. /\ Usable(h) /\ auth[h].grant = provider /\ UNCHANGED <<ledger, packet>>
      /\ auth'[h].grant = provider + 1 /\ Usable(h)'
  BY DEF TransferInv, TypeOK, Held, Refresh, Usable
<1>2. Holders = {h} /\ Going = Nowhere /\ Grant = provider /\ Counted = ledger[h].usage
  BY <1>1, HolderIs DEF TransferInv
<1>3. Holders' = {h} /\ Holder' = h
  BY <1>1 DEF TransferInv, OneHolder, Holders, Holder
<1>4. Going' = Nowhere /\ Grant' = provider + 1 /\ Counted' = ledger[h].usage
  BY <1>1, <1>3 DEF Going, Grant, Counted
<1>5. Custody!Rotate
  BY <1>2, <1>3, <1>4 DEF Custody!Rotate
<1> QED
  BY <1>5 DEF Custody!Next

LEMMA SpendCounts ==
  ASSUME TransferInv, TransferInv', NEW h \in Hosts, Spend(h)
  PROVE  Custody!Next
<1>1. /\ Usable(h) /\ UNCHANGED <<auth, packet>> /\ Usable(h)'
      /\ ledger'[h].usage = ledger[h].usage + 1
  BY DEF TransferInv, TypeOK, Workers, Spend, Usable
<1>2. Holders = {h} /\ Going = Nowhere /\ Grant = auth[h].grant /\ Counted = ledger[h].usage
  BY <1>1, HolderIs DEF TransferInv
<1>3. Holders' = {h} /\ Holder' = h
  BY <1>1 DEF TransferInv, OneHolder, Holders, Holder
<1>4. Going' = Nowhere /\ Grant' = auth[h].grant /\ Counted' = ledger[h].usage + 1
  BY <1>1, <1>3 DEF Going, Grant, Counted
<1>5. Custody!Spend
  BY <1>2, <1>3, <1>4 DEF Custody!Spend
<1> QED
  BY <1>5 DEF Custody!Next

\* A step that leaves the credentials, the usage and the envelopes alone.
LEMMA RowsStutter ==
  ASSUME TransferInv, TransferInv', UNCHANGED <<auth, packet>>,
         \A k \in Hosts : ledger'[k].usage = ledger[k].usage
  PROVE  UNCHANGED Custody!vars
BY Stutters DEF TransferInv, Usable

\* A step that replaces an entry nobody can use by another one of that kind.
LEMMA EntryStutters ==
  ASSUME TransferInv, TransferInv', UNCHANGED <<ledger, packet>>, NEW h \in Hosts,
         ~Usable(h), ~Usable(h)', \A k \in Hosts : k # h => auth'[k] = auth[k]
  PROVE  UNCHANGED Custody!vars
<1>1. \A k \in Hosts : Usable(k)' <=> Usable(k)
  BY DEF Usable
<1>2. \A k \in Hosts : Usable(k) => auth'[k].grant = auth[k].grant /\ ledger'[k].usage = ledger[k].usage
  OBVIOUS
<1> QED
  BY <1>1, <1>2, Stutters DEF TransferInv

LEMMA PrepareStutters ==
  ASSUME TransferInv, TransferInv', NEW s \in Hosts, NEW d \in Hosts, Prepare(s, d)
  PROVE  UNCHANGED Custody!vars
<1>1. UNCHANGED auth /\ ~NoHolder
  BY DEF Prepare, NoHolder
<1>2. \A k \in Hosts : ledger'[k].usage = ledger[k].usage
  BY DEF Prepare, TransferInv, TypeOK
<1>3. \A k \in Hosts : Usable(k)' <=> Usable(k)
  BY <1>1 DEF Usable
<1>4. \A k \in Hosts : Usable(k) => auth'[k].grant = auth[k].grant /\ ledger'[k].usage = ledger[k].usage
  BY <1>1, <1>2
<1> QED
  BY <1>1, <1>3, <1>4, Stutters DEF TransferInv

\* Facts are written while nobody can use the account.
LEMMA ImportFactsStutters ==
  ASSUME TransferInv, TransferInv', NEW d \in Hosts, ImportFacts(d)
  PROVE  UNCHANGED Custody!vars
<1>1. NoHolder /\ UNCHANGED <<auth, packet>>
  BY DEF TransferInv, Operations, Staged, ImportFacts
<1>2. \A k \in Hosts : ~Usable(k) /\ ~Usable(k)'
  BY <1>1 DEF NoHolder, Usable
<1>3. /\ \A k \in Hosts : Usable(k)' <=> Usable(k)
      /\ \A k \in Hosts : Usable(k) => auth'[k].grant = auth[k].grant /\ ledger'[k].usage = ledger[k].usage
  BY <1>2
<1> QED
  BY <1>1, <1>3, Stutters DEF TransferInv

LEMMA AdmitStutters ==
  ASSUME TransferInv, TransferInv', NEW d \in Hosts, Admit(d)
  PROVE  UNCHANGED Custody!vars
<1>1. UNCHANGED <<auth, packet>> /\ ledger' = [ledger EXCEPT ![d] = WithReceipt(ledger[d], op[d].id)]
  BY DEF Admit
<1>2. ledger \in [Hosts -> Rows] /\ ledger[d] \in Rows /\ op[d].id \in Nat
  BY DEF TransferInv, TypeOK, Rows
<1>3. WithReceipt(ledger[d], op[d].id).usage = ledger[d].usage
  BY <1>2, RowUpdates
<1>4. \A k \in Hosts : ledger'[k].usage = ledger[k].usage
  BY <1>1, <1>2, <1>3
<1> QED
  BY <1>1, <1>4, RowsStutter

LEMMA StageStutters ==
  ASSUME TransferInv, TransferInv', NEW d \in Hosts, NEW id \in Transfers, Stage(d, id)
  PROVE  UNCHANGED Custody!vars
<1>1. /\ id = Latest /\ Open /\ packet[Latest].to = d
      /\ op[d].at = "free" /\ Latest \in wire /\ Latest \notin ledger[d].received
  BY OnlyLatest DEF Stage
<1>2. ~Usable(d)
  BY <1>1 DEF TransferInv, Held, Preparing, Arrived, Stage, Unfinished
<1>3. /\ UNCHANGED <<ledger, packet>>
      /\ auth'[d].kind = "in" /\ \A k \in Hosts : k # d => auth'[k] = auth[k]
  BY <1>1 DEF Stage, TransferInv, TypeOK, Entry
<1> QED
  BY <1>2, <1>3, EntryStutters DEF Usable

LEMMA ForgetEnvelopeStutters ==
  ASSUME TransferInv, TransferInv', NEW s \in Hosts, NEW id \in Transfers, ForgetEnvelope(s, id)
  PROVE  UNCHANGED Custody!vars
<1>1. /\ auth[s].kind \in {"out", "receipt"} /\ UNCHANGED <<ledger, packet>>
      /\ auth'[s].kind = "receipt" /\ \A k \in Hosts : k # s => auth'[k] = auth[k]
  BY DEF ForgetEnvelope, Acknowledged, TransferInv, TypeOK, Entry
<1> QED
  BY <1>1, EntryStutters DEF Usable

LEMMA StepCustody ==
  TransferInv /\ TransferInv' /\ [Next]_vars => [Custody!Next]_<<Holders, Going, Grant, Counted>>
<1> SUFFICES ASSUME TransferInv, TransferInv', [Next]_vars
             PROVE  Custody!Next \/ UNCHANGED Custody!vars
  BY DEF Custody!vars
<1>1. ASSUME UNCHANGED <<auth, ledger, packet>> PROVE UNCHANGED Custody!vars
  BY <1>1, RowsStutter
<1>2. ASSUME NEW h \in Hosts, SetEnabled(h) \/ RecordOutgoing(h) \/ RecordTransferred(h)
      PROVE  UNCHANGED Custody!vars
  <2>1. UNCHANGED <<auth, packet>>
    BY <1>2 DEF SetEnabled, RecordOutgoing, RecordTransferred
  <2>2. ledger \in [Hosts -> Rows]
    BY DEF TransferInv, TypeOK, Rows
  <2>3. CASE SetEnabled(h)
    BY <2>1, <2>2, <2>3, RowsStutter DEF SetEnabled, Rows
  <2>4. CASE RecordOutgoing(h)
    BY <2>1, <2>2, <2>4, RowsStutter DEF RecordOutgoing, Rows
  <2>5. CASE RecordTransferred(h)
    BY <2>1, <2>2, <2>5, RowsStutter DEF RecordTransferred, Rows
  <2> QED
    BY <1>2, <2>3, <2>4, <2>5
<1>3. ASSUME NEW h \in Hosts, Begin(h) \/ End(h) \/ Deliver(h) \/ Crash(h) PROVE UNCHANGED Custody!vars
  BY <1>1, <1>3 DEF Begin, End, Deliver, Crash
<1>4. ASSUME NEW h \in Hosts, Spend(h) \/ Refresh(h) \/ HandOff(h) PROVE Custody!Next
  BY <1>4, SpendCounts, RefreshRotates, HandOffDeparts
<1>5. ASSUME NEW h \in Hosts, NEW d \in Hosts, Prepare(h, d) PROVE UNCHANGED Custody!vars
  BY <1>5, PrepareStutters
<1>6. ASSUME NEW h \in Hosts, Writes(h) PROVE Custody!Next \/ UNCHANGED Custody!vars
  BY <1>2, <1>6, ImportFactsStutters, PromoteArrives, AdmitStutters DEF Writes
<1>7. ASSUME NEW h \in Hosts, NEW id \in Transfers, Stage(h, id) \/ Continue(h, id) \/ ForgetEnvelope(h, id)
      PROVE  UNCHANGED Custody!vars
  BY <1>1, <1>7, StageStutters, ForgetEnvelopeStutters DEF Continue
<1>8. CASE UNCHANGED vars
  BY <1>1, <1>8 DEF vars
<1> QED
  BY <1>2, <1>3, <1>4, <1>5, <1>6, <1>7, <1>8 DEF Next

\* Every history of commands, deaths, late packets and late answers is one of
\* a single account that is somewhere or on its way, with its last credential
\* and all of its usage: what docs/account-transfer.md promises.
THEOREM Refinement == Spec => KeepsCustody
<1>1. [Custody!Next]_<<Holders, Going, Grant, Counted>> => [Custody!Next]_Custody!vars
  BY DEF Custody!vars
<1> QED
  BY <1>1, InitCustody, StepCustody, Invariance, PTL DEF Spec, KeepsCustody, Custody!Spec
=============================================================================
