--------------------------- MODULE AccountCustody ---------------------------
(***************************************************************************)
(* What the transfer of an account promises (auth/account-transfer.ts,     *)
(* docs/account-transfer.md): the account is usable on one host or on its  *)
(* way to one, which is then the only one it can arrive at; its credential *)
(* is never an older one, and no usage is forgotten or counted twice.      *)
(***************************************************************************)
EXTENDS Naturals

CONSTANTS Hosts, First, Nowhere

VARIABLES
  holders,  \* the hosts that can use the account
  going,    \* where it is going
  grant,    \* the credential that is used, or carried
  counted   \* the usage that is known where the account is

vars == <<holders, going, grant, counted>>

Init == holders = {First} /\ going = Nowhere /\ grant = 0 /\ counted = 0

Depart(d) ==
  /\ holders # {} /\ d \notin holders
  /\ holders' = {} /\ going' = d
  /\ UNCHANGED <<grant, counted>>

Arrive ==
  /\ holders = {}
  /\ holders' = {going} /\ going' = Nowhere
  /\ UNCHANGED <<grant, counted>>

Rotate == holders # {} /\ grant' = grant + 1 /\ UNCHANGED <<holders, going, counted>>

Spend == holders # {} /\ counted' = counted + 1 /\ UNCHANGED <<holders, going, grant>>

Next == (\E d \in Hosts : Depart(d)) \/ Arrive \/ Rotate \/ Spend

Spec == Init /\ [][Next]_vars
=============================================================================
