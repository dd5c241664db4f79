--------------------------- MODULE InputDelivery ---------------------------
(***************************************************************************)
(* What a native session promises about its inputs, without queues, runs,  *)
(* receipts or crashes: an input enters the conversation at most once, and *)
(* only an input that entered it is ever settled.                          *)
(***************************************************************************)
CONSTANT Works

VARIABLE phase

Phases == {"outside", "taken", "delivered", "settled"}

InPhase(p) == {w \in Works : phase[w] = p}

Moved(ws, p) == phase' = [w \in Works |-> IF w \in ws THEN p ELSE phase[w]]

Init == phase = [w \in Works |-> "outside"]

Take(w) == phase[w] = "outside" /\ Moved({w}, "taken")

Deliver(w) == phase[w] = "taken" /\ Moved({w}, "delivered")

\* A turn ends: what was delivered is settled, what still waited is given back.
End(settled, returned) ==
  /\ settled \subseteq InPhase("delivered") \cup InPhase("settled")
  /\ returned \subseteq InPhase("taken")
  /\ phase' = [w \in Works |-> IF w \in settled THEN "settled"
                               ELSE IF w \in returned THEN "outside" ELSE phase[w]]

Next ==
  \/ \E w \in Works : Take(w) \/ Deliver(w)
  \/ \E settled, returned \in SUBSET Works : End(settled, returned)

Spec == Init /\ [][Next]_phase
=============================================================================
