---------------------------- MODULE EventStream ----------------------------
(***************************************************************************)
(* What a runner promises of the events of a session (runner-output.ts,    *)
(* runner-transport.ts): the daemon that watches is handed each event once *)
(* and in the order of production. A daemon that comes after another may   *)
(* be handed some events again, but none between is passed over.           *)
(***************************************************************************)
EXTENDS Naturals

VARIABLES
  produced,  \* number of events produced
  handed,    \* the last event handed to the daemon that watches, 0 for none
  high       \* the last event handed to any daemon

vars == <<produced, handed, high>>

Init == produced = 0 /\ handed = 0 /\ high = 0

Produce == produced' = produced + 1 /\ UNCHANGED <<handed, high>>

\* A daemon that was handed an event continues with the next. The first event
\* of a daemon leaves no gap behind what the ones before it were handed.
Hand(n) ==
  /\ n \in 1..produced
  /\ IF handed = 0 THEN n <= high + 1 ELSE n = handed + 1
  /\ handed' = n
  /\ high' = IF n > high THEN n ELSE high
  /\ UNCHANGED produced

Replace == handed' = 0 /\ UNCHANGED <<produced, high>>

Next == Produce \/ (\E n \in 1..produced : Hand(n)) \/ Replace

Spec == Init /\ [][Next]_vars
=============================================================================
