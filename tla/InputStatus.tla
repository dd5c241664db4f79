----------------------------- MODULE InputStatus -----------------------------
(***************************************************************************)
(* What a native session remembers of its answers to input commands        *)
(* (PiInputStatus): a command is in flight from its arrival to its answer, *)
(* then accepted or rejected. The entries are in the session file, so a    *)
(* command that is sent again after a crash is answered and not obeyed.    *)
(*                                                                         *)
(* A command is identified by the execution and the input it is for. Only  *)
(* the last command of an input is kept here: the controller never asks    *)
(* for an earlier one.                                                     *)
(***************************************************************************)
CONSTANTS Works, None

VARIABLE status  \* thread_input_status: the last command of each input

States == {"never_accepted", "in_flight", "accepted", "rejected"}

TypeOK == status \in [Works -> [execution : Works \cup {None}, state : States]]

Init == status = [w \in Works |-> [execution |-> None, state |-> "never_accepted"]]

\* What was recorded of this command.
Recorded(e, w) == IF status[w].execution = e THEN status[w].state ELSE "never_accepted"

\* begin, of a command that is not on record.
Begun(e, w) == [status EXCEPT ![w] = [execution |-> e, state |-> "in_flight"]]

\* finish: the first answer counts.
Answered(table, w, success) ==
  [table EXCEPT ![w].state = IF @ # "in_flight" THEN @
                             ELSE IF success THEN "accepted" ELSE "rejected"]

\* query: a command without a record is judged by the receipts of its input.
Query(e, w, admitted) ==
  IF Recorded(e, w) = "never_accepted" /\ admitted THEN "accepted" ELSE Recorded(e, w)
=============================================================================
