------------------------- MODULE MCThreadExecution -------------------------
(* ThreadExecution on two or three inputs.                                 *)
EXTENDS ThreadExecution
=============================================================================
