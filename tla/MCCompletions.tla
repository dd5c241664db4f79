--------------------------- MODULE MCCompletions ---------------------------
(* Completions for two requests, one of which may be refused and cancelled. *)
EXTENDS Completions

CONSTANTS r1, r2

First == {r1}
=============================================================================
