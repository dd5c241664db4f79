------------------------- MODULE MCAccountTransfer -------------------------
(* AccountTransfer on three hosts: an account returns, or goes on.         *)
EXTENDS AccountTransfer

CONSTANTS a, b, c
=============================================================================
