------------------------ MODULE MCSharedCredential ------------------------
(* SharedCredential on two processes.                                      *)
EXTENDS SharedCredential, TLC

ProcessSymmetry == Permutations(Processes)
=============================================================================
