---------------------------- MODULE MCWatchList ----------------------------
(* The watch list with two items, of which agents change one, and two      *)
(* destinations.                                                           *)
EXTENDS WatchList

CONSTANTS i1, i2

First == {i1}
=============================================================================
