---------------------------- MODULE MCSchedules ----------------------------
(* Schedules over a few intervals.                                         *)
EXTENDS Schedules
=============================================================================
