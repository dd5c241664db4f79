------------------------ MODULE MCCapacityAuthority ------------------------
(* CapacityAuthority on two agents, two owners and three executions.       *)
EXTENDS CapacityAuthority

\* Every census of at most two entries, overlapping ones included.
MCCensuses == {{}} \cup {{x, y} : x, y \in CensusEntry}
=============================================================================
