CONSTANTS
  Processes = {p1, p2}
  MaxGrants = 2
SPECIFICATION Spec
INVARIANTS RejectedIsMarked LoginIsNeeded 
CHECK_DEADLOCK FALSE
SYMMETRY ProcessSymmetry
