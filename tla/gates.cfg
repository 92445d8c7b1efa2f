SPECIFICATION Spec
CONSTANTS
  Pages = {p1, p2}
  MaxPresses = 4
  MaxFaults = 1
  Null = Null
SYMMETRY Symmetry
INVARIANTS
    NoDeadEnd
    ScenesAsApproved
CHECK_DEADLOCK FALSE
