SPECIFICATION Spec
CONSTANTS
  Pages = {p1, p2}
  NScenes = 3
  Fresh = {3}
  MaxPresses = 2
  MaxFaults = 1
  Null = Null
SYMMETRY Symmetry
INVARIANTS
    ChainIsFresh
    FinalOfTakes
    NothingHangs
CHECK_DEADLOCK FALSE
