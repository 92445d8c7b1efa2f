SPECIFICATION ChatSpec
CONSTANTS
  Thread = {t1, t2}
  Wires <- MCWires
  MaxCalls = 4
  MaxDeaths = 1
INVARIANTS
  ExchangesKept
  ProjectFollows
  CauseNamed
SYMMETRY Symmetry
CHECK_DEADLOCK FALSE
