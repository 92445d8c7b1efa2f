SPECIFICATION BothSpec
CONSTANTS
  Requests = {r1, r2}
  Callers = {r1, r2}
  Words = {"x"}
  SlugOf <- MCSlugOf
  Outdirs <- MCOutdirs
  MaxJobs = 3
  MaxCalls = 4
  MaxMinutes = 1
  MaxTries = 2
  Projects = {p1}
  Nobody = Nobody
  MaxCardCalls = 6
  MaxFaults = 1
SYMMETRY Symmetry
INVARIANTS
  FilesStay
  CardsHold
CHECK_DEADLOCK FALSE
