SPECIFICATION Spec
CONSTANTS
  Procs = {p1, p2}
  Pids = {pid1, pid2}
  NoPid = NoPid
  NoLib = NoLib
  Wild = Wild
  NApps = 1
  NServices = 2
  NHandles = 2
  WordCells = 1
  MaxService = 3
  MaxHandle = 5
  MaxReqId = 2
  MaxCalls = 1
  MaxMarks = 1
SYMMETRY Symmetry
VIEW View
INVARIANTS ServiceIssuedOnce RequestIdsFromOne
PROPERTIES ErrorsOnlyBurnEntries EntriesOfDeadStay
\* Every process incarnation may have come and gone.
CHECK_DEADLOCK FALSE
