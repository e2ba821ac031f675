SPECIFICATION Spec
CONSTANTS
  Procs = {p1, p2}
  Pids = {pid1, pid2}
  NoPid = NoPid
  NoLib = NoLib
  Wild = Wild
  NApps = 2
  NServices = 1
  NHandles = 2
  WordCells = 1
  MaxService = 4
  MaxHandle = 6
  MaxReqId = 1
  MaxCalls = 1
  MaxMarks = 1
SYMMETRY Symmetry
VIEW View
INVARIANTS PidsUnique SessionIntact CallsUseOwnLibrary HandlesMatchClients
\* Every process incarnation may have come and gone.
CHECK_DEADLOCK FALSE
