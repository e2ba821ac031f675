SPECIFICATION Spec
CONSTANTS
  Procs = {p1, p2}
  NoThread = NoThread
  NTimers = 2
  Ids = {0, 1, 5}
  MaxSets = 3
SYMMETRY Symmetry
INVARIANT TimersKeepSlots
PROPERTY LostMutexFreezes
\* In the end every process is dead.
CHECK_DEADLOCK FALSE
