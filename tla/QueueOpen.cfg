SPECIFICATION Spec
CONSTANTS
  Procs = {p1, p2, p3, p4}
  NoProc = NoProc
  Sizes = {1, 2, 3}
  Interruptible = {p1, p2, p3, p4}
SYMMETRY Symmetry
INVARIANTS AttachedAgree RingInSegment
PROPERTY SizeSetOnce
\* In the end every process is dead.
CHECK_DEADLOCK FALSE
