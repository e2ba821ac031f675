SPECIFICATION Spec
CONSTANTS
  Clients = {c1, c2}
  Names = {n1, n2}
  Buffers = {b1}
  MaxRegs = 2
  MaxEvents = 2
INVARIANTS LatestCallback OnlyUnwantedDropped
PROPERTY EventsHandled
\* A process that has crashed does nothing.
CHECK_DEADLOCK FALSE
