SPECIFICATION Spec
CONSTANTS
  Writers = {w1, w2, w3}
  Readers = {r1}
  Clearers = {c1}
  Mortal = {w1, w2, r1}
  Interrupted = {w2, r1}
  Async = {w2}
  Big = {w2}
  Short = {r1}
  NoThread = NoThread
  QueueSize = 3
  SemMax = 2
  MaxWrites = 1
  Timely = TRUE
INVARIANTS MutualExclusion FIFO
PROPERTY ImplementsQueue
\* Threads die, and the ones that remain may wait for them for ever.
CHECK_DEADLOCK FALSE
