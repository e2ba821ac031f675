SPECIFICATION Spec
CONSTANTS
  Writers = {w1}
  Readers = {r1}
  Clearers = {c1}
  Mortal = {}
  Interrupted = {c1}
  Async = {}
  Big = {}
  Short = {}
  NoThread = NoThread
  QueueSize = 3
  SemMax = 2
  MaxWrites = 2
  Timely = TRUE
INVARIANT ReadReturnsData
\* As in QueueLive.cfg, the readers wait in the end.
CHECK_DEADLOCK FALSE
