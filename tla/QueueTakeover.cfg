SPECIFICATION Spec
CONSTANTS
  Writers = {w1, w2}
  Readers = {r1}
  Clearers = {}
  Mortal = {}
  Interrupted = {}
  Async = {}
  Big = {}
  Short = {}
  NoThread = NoThread
  QueueSize = 3
  SemMax = 2
  MaxWrites = 2
  Timely = FALSE
INVARIANT TakeoverOnlyFromDead
\* As in QueueLive.cfg, the readers wait in the end.
CHECK_DEADLOCK FALSE
