SPECIFICATION Spec
CONSTANTS
  Writers = {w1, w2}
  Readers = {r1}
  Clearers = {}
  Mortal = {}
  Interrupted = {}
  Async = {w1, w2, r1}
  Big = {}
  Short = {}
  NoThread = NoThread
  QueueSize = 2
  SemMax = 2
  MaxWrites = 2
  Timely = TRUE
INVARIANT AsyncNeverWaits
\* As in QueueLive.cfg, the readers wait in the end.
CHECK_DEADLOCK FALSE
