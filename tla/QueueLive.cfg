SPECIFICATION FairSpec
CONSTANTS
  Writers = {w1, w2, w3}
  Readers = {r1, r2}
  Clearers = {}
  Mortal = {}
  Interrupted = {}
  Async = {}
  Big = {}
  Short = {}
  NoThread = NoThread
  QueueSize = 2
  SemMax = 2
  MaxWrites = 1
  Timely = TRUE
INVARIANT NoLostWakeup
PROPERTY EveryMessageLeaves
\* Once every writer has written all its messages the readers wait for ever.
CHECK_DEADLOCK FALSE
