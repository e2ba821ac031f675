SPECIFICATION MCSpec
CONSTANTS
  p1 = p1
  p2 = p2
  p3 = p3
  a1 = a1
  a2 = a2
  b1 = b1
  c1 = c1
  Procs = {p1, p2, p3}
  Threads = {a1, a2, b1, c1}
  ProcOf <- MCProcOf
  NoThread = NoThread
  Mortal = {p1, p2}
  MaxObjects = 2
  Callers = {t1, t2, t3}
  Interruptible = {t1, t2}
  Clients = {r1, r2}
  Texts <- MCTexts
  Size <- MCSize
  Missing = Missing
  MaxKeys = 2
INVARIANTS OneContext OneSegment MappedWhole MutexGivenBack  ValueWasThere DefaultOnlyIfMissing
\* A process that dies inside keeps the mutex, the threads no signal reaches
\* wait for ever, and the keys that may be created run out.
CHECK_DEADLOCK FALSE
