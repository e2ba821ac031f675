---------------------------- MODULE MessageQueue ----------------------------
(***************************************************************************)
(* CMessageQueue (msgqueue/MessageQueue.h) over CSemaphore (Semaphore.h):  *)
(* a ring buffer in shared memory that threads of several processes write, *)
(* read and clear.  semWrite and semRead admit one writer and one reader;  *)
(* a writer that finds the ring full waits on semWaitRead, a reader that   *)
(* finds it empty on semWaitWrite.                                         *)
(*                                                                         *)
(* A CSemaphore is a POSIX semaphore and, beside it, a word with the id of *)
(* the last thread that got it.  Wait polls with a timeout of a second:    *)
(* when the thread named in the word no longer exists, the waiter puts its *)
(* own id there, sleeps a millisecond and, if the id is still its own,     *)
(* takes the semaphore over from the dead thread.  The steps between which *)
(* other threads can run are actions here.                                 *)
(***************************************************************************)
EXTENDS Integers, Sequences, FiniteSets

CONSTANTS Writers, Readers, Clearers,   \* threads that call Write, Read, Clear
          Mortal,       \* the threads that may die, anywhere
          Interrupted,  \* the threads whose sem_timedwait may fail (EINTR)
          Async,        \* the threads that call SetMode on their queue object
          Big, Short,   \* messages of Big do not fit the buffers of Short
          NoThread,     \* the 0 the thread id words start with
          QueueSize,    \* m_queueSize
          SemMax,       \* SEM_VALUE_MAX, where sem_post fails
          MaxWrites,    \* bound: calls of Write per writer
          Timely        \* the assumption about speed that Wait makes: see
                        \* Query and Confirm

Threads == Writers \cup Readers \cup Clearers

ASSUME RolesAssumption ==
    /\ Writers \cap Readers = {} /\ Writers \cap Clearers = {} /\ Readers \cap Clearers = {}
    /\ Mortal \subseteq Threads /\ Interrupted \subseteq Threads /\ Async \subseteq Threads
    /\ Big \subseteq Writers /\ Short \subseteq Readers
    /\ NoThread \notin Threads
ASSUME QueueSizeAssumption == QueueSize \in Nat \ {0} /\ MaxWrites \in Nat
ASSUME SemMaxAssumption == SemMax \in Nat \ {0}
ASSUME TimelyAssumption == Timely \in BOOLEAN

VARIABLES val,          \* semaphore -> its value
          tid,          \* semaphore -> thread id word
          head, tail,   \* m_pBase->head, m_pBase->tail
          data,         \* m_pBase->data
          loc,          \* thread -> place in Write, Read or Clear
          phase,        \* thread -> place in CSemaphore::Wait
          buf,          \* reader -> message copied out of the ring
          mode          \* thread -> m_modeBlock of its queue object

\* History.
VARIABLES writes,       \* writer -> messages it has begun to write
          accepted,     \* messages in the order head passed them
          out           \* messages in the order tail passed them

sems == <<val, tid>>
ring == <<head, tail, data>>
history == <<writes, accepted, out>>
vars == <<sems, ring, loc, phase, buf, mode, history>>

Sems == {"semRead", "semWrite", "semWaitRead", "semWaitWrite"}
Slots == 0..(QueueSize - 1)
NoMsg == <<>>
Modes == {"BLOCK", "ASYNCHRONOUS"}

\* The message a writer is writing, and whether it fits the buffer of a reader.
Message(t) == <<t, writes[t]>>
Fits(m, t) == t \in Short => m[1] \notin Big

\* The semaphore a thread locks, the one it waits on and the one it signals.
Mutex(t) == IF t \in Writers THEN "semWrite" ELSE "semRead"
Awaits(t) == IF t \in Writers THEN "semWaitRead" ELSE "semWaitWrite"
Signals(t) == IF t \in Writers THEN "semWaitWrite" ELSE "semWaitRead"

\* The semaphore whose Wait a thread is in.
SemOf(t) == IF loc[t] = "lock" THEN Mutex(t) ELSE Awaits(t)

Waiting(t) == loc[t] \in {"lock", "wait"}

Init ==
    /\ val = [s \in Sems |-> 1]
    /\ tid = [s \in Sems |-> NoThread]
    /\ head = 0 /\ tail = 0
    /\ data = [i \in Slots |-> NoMsg]
    /\ loc = [t \in Threads |-> "idle"]
    /\ phase = [t \in Threads |-> "try"]
    /\ buf = [t \in Readers |-> NoMsg]
    /\ mode = [t \in Threads |-> "BLOCK"]
    /\ writes = [t \in Writers |-> 0]
    /\ accepted = <<>>
    /\ out = <<>>

Goto(t, l) == loc' = [loc EXCEPT ![t] = l]

-----------------------------------------------------------------------------
(* CSemaphore.                                                             *)

Exists(t) == t # NoThread /\ loc[t] # "dead"

\* Wait returns WAIT_OBJECT_0.
WaitReturns(t) ==
    /\ phase' = [phase EXCEPT ![t] = "try"]
    /\ Goto(t, IF t \in Clearers THEN "clear" ELSE "check")

\* sem_timedwait succeeds.
Acquire(t) ==
    /\ Waiting(t) /\ phase[t] = "try"
    /\ val[SemOf(t)] > 0
    /\ val' = [val EXCEPT ![SemOf(t)] = @ - 1]
    /\ phase' = [phase EXCEPT ![t] = "own"]
    /\ UNCHANGED <<mode, tid, ring, loc, buf, history>>

\* The new owner writes its id.
Own(t) ==
    /\ Waiting(t) /\ phase[t] = "own"
    /\ tid' = [tid EXCEPT ![SemOf(t)] = t]
    /\ WaitReturns(t)
    /\ UNCHANGED <<mode, val, ring, buf, history>>

\* sem_timedwait fails with ETIMEDOUT.
TimeOut(t) ==
    /\ Waiting(t) /\ phase[t] = "try"
    /\ val[SemOf(t)] = 0
    /\ phase' = [phase EXCEPT ![t] = "timedout"]
    /\ UNCHANGED <<mode, sems, ring, loc, buf, history>>

\* Some other thread that locks the mutex of t is in phase p of its Wait.
Rival(t, p) ==
    \E u \in Threads \ {t} : loc[u] = "lock" /\ Mutex(u) = Mutex(t) /\ phase[u] = p

\* The waiter polls again when the word has its own id or that of a thread that
\* exists.  A query for a mutex is Timely when the mutex is still held, and the
\* thread that got it has written its id: between a failed poll and its query
\* nobody posts and exits, or gets the mutex and is slow to say so.
Query(t) ==
    /\ Waiting(t) /\ phase[t] = "timedout"
    /\ IF tid[SemOf(t)] = t \/ Exists(tid[SemOf(t)])
         THEN phase' = [phase EXCEPT ![t] = "try"]
         ELSE /\ Timely /\ loc[t] = "lock" => val[Mutex(t)] = 0 /\ ~Rival(t, "own")
              /\ phase' = [phase EXCEPT ![t] = "claim"]
    /\ UNCHANGED <<mode, sems, ring, loc, buf, history>>

Claim(t) ==
    /\ Waiting(t) /\ phase[t] = "claim"
    /\ tid' = [tid EXCEPT ![SemOf(t)] = t]
    /\ phase' = [phase EXCEPT ![t] = "confirm"]
    /\ UNCHANGED <<mode, val, ring, loc, buf, history>>

\* A mutant: the first id written is not looked at again.
Confirm_NoRecheck(t) ==
    /\ Waiting(t) /\ phase[t] = "confirm"
    /\ Timely /\ loc[t] = "lock" => ~Rival(t, "claim")
    /\ WaitReturns(t)
    /\ UNCHANGED <<mode, sems, ring, buf, history>>

\* After the millisecond: "The semaphore is abnormally locked and unlocked."
\* Several waiters may have found the same thread gone; the last to write its id
\* wins.  It is Timely when all of them have written by then.
Confirm(t) ==
    /\ Waiting(t) /\ phase[t] = "confirm"
    /\ Timely /\ loc[t] = "lock" => ~Rival(t, "claim")
    /\ IF tid[SemOf(t)] = t
         THEN WaitReturns(t)
         ELSE phase' = [phase EXCEPT ![t] = "try"] /\ UNCHANGED loc
    /\ UNCHANGED <<mode, sems, ring, buf, history>>

\* sem_timedwait fails with an error other than a timeout, and Wait returns it.
\* Write and Read return -1; inside the loop they do so without the Post that
\* would give semWrite or semRead back.  Clear does not look at the result.
Interrupt(t) ==
    /\ Waiting(t) /\ phase[t] = "try"
    /\ t \in Interrupted
    /\ Goto(t, IF t \in Clearers THEN "clear" ELSE "idle")
    /\ UNCHANGED <<mode, sems, ring, phase, buf, history>>

\* Nobody looks at the result of a Post that fails.
Post(s) == val' = [val EXCEPT ![s] = IF @ < SemMax THEN @ + 1 ELSE @]

-----------------------------------------------------------------------------
(* CMessageQueue.                                                          *)

IsWrite == (head + 1) % QueueSize # tail
IsRead == tail # head

\* The messages in the ring, oldest first.
Content == [i \in 1..((head - tail) % QueueSize) |-> data[(tail + i - 1) % QueueSize]]

SetMode(t, m) ==
    /\ t \in Async
    /\ loc[t] = "idle"
    /\ mode' = [mode EXCEPT ![t] = m]
    /\ UNCHANGED <<sems, ring, loc, phase, buf, history>>

\* A full ring is refused before the lock is taken, and only then.
Write(t) ==
    /\ t \in Writers
    /\ loc[t] = "idle"
    /\ writes[t] < MaxWrites
    /\ mode[t] = "ASYNCHRONOUS" => IsWrite
    /\ writes' = [writes EXCEPT ![t] = @ + 1]
    /\ Goto(t, "lock")
    /\ UNCHANGED <<mode, sems, ring, phase, buf, accepted, out>>

Read(t) ==
    /\ t \in Readers
    /\ loc[t] = "idle"
    /\ mode[t] = "ASYNCHRONOUS" => IsRead
    /\ Goto(t, "lock")
    /\ UNCHANGED <<mode, sems, ring, phase, buf, history>>

Clear(t) ==
    /\ t \in Clearers
    /\ loc[t] = "idle"
    /\ Goto(t, "lock")
    /\ UNCHANGED <<mode, sems, ring, phase, buf, history>>

\* A mutant: a writer never finds the ring full.
Check_FullLate(t) ==
    /\ loc[t] = "check"
    /\ Goto(t, IF t \in Writers \/ IsRead THEN "copy" ELSE "wait")
    /\ UNCHANGED <<mode, sems, ring, phase, buf, history>>

\* while (!IsWrite()) and while (!IsRead()).
Check(t) ==
    /\ loc[t] = "check"
    /\ Goto(t, IF (t \in Writers /\ IsWrite) \/ (t \in Readers /\ IsRead)
                 THEN "copy" ELSE "wait")
    /\ UNCHANGED <<mode, sems, ring, phase, buf, history>>

Store(t) ==
    /\ t \in Writers
    /\ loc[t] = "copy"
    /\ data' = [data EXCEPT ![head] = Message(t)]
    /\ Goto(t, "advance")
    /\ UNCHANGED <<mode, sems, head, tail, phase, buf, history>>

AdvanceHead(t) ==
    /\ t \in Writers
    /\ loc[t] = "advance"
    /\ head' = (head + 1) % QueueSize
    /\ accepted' = Append(accepted, Message(t))
    /\ Goto(t, "signal")
    /\ UNCHANGED <<mode, sems, tail, data, phase, buf, writes, out>>

\* A message that does not fit stays where it is: Read posts semRead, returns -1.
Fetch(t) ==
    /\ t \in Readers
    /\ loc[t] = "copy"
    /\ IF Fits(data[tail], t)
         THEN buf' = [buf EXCEPT ![t] = data[tail]] /\ Goto(t, "advance")
         ELSE UNCHANGED buf /\ Goto(t, "unlock")
    /\ UNCHANGED <<mode, sems, ring, phase, history>>

AdvanceTail(t) ==
    /\ t \in Readers
    /\ loc[t] = "advance"
    /\ tail' = (tail + 1) % QueueSize
    /\ out' = Append(out, buf[t])
    /\ buf' = [buf EXCEPT ![t] = NoMsg]
    /\ Goto(t, "signal")
    /\ UNCHANGED <<mode, sems, head, data, phase, writes, accepted>>

\* Clear drops what is in the ring.
ClearTail(t) ==
    /\ loc[t] = "clear"
    /\ tail' = head
    /\ out' = out \o Content
    /\ Goto(t, "signal")
    /\ UNCHANGED <<mode, sems, head, data, phase, buf, writes, accepted>>

\* A mutant: nobody waiting for the other side is woken.
Signal_NoPost(t) ==
    /\ loc[t] = "signal"
    /\ Goto(t, "unlock")
    /\ UNCHANGED <<mode, sems, ring, phase, buf, history>>

\* Wakes a thread that waits for the ring to have a message or a free slot.
Signal(t) ==
    /\ loc[t] = "signal"
    /\ Post(Signals(t))
    /\ Goto(t, "unlock")
    /\ UNCHANGED <<mode, tid, ring, phase, buf, history>>

Unlock(t) ==
    /\ loc[t] = "unlock"
    /\ Post(Mutex(t))
    /\ Goto(t, "idle")
    /\ UNCHANGED <<mode, tid, ring, phase, buf, history>>

\* The thread ends where it is, whatever it holds.
Die(t) ==
    /\ t \in Mortal
    /\ loc[t] # "dead"
    /\ Goto(t, "dead")
    /\ phase' = [phase EXCEPT ![t] = "try"]
    /\ buf' = [r \in Readers |-> IF r = t THEN NoMsg ELSE buf[r]]
    /\ UNCHANGED <<mode, sems, ring, history>>

-----------------------------------------------------------------------------

WaitStep(t) ==
    Acquire(t) \/ Own(t) \/ TimeOut(t) \/ Query(t) \/ Claim(t) \/ Confirm(t)

\* The rest of a call that has begun.
QueueStep(t) ==
    \/ Check(t) \/ Store(t) \/ AdvanceHead(t) \/ Fetch(t) \/ AdvanceTail(t)
    \/ ClearTail(t) \/ Signal(t) \/ Unlock(t)

Begin(t) == Write(t) \/ Read(t) \/ Clear(t)

Next ==
    \E t \in Threads :
        \/ Begin(t) \/ WaitStep(t) \/ QueueStep(t) \/ Interrupt(t) \/ Die(t)
        \/ \E m \in Modes : SetMode(t, m)

Spec == Init /\ [][Next]_vars

\* A thread inside a call goes on, and a reader (the loop of MsgWnd::start)
\* calls Read again and again.
FairSpec ==
    /\ Spec
    /\ \A t \in Threads : WF_vars(WaitStep(t) \/ QueueStep(t))
    /\ \A t \in Readers : WF_vars(Read(t))

-----------------------------------------------------------------------------
(* Properties.                                                             *)

Messages == Writers \X (1..MaxWrites)

\* A live thread between its Wait and its Post on semWrite or semRead.
Inside(t) == loc[t] \notin {"idle", "lock", "dead"}

\* At most one live thread writes, and at most one reads or clears, also after
\* threads have died inside and their semaphores were taken over.
MutualExclusion ==
    \A t, u \in Threads : Inside(t) /\ Inside(u) /\ Mutex(t) = Mutex(u) => t = u

\* What left the ring followed by what is in it is what was written, in order:
\* no message is lost, duplicated, overwritten or torn from its place, whoever
\* dies or is interrupted at whatever point.
FIFO == out \o Content = accepted

\* The ring implements a queue bounded by the slots less the one it keeps free:
\* every step, also of a Write or Read that ends half way, puts one message in
\* behind the others, once, takes the oldest one out, drops all or does nothing.
Queue == INSTANCE BoundedQueue WITH
    Capacity <- QueueSize - 1,
    queue <- Content,
    unsent <- Messages \ {accepted[i] : i \in DOMAIN accepted}
ImplementsQueue == Queue!Spec

\* A thread that waits for the ring to change while the ring has changed
\* already finds a token, or its partner is about to post one.
NoLostWakeup ==
    \A t \in Threads :
        /\ loc[t] = "wait" /\ phase[t] \in {"try", "timedout"}
        /\ IF t \in Writers THEN IsWrite ELSE IsRead
        => \/ val[Awaits(t)] > 0
           \/ \E u \in Threads : loc[u] = "signal" /\ Signals(u) = Awaits(t)

\* Every message that was written is eventually read or cleared.
EveryMessageLeaves ==
    \A n \in 1..(MaxWrites * Cardinality(Writers)) :
        Len(accepted) >= n ~> Len(out) >= n

\* A queue object in ASYNCHRONOUS mode does not wait for the other side: Write
\* and Read return 0 instead ("==0" in the comments of Write and Read).
AsyncNeverWaits == \A t \in Threads : mode[t] = "ASYNCHRONOUS" => loc[t] # "wait"

\* A Read that returns 0 says that the object is ASYNCHRONOUS and the ring empty
\* ("==0" in the comment of Read): in BLOCK mode it never takes the length 0 of a
\* slot nobody has written to.
ReadReturnsData ==
    \A t \in Readers : mode[t] = "BLOCK" /\ loc[t] = "advance" => buf[t] # NoMsg

\* A semaphore is only taken over when no live thread is inside.
TakeoverOnlyFromDead ==
    \A t \in Threads :
        loc[t] = "lock" /\ phase[t] = "confirm" /\ tid[Mutex(t)] = t =>
            \A u \in Threads : Inside(u) => Mutex(u) # Mutex(t)
=============================================================================
