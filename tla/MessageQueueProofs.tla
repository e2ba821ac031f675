------------------------- MODULE MessageQueueProofs -------------------------
(***************************************************************************)
(* Proofs about module MessageQueue for any number of threads, any ring    *)
(* size and any set of threads that die or are interrupted.                *)
(*                                                                         *)
(* Two provisos are needed, and the code breaks without either: waits are  *)
(* Timely (a mutex does not change hands between a failed poll and its     *)
(* query, and the millisecond before Confirm outlasts a rival's way from   *)
(* query to claim), and no Clear is interrupted (Clear goes on without     *)
(* semRead when its Wait fails).  How many threads claim a dead thread's   *)
(* mutex together is left open.  LockInv explains what a mutex's value and *)
(* its thread id word say about the threads; RingInv what a thread inside  *)
(* knows about the ring.                                                   *)
(***************************************************************************)
EXTENDS MessageQueue, SequenceTheorems, TLAPS

Locations == {"idle", "lock", "check", "wait", "copy", "advance", "clear",
              "signal", "unlock", "dead"}
Phases == {"try", "own", "timedout", "claim", "confirm"}

\* The code's provisos for mutual exclusion.
Undisturbed == Timely /\ Interrupted \cap Clearers = {}

TypeOK ==
    /\ val \in [Sems -> Nat] /\ tid \in [Sems -> Threads \cup {NoThread}]
    /\ head \in Slots /\ tail \in Slots
    /\ data \in [Slots -> Messages \cup {NoMsg}]
    /\ loc \in [Threads -> Locations]
    /\ phase \in [Threads -> Phases]
    /\ buf \in [Readers -> Messages \cup {NoMsg}]
    /\ mode \in [Threads -> Modes]
    /\ writes \in [Writers -> 0..MaxWrites]
    /\ accepted \in Seq(Messages) /\ out \in Seq(Messages \cup {NoMsg})

\* Where a thread can be.
RolesOK ==
    \A t \in Threads :
        /\ loc[t] = "clear" => t \in Clearers
        /\ loc[t] \in {"check", "wait", "copy", "advance"} => t \notin Clearers
        /\ ~Waiting(t) => phase[t] = "try"
        /\ t \in Writers /\ loc[t] \notin {"idle", "dead"} => writes[t] > 0

\* The thread has the token of its mutex.
Holds(t) == Inside(t) \/ (loc[t] = "lock" /\ phase[t] = "own")

\* The thread may still take its mutex over; when the word has another id by
\* now, it will not.
Claims(t) ==
    loc[t] = "lock" /\ (phase[t] = "claim" \/ (phase[t] = "confirm" /\ tid[Mutex(t)] = t))

\* At most one token, and only while no one holds or claims it.
TokenOK ==
    /\ val["semRead"] \in {0, 1} /\ val["semWrite"] \in {0, 1}
    /\ \A t \in Threads : Holds(t) \/ Claims(t) => val[Mutex(t)] = 0

\* One thread holds a mutex, and nobody claims one that is held.
OneHolder ==
    \A t, u \in Threads :
        Holds(t) /\ (Holds(u) \/ Claims(u)) /\ Mutex(t) = Mutex(u) => t = u

\* The word names the thread inside.
WordOK == \A t \in Threads : Inside(t) => tid[Mutex(t)] = t

LockInv == TypeOK /\ RolesOK /\ TokenOK /\ OneHolder /\ WordOK

\* What the checks have established is still true when the ring is changed.
WriterKnows ==
    \A t \in Writers :
        /\ loc[t] \in {"copy", "advance"} => IsWrite
        /\ loc[t] = "advance" => data[head] = Message(t)

ReaderKnows ==
    \A t \in Readers :
        /\ loc[t] \in {"copy", "advance"} => IsRead
        /\ loc[t] = "advance" => buf[t] = data[tail]

RingInv == WriterKnows /\ ReaderKnows /\ FIFO

\* The writer has begun a message that head has not passed.
Sending(t) == loc[t] \in {"lock", "check", "wait", "copy", "advance"}

\* Only messages that were begun are accepted, and the one being sent is new.
Fresh ==
    \A i \in DOMAIN accepted, t \in Writers, n \in 1..MaxWrites :
        accepted[i] = <<t, n>> => n <= writes[t] /\ (Sending(t) => n < writes[t])

-----------------------------------------------------------------------------
(* Arithmetic of the ring.                                                 *)

\* (i + 1) % m_queueSize is the next slot, or the first one after the last.
LEMMA NextSlot ==
    ASSUME NEW i \in Slots
    PROVE  /\ (i + 1) % QueueSize \in Slots
           /\ (i + 1) % QueueSize = IF i + 1 = QueueSize THEN 0 ELSE i + 1
  BY QueueSizeAssumption DEF Slots

\* The number of slots from tail to head.
LEMMA Distance ==
    ASSUME NEW h \in Slots, NEW t \in Slots
    PROVE  /\ (h - t) % QueueSize \in Slots
           /\ (h - t) % QueueSize = IF t <= h THEN h - t ELSE h - t + QueueSize
  BY QueueSizeAssumption DEF Slots

\* The slot of the i-th message behind tail.
LEMMA SlotAt ==
    ASSUME NEW t \in Slots, NEW i \in 1..QueueSize
    PROVE  /\ (t + i - 1) % QueueSize \in Slots
           /\ (t + i - 1) % QueueSize =
                IF t + i - 1 < QueueSize THEN t + i - 1 ELSE t + i - 1 - QueueSize
  BY QueueSizeAssumption DEF Slots

\* With one message more, head's slot is the last of the content.
LEMMA PutArithmetic ==
    ASSUME NEW h \in Slots, NEW t \in Slots, (h + 1) % QueueSize # t,
           NEW n, n = (h - t) % QueueSize
    PROVE  /\ n \in Nat /\ n + 1 < QueueSize
           /\ (((h + 1) % QueueSize) - t) % QueueSize = n + 1
           /\ (t + (n + 1) - 1) % QueueSize = h
<1>. DEFINE k == (h + 1) % QueueSize
<1>0. QueueSize \in Nat \ {0} /\ h \in 0..(QueueSize - 1) /\ t \in 0..(QueueSize - 1)
  BY QueueSizeAssumption DEF Slots
<1>1. k \in Slots /\ k = (IF h + 1 = QueueSize THEN 0 ELSE h + 1) /\ k # t
  BY NextSlot
<1>. HIDE DEF k
<1>2. n = IF t <= h THEN h - t ELSE h - t + QueueSize
  BY Distance
<1>3. n \in Nat /\ n + 1 < QueueSize /\ n + 1 \in 1..QueueSize
  BY <1>0, <1>1, <1>2
<1>4. (k - t) % QueueSize = IF t <= k THEN k - t ELSE k - t + QueueSize
  BY <1>1, Distance
<1>5. (k - t) % QueueSize = n + 1
  <2>. DEFINE d == (k - t) % QueueSize
  <2>1. d = IF t <= k THEN k - t ELSE k - t + QueueSize
    BY <1>4
  <2>. HIDE DEF d
  <2>2. d = n + 1
    BY <1>0, <1>1, <1>2, <2>1
  <2>. QED  BY <2>2 DEF d
<1>6. (t + (n + 1) - 1) % QueueSize =
        IF t + (n + 1) - 1 < QueueSize THEN t + (n + 1) - 1 ELSE t + (n + 1) - 1 - QueueSize
  BY <1>3, SlotAt
<1>7. (t + (n + 1) - 1) % QueueSize = h
  <2>. DEFINE d == (t + (n + 1) - 1) % QueueSize
  <2>1. d = IF t + (n + 1) - 1 < QueueSize THEN t + (n + 1) - 1 ELSE t + (n + 1) - 1 - QueueSize
    BY <1>6
  <2>. HIDE DEF d
  <2>2. d = h
    BY <1>0, <1>2, <1>3, <2>1
  <2>. QED  BY <2>2 DEF d
<1>. QED
  BY <1>3, <1>5, <1>7 DEF k

\* With one message less, the others move up by one.
LEMMA TakeArithmetic ==
    ASSUME NEW h \in Slots, NEW t \in Slots, t # h, NEW n, n = (h - t) % QueueSize
    PROVE  /\ n \in Nat \ {0} /\ n < QueueSize
           /\ (h - ((t + 1) % QueueSize)) % QueueSize = n - 1
           /\ (t + 1 - 1) % QueueSize = t
           /\ \A i \in 1..(n - 1) :
                (((t + 1) % QueueSize) + i - 1) % QueueSize = (t + (i + 1) - 1) % QueueSize
<1>. DEFINE k == (t + 1) % QueueSize
<1>0. QueueSize \in Nat \ {0} /\ h \in 0..(QueueSize - 1) /\ t \in 0..(QueueSize - 1)
  BY QueueSizeAssumption DEF Slots
<1>1. k \in Slots /\ k = (IF t + 1 = QueueSize THEN 0 ELSE t + 1)
  BY NextSlot
<1>. HIDE DEF k
<1>2. n = IF t <= h THEN h - t ELSE h - t + QueueSize
  BY Distance
<1>3. n \in Nat \ {0} /\ n < QueueSize
  BY <1>0, <1>2
<1>4. (h - k) % QueueSize = IF k <= h THEN h - k ELSE h - k + QueueSize
  BY <1>1, Distance
<1>5. (h - k) % QueueSize = n - 1
  <2>. DEFINE d == (h - k) % QueueSize
  <2>1. d = IF k <= h THEN h - k ELSE h - k + QueueSize
    BY <1>4
  <2>. HIDE DEF d
  <2>2. d = n - 1
    BY <1>0, <1>1, <1>2, <2>1
  <2>. QED  BY <2>2 DEF d
<1>6. (t + 1 - 1) % QueueSize = t
  <2>1. t + 1 - 1 = t
    BY <1>0
  <2>2. t % QueueSize = t
    BY <1>0
  <2>. QED  BY <2>1, <2>2
<1>7. ASSUME NEW i \in 1..(n - 1)
      PROVE  (k + i - 1) % QueueSize = (t + (i + 1) - 1) % QueueSize
  <2>. DEFINE d == (k + i - 1) % QueueSize
              e == (t + (i + 1) - 1) % QueueSize
  <2>1. i \in 1..QueueSize /\ i + 1 \in 1..QueueSize /\ i \in Int
    BY <1>3, <1>0
  <2>2. d = IF k + i - 1 < QueueSize THEN k + i - 1 ELSE k + i - 1 - QueueSize
    BY <1>1, <2>1, SlotAt
  <2>3. e = IF t + (i + 1) - 1 < QueueSize THEN t + (i + 1) - 1 ELSE t + (i + 1) - 1 - QueueSize
    BY <2>1, SlotAt
  <2>. HIDE DEF d, e
  <2>4. d = e
    BY <1>0, <1>1, <2>1, <2>2, <2>3
  <2>. QED  BY <2>4 DEF d, e
<1>. QED
  BY <1>3, <1>5, <1>6, <1>7 DEF k

\* head's slot holds none of the content.
LEMMA HeadSlotFree ==
    ASSUME NEW h \in Slots, NEW t \in Slots, NEW i \in 1..((h - t) % QueueSize)
    PROVE  (t + i - 1) % QueueSize \in Slots /\ (t + i - 1) % QueueSize # h
<1>. DEFINE n == (h - t) % QueueSize
            d == (t + i - 1) % QueueSize
<1>0. QueueSize \in Nat \ {0} /\ h \in 0..(QueueSize - 1) /\ t \in 0..(QueueSize - 1)
  BY QueueSizeAssumption DEF Slots
<1>1. n = (IF t <= h THEN h - t ELSE h - t + QueueSize) /\ i \in 1..n
  BY Distance
<1>. HIDE DEF n
<1>2. i \in 1..QueueSize /\ n \in Nat
  BY <1>0, <1>1
<1>3. d \in Slots /\ d = IF t + i - 1 < QueueSize THEN t + i - 1 ELSE t + i - 1 - QueueSize
  BY <1>2, SlotAt
<1>. HIDE DEF d
<1>4. d # h
  BY <1>0, <1>1, <1>2, <1>3
<1>. QED
  BY <1>3, <1>4 DEF d

\* The ring's messages are a sequence that starts at tail.
LEMMA ContentSeq ==
    ASSUME TypeOK
    PROVE  /\ Content \in Seq(Messages \cup {NoMsg})
           /\ Len(Content) = (head - tail) % QueueSize
           /\ \A i \in 1..Len(Content) : Content[i] = data[(tail + i - 1) % QueueSize]
<1>. DEFINE n == (head - tail) % QueueSize
<1>1. n \in Nat /\ n < QueueSize
  BY Distance, QueueSizeAssumption DEF TypeOK, Slots
<1>2. \A i \in 1..n : data[(tail + i - 1) % QueueSize] \in Messages \cup {NoMsg}
  BY <1>1, SlotAt, QueueSizeAssumption DEF TypeOK
<1>3. \A i \in 1..n : Content[i] = data[(tail + i - 1) % QueueSize]
  BY DEF Content
<1>4. Content \in [1..n -> Messages \cup {NoMsg}]
  BY <1>2 DEF Content
<1>5. Content \in Seq(Messages \cup {NoMsg}) /\ Len(Content) = n
  <2>. HIDE DEF n
  <2>. QED  BY <1>1, <1>4
<1>. QED
  BY <1>3, <1>5

-----------------------------------------------------------------------------
(* Types and places.                                                       *)

\* Each name of a semaphore is one of the four.
LEMMA SemTypes ==
    ASSUME NEW t \in Threads
    PROVE  /\ Mutex(t) \in {"semRead", "semWrite"}
           /\ Awaits(t) \in {"semWaitRead", "semWaitWrite"}
           /\ Signals(t) \in {"semWaitRead", "semWaitWrite"}
           /\ SemOf(t) \in Sems /\ Mutex(t) \in Sems /\ Signals(t) \in Sems
  BY DEF Mutex, Awaits, Signals, SemOf, Sems

\* A writer inside Write has begun a message.
LEMMA MessageType ==
    ASSUME TypeOK, RolesOK, NEW t \in Writers, loc[t] \notin {"idle", "dead"}
    PROVE  Message(t) \in Messages
<1>1. writes[t] \in 1..MaxWrites
  BY QueueSizeAssumption DEF TypeOK, RolesOK, Threads
<1>. QED
  BY <1>1 DEF Message, Messages

\* The steps of CSemaphore::Wait keep the types and the places.
LEMMA WaitTypes ==
    ASSUME TypeOK, RolesOK, NEW t \in Threads, WaitStep(t)
    PROVE  TypeOK' /\ RolesOK'
<1>. USE SemTypes DEF sems, ring, history
<1>1. CASE Acquire(t)
  <2>1. val' \in [Sems -> Nat] /\ phase' \in [Threads -> Phases]
    BY <1>1 DEF Acquire, TypeOK, Phases
  <2>2. TypeOK'
    BY <1>1, <2>1 DEF Acquire, TypeOK, Messages
  <2>3. RolesOK'
    BY <1>1 DEF Acquire, TypeOK, RolesOK, Waiting
  <2>. QED  BY <2>2, <2>3
<1>2. CASE Own(t)
  <2>1. tid' \in [Sems -> Threads \cup {NoThread}] /\ phase' \in [Threads -> Phases]
        /\ loc' \in [Threads -> Locations]
    BY <1>2 DEF Own, WaitReturns, Goto, TypeOK, Phases, Locations
  <2>2. TypeOK'
    BY <1>2, <2>1 DEF Own, TypeOK, Messages
  <2>3. RolesOK'
    BY <1>2 DEF Own, WaitReturns, Goto, TypeOK, RolesOK, Waiting
  <2>. QED  BY <2>2, <2>3
<1>3. CASE TimeOut(t)
  <2>1. phase' \in [Threads -> Phases]
    BY <1>3 DEF TimeOut, TypeOK, Phases
  <2>2. TypeOK'
    BY <1>3, <2>1 DEF TimeOut, TypeOK, Messages
  <2>3. RolesOK'
    BY <1>3 DEF TimeOut, TypeOK, RolesOK, Waiting
  <2>. QED  BY <2>2, <2>3
<1>4. CASE Query(t)
  <2>1. phase' \in [Threads -> Phases]
    BY <1>4 DEF Query, TypeOK, Phases
  <2>2. TypeOK'
    BY <1>4, <2>1 DEF Query, TypeOK, Messages
  <2>3. RolesOK'
    BY <1>4 DEF Query, TypeOK, RolesOK, Waiting
  <2>. QED  BY <2>2, <2>3
<1>5. CASE Claim(t)
  <2>1. tid' \in [Sems -> Threads \cup {NoThread}] /\ phase' \in [Threads -> Phases]
    BY <1>5 DEF Claim, TypeOK, Phases
  <2>2. TypeOK'
    BY <1>5, <2>1 DEF Claim, TypeOK, Messages
  <2>3. RolesOK'
    BY <1>5 DEF Claim, TypeOK, RolesOK, Waiting
  <2>. QED  BY <2>2, <2>3
<1>6. CASE Confirm(t)
  <2>1. phase' \in [Threads -> Phases] /\ loc' \in [Threads -> Locations]
    BY <1>6 DEF Confirm, WaitReturns, Goto, TypeOK, Phases, Locations
  <2>2. TypeOK'
    BY <1>6, <2>1 DEF Confirm, TypeOK, Messages
  <2>3. RolesOK'
    BY <1>6 DEF Confirm, WaitReturns, Goto, TypeOK, RolesOK, Waiting
  <2>. QED  BY <2>2, <2>3
<1>. QED
  BY <1>1, <1>2, <1>3, <1>4, <1>5, <1>6 DEF WaitStep

\* The steps of Write, Read and Clear keep the types and the places.
LEMMA QueueTypes ==
    ASSUME TypeOK, RolesOK, NEW t \in Threads, QueueStep(t)
    PROVE  TypeOK' /\ RolesOK'
<1>. USE SemTypes DEF sems, ring, history
<1>1. ASSUME NEW l \in Locations \ {"lock", "clear"}, Goto(t, l),
             l \in {"check", "wait", "copy", "advance"} => t \notin Clearers,
             loc[t] \notin {"idle", "dead", "lock", "wait"}, UNCHANGED <<phase, writes>>
      PROVE  loc' \in [Threads -> Locations] /\ RolesOK'
  <2>1. loc' \in [Threads -> Locations]
    BY <1>1 DEF Goto, TypeOK
  <2>2. RolesOK'
    BY <1>1 DEF Goto, TypeOK, RolesOK, Waiting
  <2>. QED  BY <2>1, <2>2
<1>2. CASE Check(t)
  <2>1. loc' \in [Threads -> Locations] /\ RolesOK'
    BY <1>1, <1>2, RolesAssumption DEF Check, Locations, RolesOK
  <2>2. TypeOK'
    BY <1>2, <2>1 DEF Check, TypeOK, Messages
  <2>. QED  BY <2>1, <2>2
<1>3. CASE Store(t)
  <2>1. loc' \in [Threads -> Locations] /\ RolesOK'
    BY <1>1, <1>3, RolesAssumption DEF Store, Locations
  <2>2. Message(t) \in Messages
    BY <1>3, MessageType DEF Store
  <2>3. data' \in [Slots -> Messages \cup {NoMsg}]
    BY <1>3, <2>2 DEF Store, TypeOK
  <2>4. TypeOK'
    BY <1>3, <2>1, <2>3 DEF Store, TypeOK, Messages
  <2>. QED  BY <2>1, <2>4
<1>4. CASE AdvanceHead(t)
  <2>1. loc' \in [Threads -> Locations] /\ RolesOK'
    BY <1>1, <1>4 DEF AdvanceHead, Locations
  <2>2. Message(t) \in Messages
    BY <1>4, MessageType DEF AdvanceHead
  <2>3. accepted' \in Seq(Messages)
    BY <1>4, <2>2 DEF AdvanceHead, TypeOK
  <2>4. head' \in Slots
    BY <1>4, NextSlot DEF AdvanceHead, TypeOK
  <2>5. TypeOK'
    BY <1>4, <2>1, <2>3, <2>4 DEF AdvanceHead, TypeOK, Messages
  <2>. QED  BY <2>1, <2>5
<1>5. CASE Fetch(t)
  <2>1. loc' \in [Threads -> Locations] /\ RolesOK'
    BY <1>1, <1>5, RolesAssumption DEF Fetch, Locations
  <2>2. buf' \in [Readers -> Messages \cup {NoMsg}]
    BY <1>5 DEF Fetch, TypeOK
  <2>3. TypeOK'
    BY <1>5, <2>1, <2>2 DEF Fetch, TypeOK, Messages
  <2>. QED  BY <2>1, <2>3
<1>6. CASE AdvanceTail(t)
  <2>1. loc' \in [Threads -> Locations] /\ RolesOK'
    BY <1>1, <1>6 DEF AdvanceTail, Locations
  <2>2. buf' \in [Readers -> Messages \cup {NoMsg}]
    BY <1>6 DEF AdvanceTail, TypeOK
  <2>3. out' \in Seq(Messages \cup {NoMsg})
    <3>1. buf[t] \in Messages \cup {NoMsg}
      BY <1>6 DEF AdvanceTail, TypeOK
    <3>. QED  BY <1>6, <3>1 DEF AdvanceTail, TypeOK
  <2>4. tail' \in Slots
    BY <1>6, NextSlot DEF AdvanceTail, TypeOK
  <2>5. TypeOK'
    BY <1>6, <2>1, <2>2, <2>3, <2>4 DEF AdvanceTail, TypeOK, Messages
  <2>. QED  BY <2>1, <2>5
<1>7. CASE ClearTail(t)
  <2>1. loc' \in [Threads -> Locations] /\ RolesOK'
    BY <1>1, <1>7 DEF ClearTail, Locations
  <2>2. out' \in Seq(Messages \cup {NoMsg})
    <3>1. out \in Seq(Messages \cup {NoMsg}) /\ out' = out \o Content
      BY <1>7 DEF ClearTail, TypeOK
    <3>. QED  BY <3>1, ContentSeq, ConcatProperties
  <2>3. TypeOK'
    BY <1>7, <2>1, <2>2 DEF ClearTail, TypeOK, Messages
  <2>. QED  BY <2>1, <2>3
<1>8. CASE Signal(t)
  <2>1. loc' \in [Threads -> Locations] /\ RolesOK'
    BY <1>1, <1>8 DEF Signal, Locations
  <2>2. val' \in [Sems -> Nat]
    BY <1>8 DEF Signal, Post, TypeOK
  <2>3. TypeOK'
    BY <1>8, <2>1, <2>2 DEF Signal, TypeOK, Messages
  <2>. QED  BY <2>1, <2>3
<1>9. CASE Unlock(t)
  <2>1. loc' \in [Threads -> Locations] /\ RolesOK'
    BY <1>1, <1>9 DEF Unlock, Locations
  <2>2. val' \in [Sems -> Nat]
    BY <1>9 DEF Unlock, Post, TypeOK
  <2>3. TypeOK'
    BY <1>9, <2>1, <2>2 DEF Unlock, TypeOK, Messages
  <2>. QED  BY <2>1, <2>3
<1>. QED
  BY <1>2, <1>3, <1>4, <1>5, <1>6, <1>7, <1>8, <1>9 DEF QueueStep

\* So do the calls, an interrupted Wait and the death of a thread.
LEMMA OtherTypes ==
    ASSUME TypeOK, RolesOK, NEW t \in Threads,
           Begin(t) \/ Interrupt(t) \/ Die(t) \/ \E m \in Modes : SetMode(t, m)
    PROVE  TypeOK' /\ RolesOK'
<1>. USE DEF sems, ring, history
<1>1. CASE Write(t)
  <2>1. loc' \in [Threads -> Locations] /\ writes' \in [Writers -> 0..MaxWrites]
    BY <1>1, QueueSizeAssumption DEF Write, Goto, TypeOK, Locations
  <2>2. TypeOK'
    BY <1>1, <2>1 DEF Write, TypeOK, Messages
  <2>3. \A u \in Writers : writes'[u] >= writes[u] /\ (u = t => writes'[u] > 0)
    BY <1>1, QueueSizeAssumption DEF Write, TypeOK
  <2>4. \A u \in Writers : writes[u] \in Int /\ writes'[u] \in Int
    BY <2>1, QueueSizeAssumption DEF TypeOK
  <2>5. RolesOK'
    BY <1>1, <2>3, <2>4 DEF Write, Goto, TypeOK, RolesOK, Waiting
  <2>. QED  BY <2>2, <2>5
<1>2. CASE Read(t) \/ Clear(t)
  <2>1. loc' \in [Threads -> Locations]
    BY <1>2 DEF Read, Clear, Goto, TypeOK, Locations
  <2>2. TypeOK'
    BY <1>2, <2>1 DEF Read, Clear, TypeOK, Messages
  <2>3. RolesOK'
    BY <1>2, RolesAssumption DEF Read, Clear, Goto, TypeOK, RolesOK, Waiting
  <2>. QED  BY <2>2, <2>3
<1>3. CASE Interrupt(t)
  <2>1. loc' \in [Threads -> Locations]
    BY <1>3 DEF Interrupt, Goto, TypeOK, Locations
  <2>2. TypeOK'
    BY <1>3, <2>1 DEF Interrupt, TypeOK, Messages
  <2>3. RolesOK'
    BY <1>3, RolesAssumption DEF Interrupt, Goto, TypeOK, RolesOK, Waiting
  <2>. QED  BY <2>2, <2>3
<1>4. CASE Die(t)
  <2>1. loc' \in [Threads -> Locations] /\ phase' \in [Threads -> Phases]
    BY <1>4 DEF Die, Goto, TypeOK, Locations, Phases
  <2>2. buf' \in [Readers -> Messages \cup {NoMsg}]
    BY <1>4 DEF Die, TypeOK
  <2>3. TypeOK'
    BY <1>4, <2>1, <2>2 DEF Die, TypeOK, Messages
  <2>4. RolesOK'
    BY <1>4 DEF Die, Goto, TypeOK, RolesOK, Waiting
  <2>. QED  BY <2>3, <2>4
<1>5. CASE \E m \in Modes : SetMode(t, m)
  <2>1. mode' \in [Threads -> Modes]
    BY <1>5 DEF SetMode, TypeOK
  <2>2. TypeOK'
    BY <1>5, <2>1 DEF SetMode, TypeOK, Messages
  <2>3. RolesOK'
    BY <1>5 DEF SetMode, RolesOK, Waiting
  <2>. QED  BY <2>2, <2>3
<1>. QED
  BY <1>1, <1>2, <1>3, <1>4, <1>5 DEF Begin

-----------------------------------------------------------------------------
(* The mutexes.                                                            *)

\* A step that leaves both mutexes alone, and after which its thread holds or
\* claims no more than before, keeps what they say.
LEMMA LockFrame ==
    ASSUME LockInv, NEW t \in Threads,
           \A u \in Threads \ {t} : loc'[u] = loc[u] /\ phase'[u] = phase[u],
           \A s \in {"semRead", "semWrite"} : val'[s] = val[s] /\ tid'[s] = tid[s],
           Holds(t)' => Holds(t),
           Claims(t)' => Claims(t),
           Inside(t)' => tid[Mutex(t)] = t
    PROVE  TokenOK' /\ OneHolder' /\ WordOK'
<1>1. \A u \in Threads : Holds(u)' => Holds(u)
  BY DEF Holds, Inside
<1>2. \A u \in Threads : Claims(u)' => Claims(u)
  BY SemTypes DEF Claims, Mutex
<1>3. TokenOK'
  BY <1>1, <1>2, SemTypes DEF LockInv, TokenOK, Mutex
<1>4. OneHolder'
  BY <1>1, <1>2 DEF LockInv, OneHolder, Mutex
<1>5. WordOK'
  BY SemTypes DEF LockInv, WordOK, Inside, Mutex
<1>. QED
  BY <1>3, <1>4, <1>5

\* Whoever finds the thread named in the word gone has found its mutex free of
\* holders: one inside would be named, one that has the token and has not
\* written its id is ruled out by a Timely query.
LEMMA QueryFree ==
    ASSUME Undisturbed, LockInv, NEW t \in Threads, loc[t] = "lock", Query(t),
           phase'[t] = "claim", NEW u \in Threads, Holds(u), Mutex(u) = Mutex(t)
    PROVE  FALSE
<1>1. SemOf(t) = Mutex(t) /\ phase[t] = "timedout"
  BY DEF SemOf, Query
<1>2. ~Exists(tid[Mutex(t)]) /\ ~Rival(t, "own")
  BY <1>1 DEF Query, Undisturbed, LockInv, TypeOK
<1>3. u # t /\ u # NoThread /\ loc[u] # "dead"
  BY <1>1, RolesAssumption DEF Holds, Inside
<1>4. tid[Mutex(t)] # u
  BY <1>2, <1>3 DEF Exists
<1>5. ~Inside(u)
  BY <1>4 DEF LockInv, WordOK
<1>6. loc[u] = "lock" /\ phase[u] = "own"
  BY <1>5 DEF Holds
<1>. QED
  BY <1>2, <1>3, <1>6 DEF Rival

\* The steps of CSemaphore::Wait: only they take a mutex or write its word.
LEMMA WaitLock ==
    ASSUME Undisturbed, LockInv, NEW t \in Threads, WaitStep(t)
    PROVE  LockInv'
<1>1. TypeOK' /\ RolesOK'
  BY WaitTypes DEF LockInv
<1>2. \A u \in Threads \ {t} : loc'[u] = loc[u] /\ phase'[u] = phase[u]
  BY DEF WaitStep, Acquire, Own, TimeOut, Query, Claim, Confirm, WaitReturns, Goto, LockInv, TypeOK
<1>3. Waiting(t)
  BY DEF WaitStep, Acquire, Own, TimeOut, Query, Claim, Confirm
<1>4. CASE loc[t] = "wait"
  <2>1. SemOf(t) \in {"semWaitRead", "semWaitWrite"}
    BY <1>4, SemTypes DEF SemOf
  <2>2. \A s \in {"semRead", "semWrite"} : val'[s] = val[s] /\ tid'[s] = tid[s]
    BY <2>1 DEF WaitStep, Acquire, Own, TimeOut, Query, Claim, Confirm, sems, LockInv, TypeOK, Sems
  <2>3. Holds(t) /\ tid[Mutex(t)] = t
    BY <1>4 DEF Holds, Inside, LockInv, WordOK
  <2>4. loc'[t] # "lock"
    BY <1>4 DEF WaitStep, Acquire, Own, TimeOut, Query, Claim, Confirm, WaitReturns, Goto, LockInv,
                TypeOK
  <2>5. ~Claims(t)'
    BY <2>4 DEF Claims
  <2>. QED  BY <1>1, <1>2, <2>2, <2>3, <2>5, LockFrame DEF LockInv
<1>5. CASE loc[t] = "lock"
  <2>. USE <1>5
  <2>1. SemOf(t) = Mutex(t) /\ Mutex(t) \in Sems /\ ~Inside(t)
    BY SemTypes DEF SemOf, Inside
  <2>2. \A u \in Threads \ {t} : Holds(u)' => Holds(u)
    BY <1>2 DEF Holds, Inside
  <2>3. CASE Acquire(t)
    <3>1. loc' = loc /\ tid' = tid /\ phase'[t] = "own" /\ val[Mutex(t)] > 0
      BY <2>1, <2>3 DEF Acquire, LockInv, TypeOK
    <3>2. val[Mutex(t)] = 1 /\ val'[Mutex(t)] = 0 /\ \A s \in Sems : s # Mutex(t) => val'[s] = val[s]
      <4>1. val[Mutex(t)] \in {0, 1} /\ val[Mutex(t)] # 0
        BY <3>1, SemTypes DEF LockInv, TokenOK
      <4>2. val' = [val EXCEPT ![Mutex(t)] = val[Mutex(t)] - 1]
        BY <2>1, <2>3 DEF Acquire
      <4>. QED  BY <2>1, <4>1, <4>2 DEF LockInv, TypeOK
    <3>3. \A u \in Threads : Holds(u) \/ Claims(u) => Mutex(u) # Mutex(t)
      BY <3>2 DEF LockInv, TokenOK
    <3>4. ~Claims(t)' /\ \A u \in Threads \ {t} : Claims(u)' => Claims(u)
      BY <1>2, <3>1 DEF Claims, Mutex
    <3>5. OneHolder'
      BY <2>2, <3>3, <3>4 DEF LockInv, OneHolder, Mutex
    <3>6. WordOK'
      BY <1>2, <3>1, <2>1 DEF LockInv, WordOK, Inside, Mutex
    <3>7. TokenOK'
      BY <2>2, <3>2, <3>3, <3>4, SemTypes DEF LockInv, TokenOK, Mutex, Sems
    <3>. QED  BY <1>1, <3>5, <3>6, <3>7 DEF LockInv
  <2>4. CASE Own(t)
    <3>1. phase[t] = "own" /\ val' = val /\ loc'[t] # "lock" /\ Holds(t)
      BY <2>4 DEF Own, WaitReturns, Goto, LockInv, TypeOK, Holds
    <3>2. tid'[Mutex(t)] = t /\ \A s \in Sems : s # Mutex(t) => tid'[s] = tid[s]
      BY <2>1, <2>4 DEF Own, LockInv, TypeOK
    <3>3. \A u \in Threads \ {t} : Holds(u) \/ Claims(u) => Mutex(u) # Mutex(t)
      BY <3>1 DEF LockInv, OneHolder
    <3>4. \A u \in Threads : Claims(u)' => Claims(u)
      BY <1>2, <3>1, <3>2, SemTypes DEF Claims, Mutex
    <3>5. TokenOK' /\ OneHolder'
      BY <2>2, <3>1, <3>4 DEF LockInv, TokenOK, OneHolder, Mutex
    <3>6. ASSUME NEW u \in Threads, u # t, Inside(u)' PROVE tid'[Mutex(u)] = u
      <4>1. Inside(u) /\ Holds(u)
        BY <1>2, <3>6 DEF Inside, Holds
      <4>. QED  BY <3>2, <3>3, <3>6, <4>1, SemTypes DEF LockInv, WordOK
    <3>7. WordOK'
      BY <3>2, <3>6 DEF WordOK, Mutex
    <3>. QED  BY <1>1, <3>5, <3>7 DEF LockInv
  <2>5. CASE TimeOut(t)
    <3>1. loc' = loc /\ val' = val /\ tid' = tid /\ phase'[t] = "timedout"
      BY <2>5 DEF TimeOut, sems, LockInv, TypeOK
    <3>2. ~Holds(t)' /\ ~Claims(t)' /\ ~Inside(t)'
      BY <2>1, <3>1 DEF Holds, Claims, Inside
    <3>. QED  BY <1>1, <1>2, <3>1, <3>2, LockFrame DEF LockInv
  <2>6. CASE Query(t)
    <3>1. /\ loc' = loc /\ val' = val /\ tid' = tid /\ phase[t] = "timedout"
          /\ phase'[t] \in {"try", "claim"}
      BY <2>6 DEF Query, sems, LockInv, TypeOK
    <3>2. ~Holds(t)' /\ ~Inside(t)'
      BY <2>1, <3>1 DEF Holds, Inside
    <3>3. CASE phase'[t] = "try"
      <4>1. ~Claims(t)'
        BY <3>3 DEF Claims
      <4>. QED  BY <1>1, <1>2, <3>1, <3>2, <4>1, LockFrame DEF LockInv
    <3>4. CASE phase'[t] = "claim"
      <4>1. \A u \in Threads : Holds(u) => Mutex(u) # Mutex(t)
        BY <2>6, <3>4, QueryFree
      <4>2. val[Mutex(t)] = 0
        BY <2>1, <2>6, <3>1, <3>4 DEF Query, Undisturbed, LockInv, TypeOK
      <4>3. \A u \in Threads \ {t} : Claims(u)' => Claims(u)
        BY <1>2, <3>1 DEF Claims, Mutex
      <4>4. OneHolder'
        BY <2>2, <3>2, <4>1, <4>3 DEF LockInv, OneHolder, Mutex
      <4>5. WordOK'
        BY <3>1 DEF LockInv, WordOK, Inside, Mutex
      <4>6. TokenOK'
        BY <2>2, <3>1, <3>2, <4>2, <4>3 DEF LockInv, TokenOK, Mutex
      <4>. QED  BY <1>1, <4>4, <4>5, <4>6 DEF LockInv
    <3>. QED  BY <3>1, <3>3, <3>4
  <2>7. CASE Claim(t)
    <3>1. phase[t] = "claim" /\ val' = val /\ loc' = loc /\ phase'[t] = "confirm" /\ Claims(t)
      BY <2>7 DEF Claim, LockInv, TypeOK, Claims
    <3>2. tid'[Mutex(t)] = t /\ \A s \in Sems : s # Mutex(t) => tid'[s] = tid[s]
      BY <2>1, <2>7 DEF Claim, LockInv, TypeOK
    <3>3. \A u \in Threads : Holds(u)' => Holds(u)
      BY <2>1, <2>2, <3>1 DEF Holds, Inside
    <3>4. \A u \in Threads : Claims(u)' => Claims(u)
      BY <1>2, <3>1, <3>2, SemTypes DEF Claims, Mutex
    <3>5. TokenOK' /\ OneHolder'
      BY <3>1, <3>3, <3>4 DEF LockInv, TokenOK, OneHolder, Mutex
    <3>6. \A u \in Threads : Holds(u) => Mutex(u) # Mutex(t)
      <4>1. ~Holds(t)
        BY <2>1, <3>1 DEF Holds
      <4>. QED  BY <3>1, <4>1 DEF LockInv, OneHolder
    <3>7. ASSUME NEW u \in Threads, Inside(u)' PROVE tid'[Mutex(u)] = u
      <4>1. Inside(u) /\ Holds(u)
        BY <3>1, <3>7 DEF Inside, Holds
      <4>. QED  BY <3>2, <3>6, <4>1, SemTypes DEF LockInv, WordOK
    <3>8. WordOK'
      BY <3>7 DEF WordOK, Mutex
    <3>. QED  BY <1>1, <3>5, <3>8 DEF LockInv
  <2>8. CASE Confirm(t)
    <3>1. /\ phase[t] = "confirm" /\ val' = val /\ tid' = tid /\ phase'[t] = "try"
          /\ ~Rival(t, "claim")
      BY <2>8 DEF Confirm, WaitReturns, sems, Undisturbed, LockInv, TypeOK
    <3>2. CASE tid[Mutex(t)] # t
      <4>1. loc' = loc
        BY <2>1, <2>8, <3>2 DEF Confirm
      <4>2. ~Holds(t)' /\ ~Claims(t)' /\ ~Inside(t)'
        BY <2>1, <3>1, <4>1 DEF Holds, Claims, Inside
      <4>. QED  BY <1>1, <1>2, <3>1, <4>2, LockFrame DEF LockInv
    <3>3. CASE tid[Mutex(t)] = t
      <4>1. Claims(t) /\ ~Holds(t)
        BY <2>1, <3>1, <3>3 DEF Claims, Holds
      <4>2. ~Claims(t)' /\ \A u \in Threads \ {t} : Claims(u)' => Claims(u)
        BY <1>2, <3>1 DEF Claims, Mutex
      <4>3. \A u \in Threads : Holds(u) => Mutex(u) # Mutex(t)
        BY <4>1 DEF LockInv, OneHolder
      <4>4. \A u \in Threads \ {t} : Claims(u) => Mutex(u) # Mutex(t)
        BY <3>1, <3>3 DEF Claims, Rival
      <4>5. val[Mutex(t)] = 0
        BY <4>1 DEF LockInv, TokenOK
      <4>6. OneHolder'
        BY <2>2, <4>2, <4>3, <4>4 DEF LockInv, OneHolder, Mutex
      <4>7. WordOK'
        BY <1>2, <3>1, <3>3 DEF LockInv, WordOK, Inside, Mutex
      <4>8. TokenOK'
        BY <2>2, <3>1, <4>2, <4>5 DEF LockInv, TokenOK, Mutex
      <4>. QED  BY <1>1, <4>6, <4>7, <4>8 DEF LockInv
    <3>. QED  BY <3>2, <3>3
  <2>. QED  BY <2>3, <2>4, <2>5, <2>6, <2>7, <2>8 DEF WaitStep
<1>. QED
  BY <1>3, <1>4, <1>5 DEF Waiting

\* Inside Write, Read and Clear the mutex stays held until its Post.
LEMMA QueueLock ==
    ASSUME LockInv, NEW t \in Threads, QueueStep(t)
    PROVE  LockInv'
<1>1. TypeOK' /\ RolesOK'
  BY QueueTypes DEF LockInv
<1>2. Inside(t)
  BY DEF QueueStep, Check, Store, AdvanceHead, Fetch, AdvanceTail, ClearTail, Signal, Unlock,
         Inside
<1>3. Holds(t) /\ tid[Mutex(t)] = t
  BY <1>2 DEF Holds, LockInv, WordOK
<1>4. tid' = tid /\ phase' = phase /\ \A u \in Threads \ {t} : loc'[u] = loc[u]
  BY DEF QueueStep, Check, Store, AdvanceHead, Fetch, AdvanceTail, ClearTail, Signal, Unlock,
         Goto, sems, LockInv, TypeOK
<1>5. ~Claims(t)'
  <2>1. phase[t] = "try"
    BY DEF QueueStep, Check, Store, AdvanceHead, Fetch, AdvanceTail, ClearTail, Signal, Unlock,
           LockInv, RolesOK, Waiting
  <2>. QED  BY <1>4, <2>1 DEF Claims
<1>6. CASE ~Unlock(t)
  <2>1. \A s \in {"semRead", "semWrite"} : val'[s] = val[s]
    BY <1>6, SemTypes DEF QueueStep, Check, Store, AdvanceHead, Fetch, AdvanceTail, ClearTail,
       Signal, Post, sems, LockInv, TypeOK, Sems
  <2>. QED  BY <1>1, <1>3, <1>4, <1>5, <2>1, LockFrame DEF LockInv
<1>7. CASE Unlock(t)
  <2>1. loc'[t] = "idle"
    BY <1>7 DEF Unlock, Goto, LockInv, TypeOK
  <2>2. \A u \in Threads : Holds(u)' => u # t /\ Holds(u)
    BY <1>4, <2>1 DEF Holds, Inside
  <2>3. \A u \in Threads : Claims(u)' => u # t /\ Claims(u)
    BY <1>4, <1>5 DEF Claims, Mutex
  <2>4. \A u \in Threads : (Holds(u) \/ Claims(u))' => Mutex(u) # Mutex(t)
    BY <1>3, <2>2, <2>3 DEF LockInv, OneHolder
  <2>5. OneHolder'
    BY <2>2, <2>3 DEF LockInv, OneHolder, Mutex
  <2>6. WordOK'
    BY <1>4, <2>1 DEF LockInv, WordOK, Inside, Mutex
  <2>7. val[Mutex(t)] = 0 /\ val'[Mutex(t)] = 1 /\ \A s \in Sems : s # Mutex(t) => val'[s] = val[s]
    BY <1>3, <1>7, SemTypes, SemMaxAssumption DEF Unlock, Post, LockInv, TypeOK, TokenOK
  <2>8. TokenOK'
    BY <2>2, <2>4, <2>7, <2>3, SemTypes DEF LockInv, TokenOK, Mutex, Sems
  <2>. QED  BY <1>1, <2>5, <2>6, <2>8 DEF LockInv
<1>. QED
  BY <1>6, <1>7

\* A call that begins, an interrupted Wait, a death and SetMode take nothing.
LEMMA OtherLock ==
    ASSUME Undisturbed, LockInv, NEW t \in Threads,
           Begin(t) \/ Interrupt(t) \/ Die(t) \/ \E m \in Modes : SetMode(t, m)
    PROVE  LockInv'
<1>1. TypeOK' /\ RolesOK'
  BY OtherTypes DEF LockInv
<1>2. \A u \in Threads \ {t} : loc'[u] = loc[u] /\ phase'[u] = phase[u]
  BY DEF Begin, Write, Read, Clear, Interrupt, Die, SetMode, Goto, LockInv, TypeOK
<1>3. val' = val /\ tid' = tid
  BY DEF Begin, Write, Read, Clear, Interrupt, Die, SetMode, sems
<1>4. loc'[t] \in {"idle", "lock", "dead"} /\ phase'[t] = "try"
  <2>1. CASE Begin(t)
    BY <2>1 DEF Begin, Write, Read, Clear, Goto, LockInv, TypeOK, RolesOK, Waiting
  <2>2. CASE Interrupt(t)
    BY <2>2 DEF Interrupt, Goto, Undisturbed, LockInv, TypeOK
  <2>3. CASE Die(t)
    BY <2>3 DEF Die, Goto, LockInv, TypeOK
  <2>4. CASE \E m \in Modes : SetMode(t, m)
    BY <2>4 DEF SetMode, LockInv, TypeOK, RolesOK, Waiting
  <2>. QED  BY <2>1, <2>2, <2>3, <2>4
<1>5. ~Holds(t)' /\ ~Inside(t)'
  BY <1>4 DEF Holds, Inside
<1>6. ~Claims(t)'
  BY <1>4 DEF Claims
<1>. QED
  BY <1>1, <1>2, <1>3, <1>5, <1>6, LockFrame DEF LockInv

\* LockInv holds from the start.
LEMMA InitLock == Init => LockInv
<1>. SUFFICES ASSUME Init PROVE LockInv
  OBVIOUS
<1>. USE DEF Init
<1>1. TypeOK
  BY QueueSizeAssumption DEF TypeOK, Slots, Locations, Phases, Modes, Messages
<1>2. RolesOK /\ WordOK /\ OneHolder
  BY DEF RolesOK, Waiting, WordOK, OneHolder, Holds, Inside
<1>3. TokenOK
  BY DEF TokenOK, Holds, Claims, Inside, Sems
<1>. QED
  BY <1>1, <1>2, <1>3 DEF LockInv

\* Every step keeps LockInv, whoever dies or is interrupted.
LEMMA NextLock == ASSUME Undisturbed, LockInv, [Next]_vars PROVE LockInv'
<1>1. CASE UNCHANGED vars
  BY <1>1 DEF vars, sems, ring, history, LockInv, TypeOK, RolesOK, TokenOK, OneHolder, WordOK,
              Holds, Claims, Inside, Waiting, Mutex, Messages
<1>2. CASE Next
  <2>1. PICK t \in Threads : \/ Begin(t) \/ WaitStep(t) \/ QueueStep(t) \/ Interrupt(t) \/ Die(t)
                             \/ \E m \in Modes : SetMode(t, m)
    BY <1>2 DEF Next
  <2>. QED  BY <2>1, WaitLock, QueueLock, OtherLock
<1>. QED
  BY <1>1, <1>2

\* At most one live thread writes and at most one reads or clears, however many
\* threads there are, whichever die inside Write, Read, Clear or
\* CSemaphore::Wait, and however many of the others then claim the same
\* semaphore; and it is taken over from dead threads only.  Provisos: waits are
\* Timely, and no Clear is interrupted.
THEOREM QueueMutualExclusion ==
    ASSUME Undisturbed
    PROVE  Spec => [](MutualExclusion /\ TakeoverOnlyFromDead)
<1>1. LockInv => MutualExclusion
  BY DEF LockInv, OneHolder, Holds, MutualExclusion
<1>2. LockInv => TakeoverOnlyFromDead
  BY DEF LockInv, OneHolder, Holds, Claims, Inside, TakeoverOnlyFromDead
<1>3. LockInv /\ [Next]_vars => LockInv'
  BY NextLock
<1>. QED
  BY InitLock, <1>1, <1>2, <1>3, PTL DEF Spec

-----------------------------------------------------------------------------
(* The ring.                                                               *)

\* The threads that write and the threads that read are different ones, each
\* alone on its side.
LEMMA OneWriter ==
    ASSUME LockInv, NEW t \in Writers, NEW u \in Writers, Inside(t), Inside(u)
    PROVE  t = u
  BY DEF LockInv, OneHolder, Holds, Mutex, Threads

\* A thread that moves tail is the only one on its side.
LEMMA OneReader ==
    ASSUME LockInv, NEW t \in Threads \ Writers, NEW u \in Threads \ Writers, Inside(t), Inside(u)
    PROVE  t = u
  BY DEF LockInv, OneHolder, Holds, Mutex

\* A step that leaves the ring, the histories and the writers' counters alone.
LEMMA RingFrame ==
    ASSUME RingInv, UNCHANGED <<head, tail, data, accepted, out>>,
           \A t \in Writers : loc'[t] \in {"copy", "advance"} =>
               \/ loc'[t] = loc[t] /\ writes'[t] = writes[t]
               \/ loc'[t] = "copy" /\ IsWrite,
           \A t \in Readers : loc'[t] \in {"copy", "advance"} =>
               \/ loc'[t] = loc[t] /\ buf'[t] = buf[t]
               \/ IsRead /\ (loc'[t] = "advance" => buf'[t] = data[tail])
    PROVE  RingInv'
<1>1. WriterKnows'
  BY DEF RingInv, WriterKnows, IsWrite, Message
<1>2. ReaderKnows'
  BY DEF RingInv, ReaderKnows, IsRead
<1>3. FIFO'
  BY DEF RingInv, FIFO, Content
<1>. QED
  BY <1>1, <1>2, <1>3 DEF RingInv

\* Write puts the message into a slot that is not part of the ring's content.
LEMMA StoreContent ==
    ASSUME TypeOK, NEW m, data' = [data EXCEPT ![head] = m], UNCHANGED <<head, tail>>
    PROVE  Content' = Content
<1>. DEFINE n == (head - tail) % QueueSize
<1>1. \A i \in 1..n : (tail + i - 1) % QueueSize # head /\ (tail + i - 1) % QueueSize \in Slots
  BY HeadSlotFree DEF TypeOK
<1>2. \A i \in 1..n : data'[(tail + i - 1) % QueueSize] = data[(tail + i - 1) % QueueSize]
  BY <1>1 DEF TypeOK
<1>. QED
  BY <1>2 DEF Content

\* Moving head behind a free slot appends the message in that slot.
LEMMA AdvanceHeadContent ==
    ASSUME TypeOK, IsWrite, head' = (head + 1) % QueueSize, UNCHANGED <<tail, data>>
    PROVE  /\ Content' = Append(Content, data[head])
           /\ Len(Content) < QueueSize - 1
<1>. DEFINE n == (head - tail) % QueueSize
<1>1. n \in Nat /\ n + 1 < QueueSize /\ (head' - tail) % QueueSize = n + 1
  BY PutArithmetic DEF TypeOK, IsWrite
<1>2. (tail + (n + 1) - 1) % QueueSize = head
  BY PutArithmetic DEF TypeOK, IsWrite
<1>3. /\ Content \in Seq(Messages \cup {NoMsg}) /\ Len(Content) = n
      /\ \A i \in 1..n : Content[i] = data[(tail + i - 1) % QueueSize]
  BY ContentSeq
<1>4. Content' = [i \in 1..(n + 1) |-> data[(tail + i - 1) % QueueSize]]
  BY <1>1 DEF Content
<1>5. data[head] \in Messages \cup {NoMsg}
  BY DEF TypeOK
<1>. HIDE DEF n
<1>. DEFINE S == Messages \cup {NoMsg}
            A == Append(Content, data[head])
<1>6. /\ A \in Seq(S) /\ Len(A) = n + 1
      /\ \A i \in 1..n : A[i] = Content[i]
      /\ A[n + 1] = data[head]
  <2>1. Content \in Seq(S) /\ data[head] \in S
    BY <1>3, <1>5
  <2>. HIDE DEF S
  <2>. QED  BY <1>3, <2>1, AppendProperties
<1>7. \A i \in 1..(n + 1) : A[i] = Content'[i]
  <2>. HIDE DEF A
  <2>1. \A i \in 1..n : A[i] = Content'[i]
    BY <1>1, <1>3, <1>4, <1>6
  <2>2. A[n + 1] = Content'[n + 1]
    BY <1>1, <1>2, <1>4, <1>6
  <2>. QED  BY <1>1, <2>1, <2>2
<1>8. A = [i \in 1..(n + 1) |-> A[i]]
  BY <1>1, <1>6
<1>9. A = Content'
  <2>. HIDE DEF A
  <2>. QED  BY <1>4, <1>7, <1>8
<1>. QED
  BY <1>1, <1>3, <1>9, QueueSizeAssumption

\* Moving tail over the oldest message takes it off the front.
LEMMA AdvanceTailContent ==
    ASSUME TypeOK, IsRead, tail' = (tail + 1) % QueueSize, UNCHANGED <<head, data>>
    PROVE  /\ Content # <<>> /\ Head(Content) = data[tail]
           /\ Content' = Tail(Content)
<1>. DEFINE n == (head - tail) % QueueSize
<1>1. n \in Nat \ {0} /\ n < QueueSize /\ (head - tail') % QueueSize = n - 1
  BY TakeArithmetic DEF TypeOK, IsRead
<1>2. \A i \in 1..(n - 1) : (tail' + i - 1) % QueueSize = (tail + (i + 1) - 1) % QueueSize
  BY TakeArithmetic DEF TypeOK, IsRead
<1>3. (tail + 1 - 1) % QueueSize = tail
  BY TakeArithmetic DEF TypeOK, IsRead
<1>4. /\ Content \in Seq(Messages \cup {NoMsg}) /\ Len(Content) = n
      /\ \A i \in 1..n : Content[i] = data[(tail + i - 1) % QueueSize]
  BY ContentSeq
<1>5. Content' = [i \in 1..(n - 1) |-> data[(tail' + i - 1) % QueueSize]]
  BY <1>1 DEF Content
<1>. HIDE DEF n
<1>6. Content # <<>> /\ Head(Content) = Content[1]
      /\ Tail(Content) = [i \in 1..(n - 1) |-> Content[i + 1]]
  <2>1. Content # <<>>
    BY <1>1, <1>4
  <2>2. Head(Content) = Content[1]
    BY <1>4, <2>1, HeadTailProperties
  <2>3. /\ Tail(Content) \in Seq(Messages \cup {NoMsg}) /\ Len(Tail(Content)) = n - 1
        /\ \A i \in 1..(n - 1) : Tail(Content)[i] = Content[i + 1]
    BY <1>4, <2>1, HeadTailProperties
  <2>4. Tail(Content) = [i \in 1..(n - 1) |-> Tail(Content)[i]]
    <3>. DEFINE T == Tail(Content)
    <3>1. T \in Seq(Messages \cup {NoMsg}) /\ Len(T) = n - 1
      BY <2>3
    <3>. HIDE DEF T
    <3>2. T = [i \in 1..(n - 1) |-> T[i]]
      BY <1>1, <3>1
    <3>. QED  BY <3>2 DEF T
  <2>5. Tail(Content) = [i \in 1..(n - 1) |-> Content[i + 1]]
    BY <2>3, <2>4
  <2>. QED  BY <2>1, <2>2, <2>5
<1>7. \A i \in 1..(n - 1) : Content[i + 1] = data[(tail' + i - 1) % QueueSize]
  BY <1>1, <1>2, <1>4
<1>8. Content[1] = data[tail]
  BY <1>1, <1>3, <1>4
<1>. QED
  BY <1>5, <1>6, <1>7, <1>8

\* An empty ring has no content.
LEMMA ClearContent ==
    ASSUME TypeOK, tail' = head, UNCHANGED <<head, data>>
    PROVE  Content' = <<>>
<1>1. (head - head) % QueueSize = 0
  BY Distance DEF TypeOK, Slots
<1>2. Content' = [i \in 1..0 |-> data[(tail' + i - 1) % QueueSize]]
  BY <1>1 DEF Content
<1>. QED
  BY <1>2

\* The thread id words and the polls do not touch the ring.
LEMMA WaitRing ==
    ASSUME RingInv, TypeOK, NEW t \in Threads, WaitStep(t)
    PROVE  RingInv'
<1>1. UNCHANGED <<head, tail, data, accepted, out, writes, buf>>
  BY DEF WaitStep, Acquire, Own, TimeOut, Query, Claim, Confirm, sems, ring, history
<1>2. \A u \in Threads : loc'[u] \in {"copy", "advance"} => loc'[u] = loc[u]
  BY DEF WaitStep, Acquire, Own, TimeOut, Query, Claim, Confirm, WaitReturns, Goto, TypeOK
<1>. QED
  BY <1>1, <1>2, RingFrame DEF Threads

\* The call that begins, the interrupted one and the thread that dies do not
\* touch the ring either.
LEMMA OtherRing ==
    ASSUME RingInv, TypeOK, NEW t \in Threads,
           Begin(t) \/ Interrupt(t) \/ Die(t) \/ \E m \in Modes : SetMode(t, m)
    PROVE  RingInv'
<1>1. UNCHANGED <<head, tail, data, accepted, out>>
  BY DEF Begin, Write, Read, Clear, Interrupt, Die, SetMode, sems, ring, history
<1>2. \A u \in Threads : loc'[u] \in {"copy", "advance"} =>
        loc'[u] = loc[u] /\ (u \in Writers => writes'[u] = writes[u])
                         /\ (u \in Readers => buf'[u] = buf[u])
  <2>1. CASE Begin(t)
    BY <2>1 DEF Begin, Write, Read, Clear, Goto, sems, ring, history, TypeOK
  <2>2. CASE Interrupt(t)
    BY <2>2 DEF Interrupt, Goto, sems, ring, history, TypeOK
  <2>3. CASE Die(t)
    BY <2>3 DEF Die, Goto, sems, ring, history, TypeOK
  <2>4. CASE \E m \in Modes : SetMode(t, m)
    BY <2>4 DEF SetMode, sems, ring, history
  <2>. QED  BY <2>1, <2>2, <2>3, <2>4
<1>. QED
  BY <1>1, <1>2, RingFrame DEF Threads

\* Appending and taking at the ends keeps out \o Content = accepted.
LEMMA FIFOKept ==
    ASSUME NEW S, NEW o \in Seq(S), NEW c \in Seq(S), NEW m \in S
    PROVE  /\ o \o Append(c, m) = Append(o \o c, m)
           /\ c # <<>> => Append(o, Head(c)) \o Tail(c) = o \o c
           /\ (o \o c) \o <<>> = o \o c
<1>1. o \o Append(c, m) = Append(o \o c, m)
  <2>1. <<m>> \in Seq(S) /\ o \o c \in Seq(S)
    BY ConcatProperties
  <2>2. Append(c, m) = c \o <<m>> /\ Append(o \o c, m) = (o \o c) \o <<m>>
    BY <2>1, AppendIsConcat
  <2>. QED  BY <2>1, <2>2, ConcatAssociative
<1>2. ASSUME c # <<>> PROVE Append(o, Head(c)) \o Tail(c) = o \o c
  <2>1. Head(c) \in S /\ Tail(c) \in Seq(S) /\ <<Head(c)>> \in Seq(S)
    BY <1>2, HeadTailProperties
  <2>2. Append(o, Head(c)) = o \o <<Head(c)>>
    BY <2>1, AppendIsConcat
  <2>3. <<Head(c)>> \o Tail(c) = c
    BY <1>2, <2>1
  <2>. QED  BY <2>1, <2>2, <2>3, ConcatAssociative
<1>3. (o \o c) \o <<>> = o \o c
  BY ConcatProperties, ConcatEmptySeq
<1>. QED
  BY <1>1, <1>2, <1>3

\* The steps of Write, Read and Clear: what the thread checked before still
\* holds because it alone moves its end of the ring, and the other end only
\* moves away from it.
LEMMA QueueRing ==
    ASSUME LockInv, RingInv, NEW t \in Threads, QueueStep(t)
    PROVE  RingInv'
<1>. USE DEF sems, ring, history
<1>. DEFINE S == Messages \cup {NoMsg}
<1>1. TypeOK /\ RolesOK /\ out \in Seq(S) /\ Content \in Seq(S)
  BY ContentSeq DEF LockInv, TypeOK
<1>2. \A u \in Threads \ {t} : loc'[u] = loc[u]
  BY DEF QueueStep, Check, Store, AdvanceHead, Fetch, AdvanceTail, ClearTail, Signal, Unlock,
         Goto, LockInv, TypeOK
<1>3. Inside(t)
  BY DEF QueueStep, Check, Store, AdvanceHead, Fetch, AdvanceTail, ClearTail, Signal, Unlock,
         Inside
<1>4. CASE Check(t) \/ Signal(t) \/ Unlock(t)
  <2>1. UNCHANGED <<head, tail, data, accepted, out, writes, buf>>
    BY <1>4 DEF Check, Signal, Unlock
  <2>2. loc'[t] \in {"copy", "advance"} =>
          loc'[t] = "copy" /\ (t \in Writers => IsWrite) /\ (t \in Readers => IsRead)
    BY <1>1, <1>4, RolesAssumption DEF Check, Signal, Unlock, Goto, TypeOK
  <2>. QED  BY <1>2, <2>1, <2>2, RingFrame DEF Threads
<1>5. CASE Fetch(t)
  <2>1. UNCHANGED <<head, tail, data, accepted, out, writes>> /\ t \in Readers /\ t \notin Writers
    BY <1>5, RolesAssumption DEF Fetch
  <2>2. \A u \in Readers \ {t} : buf'[u] = buf[u]
    BY <1>1, <1>5 DEF Fetch, TypeOK
  <2>3. IsRead
    BY <1>5 DEF Fetch, RingInv, ReaderKnows
  <2>4. loc'[t] = "advance" => buf'[t] = data[tail]
    BY <1>1, <1>5 DEF Fetch, Goto, TypeOK
  <2>. QED  BY <1>2, <2>1, <2>2, <2>3, <2>4, RingFrame DEF Threads
<1>6. CASE Store(t)
  <2>1. UNCHANGED <<head, tail, accepted, out, writes, buf>> /\ t \in Writers /\ t \notin Readers
    BY <1>6, RolesAssumption DEF Store
  <2>2. data' = [data EXCEPT ![head] = Message(t)] /\ head \in Slots /\ tail \in Slots
    BY <1>1, <1>6 DEF Store, TypeOK
  <2>3. IsWrite
    BY <1>6 DEF Store, RingInv, WriterKnows
  <2>4. WriterKnows'
    <3>1. \A u \in Writers : loc[u] \in {"copy", "advance"} => u = t
      BY <1>3, <2>1, OneWriter DEF Inside
    <3>2. data'[head] = Message(t)
      BY <1>1, <2>2 DEF TypeOK
    <3>. QED  BY <1>2, <2>1, <2>3, <3>1, <3>2 DEF WriterKnows, IsWrite, Message, Threads
  <2>5. ReaderKnows'
    <3>1. tail # head => data'[tail] = data[tail]
      BY <1>1, <2>2 DEF TypeOK
    <3>. QED  BY <1>2, <2>1, <3>1 DEF RingInv, ReaderKnows, IsRead, Threads
  <2>6. FIFO'
    BY <1>1, <2>1, <2>2, StoreContent DEF RingInv, FIFO
  <2>. QED  BY <2>4, <2>5, <2>6 DEF RingInv
<1>7. CASE AdvanceHead(t)
  <2>1. /\ UNCHANGED <<tail, data, out, writes, buf>> /\ t \in Writers /\ t \notin Readers
        /\ head' = (head + 1) % QueueSize /\ loc'[t] = "signal"
        /\ accepted' = Append(accepted, Message(t)) /\ loc[t] = "advance"
    BY <1>1, <1>7, RolesAssumption DEF AdvanceHead, Goto, TypeOK
  <2>2. IsWrite /\ data[head] = Message(t)
    BY <2>1 DEF RingInv, WriterKnows
  <2>3. WriterKnows'
    <3>1. \A u \in Writers : loc[u] \in {"copy", "advance"} => u = t
      BY <1>3, <2>1, OneWriter DEF Inside
    <3>. QED  BY <1>2, <2>1, <3>1 DEF WriterKnows, Threads
  <2>4. IsRead'
    BY <2>1, <2>2 DEF IsRead, IsWrite
  <2>5. ReaderKnows'
    BY <1>2, <2>1, <2>4 DEF RingInv, ReaderKnows, Threads
  <2>6. FIFO'
    <3>1. Content' = Append(Content, data[head])
      BY <1>1, <2>1, <2>2, AdvanceHeadContent
    <3>2. data[head] \in S
      BY <1>1 DEF TypeOK
    <3>3. out \o Append(Content, data[head]) = Append(out \o Content, data[head])
      <4>. HIDE DEF S
      <4>. QED  BY <1>1, <3>2, FIFOKept
    <3>. QED  BY <2>1, <2>2, <3>1, <3>3 DEF RingInv, FIFO
  <2>. QED  BY <2>3, <2>5, <2>6 DEF RingInv
<1>8. CASE AdvanceTail(t)
  <2>1. /\ UNCHANGED <<head, data, accepted, writes>> /\ t \in Readers /\ t \notin Writers
        /\ tail' = (tail + 1) % QueueSize /\ loc'[t] = "signal" /\ loc[t] = "advance"
        /\ out' = Append(out, buf[t]) /\ \A u \in Readers \ {t} : buf'[u] = buf[u]
    BY <1>1, <1>8, RolesAssumption DEF AdvanceTail, Goto, TypeOK
  <2>2. IsRead /\ buf[t] = data[tail]
    BY <2>1 DEF RingInv, ReaderKnows
  <2>3. ReaderKnows'
    <3>1. \A u \in Readers : loc[u] \in {"copy", "advance"} => u = t
      BY <1>3, <2>1, OneReader, RolesAssumption DEF Inside, Threads
    <3>. QED  BY <1>2, <2>1, <3>1 DEF ReaderKnows, Threads
  <2>4. IsWrite'
    <3>1. head \in Slots /\ tail \in Slots /\ tail # head
      BY <1>1, <2>2 DEF TypeOK, IsRead
    <3>2. (head + 1) % QueueSize # (tail + 1) % QueueSize
      BY <3>1, NextSlot, QueueSizeAssumption DEF Slots
    <3>. QED  BY <2>1, <3>2 DEF IsWrite
  <2>5. WriterKnows'
    BY <1>2, <2>1, <2>4 DEF RingInv, WriterKnows, Message, Threads
  <2>6. FIFO'
    <3>1. Content # <<>> /\ Head(Content) = data[tail] /\ Content' = Tail(Content)
      BY <1>1, <2>1, <2>2, AdvanceTailContent
    <3>2. data[tail] \in S
      BY <1>1 DEF TypeOK
    <3>3. Append(out, Head(Content)) \o Tail(Content) = out \o Content
      <4>. HIDE DEF S
      <4>. QED  BY <1>1, <3>1, <3>2, FIFOKept
    <3>. QED  BY <2>1, <2>2, <3>1, <3>3 DEF RingInv, FIFO
  <2>. QED  BY <2>3, <2>5, <2>6 DEF RingInv
<1>9. CASE ClearTail(t)
  <2>1. /\ UNCHANGED <<head, data, accepted, writes, buf>> /\ loc[t] = "clear"
        /\ tail' = head /\ loc'[t] = "signal" /\ out' = out \o Content
    BY <1>1, <1>9 DEF ClearTail, Goto, TypeOK
  <2>2. t \in Clearers /\ t \notin Writers /\ t \notin Readers
    BY <1>1, <2>1, RolesAssumption DEF RolesOK
  <2>3. ReaderKnows'
    <3>1. \A u \in Readers : loc[u] \notin {"copy", "advance"}
      BY <1>3, <2>2, OneReader, RolesAssumption DEF Inside, Threads
    <3>. QED  BY <1>2, <2>2, <3>1 DEF ReaderKnows, Threads
  <2>4. IsWrite => IsWrite'
    <3>1. head \in Slots /\ tail \in Slots
      BY <1>1 DEF TypeOK
    <3>2. (head + 1) % QueueSize # tail => (head + 1) % QueueSize # head
      BY <3>1, NextSlot, QueueSizeAssumption DEF Slots
    <3>. QED  BY <2>1, <3>2 DEF IsWrite
  <2>5. WriterKnows'
    BY <1>2, <2>1, <2>2, <2>4 DEF RingInv, WriterKnows, Message, Threads
  <2>6. FIFO'
    <3>1. Content' = <<>>
      BY <1>1, <2>1, ClearContent
    <3>2. (out \o Content) \o <<>> = out \o Content
      <4>. HIDE DEF S
      <4>1. out \o Content \in Seq(S)
        BY <1>1, ConcatProperties
      <4>. QED  BY <4>1, ConcatEmptySeq
    <3>. QED  BY <2>1, <3>1, <3>2 DEF RingInv, FIFO
  <2>. QED  BY <2>3, <2>5, <2>6 DEF RingInv
<1>. QED
  BY <1>4, <1>5, <1>6, <1>7, <1>8, <1>9 DEF QueueStep

\* The ring starts empty.
LEMMA InitRing == Init => RingInv
<1>. SUFFICES ASSUME Init PROVE RingInv
  OBVIOUS
<1>1. WriterKnows /\ ReaderKnows
  BY DEF Init, WriterKnows, ReaderKnows, Threads
<1>2. Content = <<>>
  <2>1. (head - tail) % QueueSize = 0
    BY QueueSizeAssumption DEF Init
  <2>. QED  BY <2>1 DEF Content
<1>3. FIFO
  BY <1>2 DEF Init, FIFO
<1>. QED
  BY <1>1, <1>3 DEF RingInv

\* Every step keeps RingInv.
LEMMA NextRing == ASSUME LockInv, RingInv, [Next]_vars PROVE RingInv'
<1>1. CASE UNCHANGED vars
  BY <1>1, RingFrame DEF vars, sems, ring, history
<1>2. CASE Next
  <2>1. PICK t \in Threads : \/ Begin(t) \/ WaitStep(t) \/ QueueStep(t) \/ Interrupt(t) \/ Die(t)
                             \/ \E m \in Modes : SetMode(t, m)
    BY <1>2 DEF Next
  <2>. QED  BY <2>1, WaitRing, QueueRing, OtherRing DEF LockInv
<1>. QED
  BY <1>1, <1>2

\* Messages leave the ring in the order head passed them, none lost, doubled or
\* overwritten, for every ring size, any number of writers, readers and clearers,
\* and wherever any of them dies, under the provisos of QueueMutualExclusion.
THEOREM QueueFIFO ==
    ASSUME Undisturbed
    PROVE  Spec => []FIFO
<1>1. LockInv /\ RingInv /\ [Next]_vars => LockInv' /\ RingInv'
  BY NextLock, NextRing
<1>2. RingInv => FIFO
  BY DEF RingInv
<1>. QED
  BY InitLock, InitRing, <1>1, <1>2, PTL DEF Spec

-----------------------------------------------------------------------------
(* The ring implements a bounded queue.                                    *)

\* A step that accepts nothing and begins no message.
LEMMA FreshFrame ==
    ASSUME Fresh, accepted' = accepted,
           \A t \in Writers : writes'[t] = writes[t] /\ (Sending(t)' => Sending(t))
    PROVE  Fresh'
  BY DEF Fresh

\* A message is begun once: its number is new when Write takes it, and it is
\* accepted at most once because the writer leaves "advance" as it does so.
LEMMA NextFresh == ASSUME LockInv, Fresh, [Next]_vars PROVE Fresh'
<1>. USE DEF sems, ring, history
<1>1. TypeOK /\ RolesOK /\ Writers \subseteq Threads
  BY DEF LockInv, Threads
<1>2. CASE UNCHANGED vars
  BY <1>2, FreshFrame DEF vars, Sending
<1>3. ASSUME NEW t \in Threads, WaitStep(t) PROVE Fresh'
  <2>1. accepted' = accepted /\ writes' = writes
    BY <1>3 DEF WaitStep, Acquire, Own, TimeOut, Query, Claim, Confirm
  <2>2. \A u \in Writers : Sending(u)' => Sending(u)
    BY <1>1, <1>3 DEF WaitStep, Acquire, Own, TimeOut, Query, Claim, Confirm, WaitReturns, Goto,
                      Sending, Waiting, TypeOK
  <2>. QED  BY <2>1, <2>2, FreshFrame
<1>4. ASSUME NEW t \in Threads, QueueStep(t), ~AdvanceHead(t) PROVE Fresh'
  <2>1. accepted' = accepted /\ writes' = writes
    BY <1>4 DEF QueueStep, Check, Store, Fetch, AdvanceTail, ClearTail, Signal, Unlock
  <2>2. \A u \in Writers : Sending(u)' => Sending(u)
    BY <1>1, <1>4 DEF QueueStep, Check, Store, Fetch, AdvanceTail, ClearTail, Signal, Unlock,
                      Goto, Sending, TypeOK
  <2>. QED  BY <2>1, <2>2, FreshFrame
<1>5. ASSUME NEW t \in Threads, AdvanceHead(t) PROVE Fresh'
  <2>1. /\ t \in Writers /\ writes' = writes /\ accepted' = Append(accepted, Message(t))
        /\ loc' = [loc EXCEPT ![t] = "signal"]
    BY <1>5 DEF AdvanceHead, Goto
  <2>2. Message(t) \in Messages /\ accepted \in Seq(Messages)
    BY <1>1, <1>5, <2>1, MessageType DEF AdvanceHead, TypeOK
  <2>3. /\ DOMAIN accepted = 1..Len(accepted) /\ DOMAIN accepted' = 1..(Len(accepted) + 1)
        /\ Len(accepted) \in Nat /\ accepted'[Len(accepted) + 1] = Message(t)
        /\ \A i \in 1..Len(accepted) : accepted'[i] = accepted[i]
    <3>. HIDE DEF Messages
    <3>. QED  BY <2>1, <2>2, AppendProperties, LenProperties
  <2>4. \A u \in Writers : Sending(u)' => Sending(u) /\ u # t
    BY <1>1, <2>1 DEF Sending, TypeOK
  <2>5. \A u \in Writers : writes[u] \in Int
    BY <1>1, QueueSizeAssumption DEF TypeOK
  <2>6. ASSUME NEW i \in DOMAIN accepted', NEW u \in Writers, NEW n \in 1..MaxWrites,
               accepted'[i] = <<u, n>>
        PROVE  n <= writes[u] /\ (Sending(u)' => n < writes[u])
    <3>1. CASE i \in 1..Len(accepted)
      BY <2>3, <2>4, <2>6, <3>1 DEF Fresh
    <3>2. CASE i = Len(accepted) + 1
      <4>1. u = t /\ n = writes[t]
        BY <2>3, <2>6, <3>2 DEF Message
      <4>. QED  BY <2>4, <2>5, <4>1
    <3>. QED  BY <2>3, <2>6, <3>1, <3>2
  <2>. QED  BY <2>1, <2>6 DEF Fresh
<1>6. ASSUME NEW t \in Threads, Write(t) PROVE Fresh'
  <2>1. t \in Writers /\ accepted' = accepted /\ loc' = [loc EXCEPT ![t] = "lock"]
        /\ writes' = [writes EXCEPT ![t] = @ + 1]
    BY <1>6 DEF Write, Goto
  <2>2. \A u \in Writers : writes[u] \in Int
    BY <1>1, QueueSizeAssumption DEF TypeOK
  <2>3. writes'[t] = writes[t] + 1 /\ \A u \in Writers \ {t} : writes'[u] = writes[u]
    BY <1>1, <2>1 DEF TypeOK
  <2>4. \A u \in Writers \ {t} : Sending(u)' => Sending(u)
    BY <1>1, <2>1 DEF Sending, TypeOK
  <2>5. ASSUME NEW i \in DOMAIN accepted, NEW u \in Writers, NEW n \in 1..MaxWrites,
               accepted[i] = <<u, n>>
        PROVE  n <= writes'[u] /\ (Sending(u)' => n < writes'[u])
    <3>1. n <= writes[u] /\ (Sending(u) => n < writes[u])
      BY <2>5 DEF Fresh
    <3>2. CASE u = t
      BY <2>2, <2>3, <3>1, <3>2
    <3>3. CASE u # t
      BY <2>3, <2>4, <3>1, <3>3
    <3>. QED  BY <3>2, <3>3
  <2>. QED  BY <2>1, <2>5 DEF Fresh
<1>7. ASSUME NEW t \in Threads,
             Read(t) \/ Clear(t) \/ Interrupt(t) \/ Die(t) \/ \E m \in Modes : SetMode(t, m)
      PROVE  Fresh'
  <2>1. accepted' = accepted /\ writes' = writes
    BY <1>7 DEF Read, Clear, Interrupt, Die, SetMode
  <2>2. \A u \in Writers : Sending(u)' => Sending(u)
    BY <1>1, <1>7, RolesAssumption DEF Read, Clear, Interrupt, Die, SetMode, Goto, Sending, TypeOK
  <2>. QED  BY <2>1, <2>2, FreshFrame
<1>. QED
  BY <1>2, <1>3, <1>4, <1>5, <1>6, <1>7 DEF Next, Begin, QueueStep

\* A step outside AdvanceHead, AdvanceTail and ClearTail changes neither the
\* content nor what was accepted.
LEMMA ContentKept ==
    ASSUME TypeOK, NEW t \in Threads,
           \/ Begin(t) \/ WaitStep(t) \/ QueueStep(t) \/ Interrupt(t) \/ Die(t)
           \/ \E m \in Modes : SetMode(t, m),
           ~AdvanceHead(t), ~AdvanceTail(t), ~ClearTail(t)
    PROVE  Content' = Content /\ accepted' = accepted
<1>. USE DEF sems, ring, history
<1>1. CASE Store(t)
  BY <1>1, StoreContent DEF Store
<1>2. CASE ~Store(t)
  <2>1. CASE Begin(t) \/ Interrupt(t) \/ Die(t) \/ \E m \in Modes : SetMode(t, m)
    BY <2>1 DEF Content, Begin, Write, Read, Clear, Interrupt, Die, SetMode
  <2>2. CASE WaitStep(t)
    BY <2>2 DEF Content, WaitStep, Acquire, Own, TimeOut, Query, Claim, Confirm
  <2>3. CASE QueueStep(t)
    BY <1>2, <2>3 DEF Content, QueueStep, Check, Fetch, Signal, Unlock
  <2>. QED  BY <2>1, <2>2, <2>3
<1>. QED
  BY <1>1, <1>2

\* Every step of the ring is a step of the queue, or none.
LEMMA StepQueue ==
    ASSUME LockInv, RingInv, Fresh, [Next]_vars
    PROVE  [Queue!Next]_<<Content, Messages \ {accepted[i] : i \in DOMAIN accepted}>>
<1>. DEFINE sent == {accepted[i] : i \in DOMAIN accepted}
<1>. USE DEF sems, ring, history
<1>1. TypeOK /\ RolesOK
  BY DEF LockInv
<1>2. CASE UNCHANGED vars
  BY <1>2 DEF vars, Content, Messages
<1>3. ASSUME NEW t \in Threads, AdvanceHead(t)
      PROVE  \E m \in Messages : Queue!Put(m)
  <2>1. /\ t \in Writers /\ loc[t] = "advance" /\ UNCHANGED <<tail, data, writes>>
        /\ head' = (head + 1) % QueueSize /\ accepted' = Append(accepted, Message(t))
    BY <1>3 DEF AdvanceHead
  <2>2. IsWrite /\ data[head] = Message(t)
    BY <2>1 DEF RingInv, WriterKnows
  <2>3. Content' = Append(Content, Message(t)) /\ Len(Content) < QueueSize - 1
    BY <1>1, <2>1, <2>2, AdvanceHeadContent
  <2>4. Message(t) \in Messages /\ accepted \in Seq(Messages)
    BY <1>1, <2>1, MessageType DEF TypeOK
  <2>5. Message(t) \notin sent
    <3>1. writes[t] \in 1..MaxWrites /\ Sending(t)
      BY <2>1, <2>4 DEF Message, Messages, Sending
    <3>. QED  BY <2>1, <3>1 DEF Fresh, Message
  <2>6. /\ DOMAIN accepted = 1..Len(accepted) /\ DOMAIN accepted' = 1..(Len(accepted) + 1)
        /\ Len(accepted) \in Nat /\ accepted'[Len(accepted) + 1] = Message(t)
        /\ \A i \in 1..Len(accepted) : accepted'[i] = accepted[i]
    <3>. HIDE DEF Messages
    <3>. QED  BY <2>1, <2>4, AppendProperties, LenProperties
  <2>7. sent' = sent \cup {Message(t)}
    BY <2>6
  <2>8. Messages' = Messages
    BY DEF Messages
  <2>9. PICK m \in Messages : m = Message(t)
    BY <2>4
  <2>. WITNESS m \in Messages
  <2>. QED  BY <2>3, <2>5, <2>7, <2>8, <2>9 DEF Queue!Put
<1>4. ASSUME NEW t \in Threads, AdvanceTail(t)
      PROVE  Queue!Take
  <2>1. /\ t \in Readers /\ loc[t] = "advance" /\ UNCHANGED <<head, data, accepted>>
        /\ tail' = (tail + 1) % QueueSize
    BY <1>4 DEF AdvanceTail
  <2>2. IsRead
    BY <2>1 DEF RingInv, ReaderKnows
  <2>3. Content # <<>> /\ Content' = Tail(Content)
    BY <1>1, <2>1, <2>2, AdvanceTailContent
  <2>. QED  BY <2>1, <2>3 DEF Queue!Take, Messages
<1>5. ASSUME NEW t \in Threads, ClearTail(t)
      PROVE  Queue!Drop
  <2>1. UNCHANGED <<head, data, accepted>> /\ tail' = head
    BY <1>5 DEF ClearTail
  <2>2. Content' = <<>>
    BY <1>1, <2>1, ClearContent
  <2>. QED  BY <2>1, <2>2 DEF Queue!Drop, Messages
<1>6. ASSUME NEW t \in Threads,
             \/ Begin(t) \/ WaitStep(t) \/ QueueStep(t) \/ Interrupt(t) \/ Die(t)
             \/ \E m \in Modes : SetMode(t, m),
             ~AdvanceHead(t), ~AdvanceTail(t), ~ClearTail(t)
      PROVE  UNCHANGED <<Content, Messages \ sent>>
  BY <1>1, <1>6, ContentKept DEF Messages
<1>7. CASE Next
  <2>1. PICK t \in Threads : \/ Begin(t) \/ WaitStep(t) \/ QueueStep(t) \/ Interrupt(t) \/ Die(t)
                             \/ \E m \in Modes : SetMode(t, m)
    BY <1>7 DEF Next
  <2>2. CASE AdvanceHead(t)
    <3>1. Queue!Next
      BY <1>3, <2>2 DEF Queue!Next
    <3>. QED  BY <3>1
  <2>3. CASE AdvanceTail(t) \/ ClearTail(t)
    <3>1. Queue!Next
      BY <1>4, <1>5, <2>3 DEF Queue!Next
    <3>. QED  BY <3>1
  <2>4. CASE ~(AdvanceHead(t) \/ AdvanceTail(t) \/ ClearTail(t))
    <3>1. UNCHANGED <<Content, Messages \ sent>>
      BY <1>6, <2>1, <2>4
    <3>. QED  BY <3>1
  <2>. QED  BY <2>2, <2>3, <2>4
<1>. QED
  BY <1>2, <1>7

\* CMessageQueue is a bounded queue for every number of threads and ring size:
\* whichever threads die or are interrupted, each of its steps puts one new
\* message in at the back, takes the oldest out, drops all, or does nothing.  The
\* provisos are those of QueueMutualExclusion.
THEOREM RingImplementsQueue ==
    ASSUME Undisturbed
    PROVE  Spec => ImplementsQueue
<1>. DEFINE IInv == LockInv /\ RingInv /\ Fresh
<1>1. Init => IInv
  BY InitLock, InitRing DEF Init, Fresh
<1>2. Init => Queue!Init
  <2>. SUFFICES ASSUME Init PROVE Queue!Init
    OBVIOUS
  <2>1. Content = <<>>
    <3>1. (head - tail) % QueueSize = 0
      BY QueueSizeAssumption DEF Init
    <3>. QED  BY <3>1 DEF Content
  <2>. QED  BY <2>1 DEF Queue!Init, Init
<1>3. IInv /\ [Next]_vars => IInv'
  BY NextLock, NextRing, NextFresh
<1>4. IInv /\ [Next]_vars =>
        [Queue!Next]_<<Content, Messages \ {accepted[i] : i \in DOMAIN accepted}>>
  BY StepQueue
<1>. QED
  BY <1>1, <1>2, <1>3, <1>4, PTL DEF Spec, ImplementsQueue, Queue!Spec

-----------------------------------------------------------------------------
(* Wakeups.                                                                *)

\* The thread waits for a token; the ring has what it waits for; it has a token
\* or is about to get one.
Stalled(t) == loc[t] = "wait" /\ phase[t] \in {"try", "timedout"}
Ready(t) == IF t \in Writers THEN IsWrite ELSE IsRead
Woken(t) ==
    \/ val[Awaits(t)] > 0
    \/ \E u \in Threads : loc[u] = "signal" /\ Signals(u) = Awaits(t)

\* The word of a wait semaphore still names the thread that has claimed it.
ClaimStands ==
    \A t \in Threads : loc[t] = "wait" /\ phase[t] = "confirm" => tid[Awaits(t)] = t

WakeInv == ClaimStands /\ \A t \in Threads : Stalled(t) /\ Ready(t) => Woken(t)

\* One thread at most waits on each wait semaphore.
LEMMA OneWaits ==
    ASSUME LockInv, NEW t \in Threads, NEW u \in Threads, loc[t] = "wait", Inside(u),
           Awaits(u) = Awaits(t)
    PROVE  u = t
  BY DEF LockInv, OneHolder, Holds, Inside, Mutex, Awaits

\* A step in CSemaphore::Wait takes no other thread's token.
LEMMA WaitWake ==
    ASSUME LockInv, WakeInv, NEW s \in Threads, WaitStep(s)
    PROVE  WakeInv'
<1>. USE DEF sems, ring, history
<1>1. TypeOK /\ Waiting(s) /\ UNCHANGED <<head, tail>>
  BY DEF LockInv, WaitStep, Acquire, Own, TimeOut, Query, Claim, Confirm
<1>2. \A u \in Threads \ {s} : loc'[u] = loc[u] /\ phase'[u] = phase[u]
  BY <1>1 DEF WaitStep, Acquire, Own, TimeOut, Query, Claim, Confirm, WaitReturns, Goto, TypeOK
<1>3. ASSUME NEW t \in Threads \ {s}, loc[t] = "wait"
      PROVE  val'[Awaits(t)] = val[Awaits(t)] /\ tid'[Awaits(t)] = tid[Awaits(t)]
  <2>1. SemOf(s) # Awaits(t)
    BY <1>1, <1>3, OneWaits, SemTypes DEF SemOf, Waiting, Inside
  <2>2. SemOf(s) \in Sems /\ Awaits(t) \in Sems
    BY SemTypes DEF Sems
  <2>. QED  BY <1>1, <2>1, <2>2 DEF WaitStep, Acquire, Own, TimeOut, Query, Claim, Confirm, TypeOK
<1>4. \A u \in Threads : loc[u] = "signal" => loc'[u] = "signal"
  BY <1>1, <1>2 DEF Waiting
<1>5. loc'[s] = "wait" /\ phase'[s] = "confirm" => tid'[Awaits(s)] = s
  <2>1. SemOf(s) \in Sems
    BY SemTypes
  <2>. QED  BY <1>1, <2>1 DEF WaitStep, Acquire, Own, TimeOut, Query, Claim, Confirm, WaitReturns, Goto,
                              SemOf, TypeOK, Waiting
<1>6. ClaimStands'
  BY <1>2, <1>3, <1>5 DEF WakeInv, ClaimStands, Awaits
<1>7. Stalled(s)' => Stalled(s) /\ val' = val
  <2>1. CASE loc[s] = "wait" /\ Confirm(s)
    <3>1. tid[SemOf(s)] = s
      BY <2>1 DEF Confirm, WakeInv, ClaimStands, SemOf
    <3>. QED  BY <1>1, <2>1, <3>1 DEF Confirm, WaitReturns, Goto, Stalled, TypeOK
  <2>2. CASE loc[s] = "lock" \/ ~Confirm(s)
    BY <1>1, <2>2 DEF WaitStep, Acquire, Own, TimeOut, Query, Claim, Confirm, WaitReturns, Goto, Stalled,
                      TypeOK
  <2>. QED  BY <1>1, <2>1, <2>2 DEF Waiting
<1>8. ASSUME NEW t \in Threads, Stalled(t)', Ready(t)'
      PROVE  Woken(t)'
  <2>1. Stalled(t) /\ Ready(t)
    BY <1>1, <1>2, <1>7, <1>8 DEF Stalled, Ready, IsWrite, IsRead
  <2>2. Woken(t)
    BY <2>1 DEF WakeInv
  <2>3. val'[Awaits(t)] = val[Awaits(t)]
    BY <1>3, <1>7, <1>8, <2>1 DEF Stalled
  <2>. QED  BY <1>4, <2>2, <2>3 DEF Woken, Awaits, Signals
<1>. QED
  BY <1>6, <1>8 DEF WakeInv

\* A step in Write, Read or Clear that gives a waiting thread what it waits for
\* brings its own thread to the Post that wakes it.
LEMMA QueueWake ==
    ASSUME LockInv, WakeInv, NEW s \in Threads, QueueStep(s)
    PROVE  WakeInv'
<1>. USE DEF sems, ring, history
<1>1. TypeOK /\ RolesOK /\ UNCHANGED <<tid, phase>> /\ Inside(s) /\ ~Waiting(s)
  BY DEF LockInv, QueueStep, Check, Store, AdvanceHead, Fetch, AdvanceTail, ClearTail, Signal,
         Unlock, Inside, Waiting
<1>2. \A u \in Threads \ {s} : loc'[u] = loc[u]
  BY <1>1 DEF QueueStep, Check, Store, AdvanceHead, Fetch, AdvanceTail, ClearTail, Signal, Unlock,
              Goto, TypeOK
<1>3. phase[s] = "try"
  BY <1>1 DEF RolesOK
<1>4. ClaimStands'
  BY <1>1, <1>2, <1>3 DEF WakeInv, ClaimStands, Awaits
<1>5. Stalled(s)' => ~Ready(s)'
  <2>1. CASE Check(s)
    <3>1. s \in Writers \cup Readers
      BY <1>1, <2>1 DEF Check, RolesOK, Threads
    <3>. QED  BY <1>1, <2>1, <3>1, RolesAssumption DEF Check, Goto, Stalled, Ready, IsWrite, IsRead, TypeOK
  <2>2. CASE ~Check(s)
    BY <1>1, <2>2 DEF QueueStep, Store, AdvanceHead, Fetch, AdvanceTail, ClearTail, Signal,
                      Unlock, Goto, Stalled, TypeOK
  <2>. QED  BY <2>1, <2>2
<1>6. \A m \in Sems : val[m] \in Nat /\ val'[m] \in Nat /\ val'[m] >= val[m]
  <2>1. CASE Signal(s) \/ Unlock(s)
    <3>1. PICK k \in Sems : val' = [val EXCEPT ![k] = IF @ < SemMax THEN @ + 1 ELSE @]
      BY <2>1, SemTypes DEF Signal, Unlock, Post
    <3>. QED  BY <1>1, <3>1 DEF TypeOK
  <2>2. CASE ~(Signal(s) \/ Unlock(s))
    BY <1>1, <2>2 DEF QueueStep, Check, Store, AdvanceHead, Fetch, AdvanceTail, ClearTail, TypeOK
  <2>. QED  BY <2>1, <2>2
<1>7. loc[s] = "signal" => val'[Signals(s)] > 0
  BY <1>1, SemTypes, SemMaxAssumption
     DEF QueueStep, Check, Store, AdvanceHead, Fetch, AdvanceTail, ClearTail, Signal, Unlock, Post,
         TypeOK
<1>8. ASSUME NEW t \in Threads, Stalled(t)', Ready(t)'
      PROVE  Woken(t)'
  <2>1. t # s /\ Stalled(t)
    BY <1>1, <1>2, <1>5, <1>8 DEF Stalled
  <2>2. Awaits(t) \in Sems
    BY SemTypes DEF Sems
  <2>3. CASE Ready(t)
    <3>1. Woken(t)
      BY <2>1, <2>3 DEF WakeInv
    <3>2. CASE val[Awaits(t)] > 0
      BY <1>6, <2>2, <3>2 DEF Woken, Awaits
    <3>3. ASSUME NEW u \in Threads, loc[u] = "signal", Signals(u) = Awaits(t)
          PROVE  Woken(t)'
      BY <1>2, <1>7, <3>3 DEF Woken, Awaits, Signals
    <3>. QED  BY <3>1, <3>2, <3>3 DEF Woken
  <2>4. CASE ~Ready(t)
    <3>1. AdvanceHead(s) \/ AdvanceTail(s) \/ ClearTail(s)
      BY <1>8, <2>4 DEF QueueStep, Check, Store, Fetch, Signal, Unlock, Ready, IsWrite, IsRead
    <3>2. loc'[s] = "signal"
      BY <1>1, <3>1 DEF AdvanceHead, AdvanceTail, ClearTail, Goto, TypeOK
    <3>3. Awaits(s) # Awaits(t)
      BY <1>1, <2>1, OneWaits DEF Stalled
    <3>4. Signals(s) = Awaits(t)
      BY <3>3 DEF Signals, Awaits
    <3>. QED  BY <3>2, <3>4 DEF Woken, Awaits, Signals
  <2>. QED  BY <2>3, <2>4
<1>. QED
  BY <1>4, <1>8 DEF WakeInv

\* Calls that begin and interrupted ones: no thread leaves "signal".
LEMMA OtherWake ==
    ASSUME Mortal = {}, LockInv, WakeInv, NEW s \in Threads,
           Begin(s) \/ Interrupt(s) \/ Die(s) \/ \E m \in Modes : SetMode(s, m)
    PROVE  WakeInv'
<1>. USE DEF sems, ring, history
<1>1. TypeOK /\ UNCHANGED <<val, tid, head, tail, phase>>
  BY DEF LockInv, Begin, Write, Read, Clear, Interrupt, Die, SetMode
<1>2. \A u \in Threads : loc'[u] \in {"signal", "wait"} \/ loc[u] = "signal" => loc'[u] = loc[u]
  BY <1>1 DEF Begin, Write, Read, Clear, Interrupt, Die, SetMode, Goto, TypeOK, Waiting
<1>3. ClaimStands'
  BY <1>1, <1>2 DEF WakeInv, ClaimStands, Awaits
<1>4. ASSUME NEW t \in Threads, Stalled(t)', Ready(t)'
      PROVE  Woken(t)'
  <2>1. Stalled(t) /\ Ready(t)
    BY <1>1, <1>2, <1>4 DEF Stalled, Ready, IsWrite, IsRead
  <2>2. Woken(t)
    BY <2>1 DEF WakeInv
  <2>. QED  BY <1>1, <1>2, <2>2 DEF Woken, Awaits, Signals
<1>. QED
  BY <1>3, <1>4 DEF WakeInv

\* While no thread dies, no wakeup is lost: a thread that waits for the ring to
\* change while it has changed finds a token, or its partner is about to post
\* one, for any number of threads, any ring size and any SEM_VALUE_MAX.
THEOREM QueueNoLostWakeup ==
    ASSUME Undisturbed, Mortal = {}
    PROVE  Spec => []NoLostWakeup
<1>1. Init => WakeInv
  BY DEF Init, WakeInv, ClaimStands, Stalled
<1>2. LockInv /\ WakeInv /\ [Next]_vars => WakeInv'
  <2>. SUFFICES ASSUME LockInv, WakeInv, [Next]_vars PROVE WakeInv'
    OBVIOUS
  <2>1. CASE UNCHANGED vars
    BY <2>1 DEF vars, sems, ring, history, WakeInv, ClaimStands, Stalled, Ready, Woken, IsWrite,
                IsRead, Awaits, Signals
  <2>2. CASE Next
    BY <2>2, WaitWake, QueueWake, OtherWake DEF Next
  <2>. QED  BY <2>1, <2>2
<1>3. LockInv /\ [Next]_vars => LockInv'
  BY NextLock
<1>4. WakeInv => NoLostWakeup
  BY DEF WakeInv, Stalled, Ready, Woken, NoLostWakeup
<1>. QED
  BY InitLock, <1>1, <1>2, <1>3, <1>4, PTL DEF Spec
=============================================================================
