----------------------------- MODULE QueueOpen -----------------------------
(***************************************************************************)
(* The constructor of CMessageQueue: processes that may want rings of      *)
(* different sizes create, or attach to, one System V segment.  A          *)
(* CSemaphore of its own ("sem", key 0xFFFFFFFF) makes the construction a  *)
(* critical section.  Its thread id word lies in a segment as well, which  *)
(* the constructor of CSemaphore creates and clears without any lock.      *)
(*                                                                         *)
(* The kernel hands out new segments cleared; the memset that follows can  *)
(* only do harm.  It is left out when errno still says EEXIST from an      *)
(* earlier call, for shmget does not reset it when it succeeds.            *)
(*                                                                         *)
(* Segments and semaphores outlive processes.  A process may die at any    *)
(* step; the CSemaphore is then taken over as in module MessageQueue.      *)
(***************************************************************************)
EXTENDS Integers, FiniteSets

CONSTANTS Procs, NoProc,
          Sizes,        \* sizes, in bytes, of the rings the processes want
          Interruptible \* processes whose signal handlers may interrupt a wait

ASSUME ProcsAssumption == NoProc \notin Procs /\ Interruptible \subseteq Procs
ASSUME SizesAssumption == Sizes \subseteq Nat \ {0}

VARIABLES want,         \* process -> size of the ring it constructs
          loc,          \* process -> place in the constructor
          val,          \* value of sem
          tid,          \* thread id word of sem
          tidExists,    \* has the segment of the word been created?
          bytes,        \* bytes of the ring's segment, 0 before it is created
          size          \* m_pBase->size

\* History.
VARIABLE disturbed      \* some process has gone on without sem, or had it and
                        \* lost its id from the word

word == <<tid, tidExists>>
ring == <<bytes, size>>
vars == <<want, loc, val, word, ring, disturbed>>

Init ==
    /\ want \in [Procs -> Sizes]
    /\ loc = [p \in Procs |-> "new"]
    /\ val = 1
    /\ tid = NoProc
    /\ tidExists = FALSE
    /\ bytes = 0
    /\ size = 0
    /\ disturbed = FALSE

Goto(p, l) == loc' = [loc EXCEPT ![p] = l]

At(p, l) == loc[p] = l

Exists(p) == p # NoProc /\ loc[p] # "dead"

\* The live processes that have sem, or behave as if they had it.
Inside == {p \in Procs : loc[p] \in {"get", "zero", "check", "post", "refuse"}}

-----------------------------------------------------------------------------
(* CSemaphore::CSemaphore.                                                 *)

\* CSharedMemory of the thread id word; a stale errno hides that it is new.
OpenWord(p) ==
    /\ At(p, "new")
    /\ tidExists' = TRUE
    /\ \/ ~tidExists /\ Goto(p, "zeroWord")
       \/ Goto(p, "try")
    /\ UNCHANGED <<want, val, tid, ring, disturbed>>

ZeroWord(p) ==
    /\ At(p, "zeroWord")
    /\ tid' = NoProc
    /\ disturbed' = (disturbed \/ tid \in Inside)
    /\ Goto(p, "try")
    /\ UNCHANGED <<want, val, tidExists, ring>>

-----------------------------------------------------------------------------
(* sem.Wait() and sem.Post().                                              *)

Acquire(p) ==
    /\ At(p, "try")
    /\ val > 0
    /\ val' = val - 1
    /\ Goto(p, "own")
    /\ UNCHANGED <<want, word, ring, disturbed>>

Own(p) ==
    /\ At(p, "own")
    /\ tid' = p
    /\ Goto(p, "get")
    /\ UNCHANGED <<want, val, tidExists, ring, disturbed>>

TimeOut(p) ==
    /\ At(p, "try")
    /\ val = 0
    /\ Goto(p, "timedout")
    /\ UNCHANGED <<want, val, word, ring, disturbed>>

\* Some other process is at l.
Rival(p, l) == \E q \in Procs \ {p} : At(q, l)

\* The query of a failed poll is timely, as module MessageQueue has it: sem is
\* still taken, and whoever got it has written its id.
Query(p) ==
    /\ At(p, "timedout")
    /\ IF tid = p \/ Exists(tid)
         THEN Goto(p, "try")
         ELSE val = 0 /\ ~Rival(p, "own") /\ Goto(p, "claim")
    /\ UNCHANGED <<want, val, word, ring, disturbed>>

Claim(p) ==
    /\ At(p, "claim")
    /\ tid' = p
    /\ Goto(p, "confirm")
    /\ UNCHANGED <<want, val, tidExists, ring, disturbed>>

\* A mutant: the first id written is not looked at again.
Confirm_NoRecheck(p) ==
    /\ At(p, "confirm")
    /\ ~Rival(p, "claim")
    /\ Goto(p, "get")
    /\ UNCHANGED <<want, val, word, ring, disturbed>>

\* The millisecond is over, and every rival has written its id.  The word may
\* also have been cleared by the process that created it.
Confirm(p) ==
    /\ At(p, "confirm")
    /\ ~Rival(p, "claim")
    /\ Goto(p, IF tid = p THEN "get" ELSE "try")
    /\ UNCHANGED <<want, val, word, ring, disturbed>>

\* sem_timedwait ends with EINTR: Wait reports it, and the constructor, which
\* ignores the report, goes on without sem.
Interrupt(p) ==
    /\ At(p, "try")
    /\ p \in Interruptible
    /\ Goto(p, "get")
    /\ disturbed' = TRUE
    /\ UNCHANGED <<want, val, word, ring>>

Post == val' = val + 1

-----------------------------------------------------------------------------
(* CSharedMemory::CSharedMemory and the rest of CMessageQueue's.           *)

\* A mutant: any segment that exists will do.
GetSegment_AnySize(p) ==
    /\ At(p, "get")
    /\ bytes' = IF bytes = 0 THEN want[p] ELSE bytes
    /\ \/ bytes = 0 /\ Goto(p, "zero")
       \/ Goto(p, "check")
    /\ UNCHANGED <<want, val, word, size, disturbed>>

\* shmget refuses a segment that is too small, and the process exits with sem
\* still taken.
GetSegment(p) ==
    /\ At(p, "get")
    /\ \/ /\ bytes = 0
          /\ bytes' = want[p]
          /\ Goto(p, "zero") \/ Goto(p, "check")
       \/ /\ bytes > 0
          /\ Goto(p, IF bytes < want[p] THEN "dead" ELSE "check")
          /\ UNCHANGED bytes
    /\ UNCHANGED <<want, val, word, size, disturbed>>

ZeroSegment(p) ==
    /\ At(p, "zero")
    /\ size' = 0
    /\ Goto(p, "check")
    /\ UNCHANGED <<want, val, word, bytes, disturbed>>

\* A mutant: the size of the last process is noted.
CheckSize_Overwrites(p) ==
    /\ At(p, "check")
    /\ size' = want[p]
    /\ Goto(p, "post")
    /\ UNCHANGED <<want, val, word, bytes, disturbed>>

CheckSize(p) ==
    /\ At(p, "check")
    /\ size' = IF size = 0 THEN want[p] ELSE size
    /\ Goto(p, IF size \in {0, want[p]} THEN "post" ELSE "refuse")
    /\ UNCHANGED <<want, val, word, bytes, disturbed>>

Finish(p) ==
    /\ At(p, "post")
    /\ Post
    /\ Goto(p, "ready")
    /\ UNCHANGED <<want, word, ring, disturbed>>

\* "Message queue size does not match": Post, then exit.
Refuse(p) ==
    /\ At(p, "refuse")
    /\ Post
    /\ Goto(p, "exit")
    /\ UNCHANGED <<want, word, ring, disturbed>>

\* The process is killed, or exits: after a Refuse, or because a system call has
\* failed.
Die(p) ==
    /\ loc[p] # "dead"
    /\ Goto(p, "dead")
    /\ UNCHANGED <<want, val, word, ring, disturbed>>

Next ==
    \E p \in Procs :
        \/ OpenWord(p) \/ ZeroWord(p)
        \/ Acquire(p) \/ Own(p) \/ TimeOut(p) \/ Query(p) \/ Claim(p) \/ Confirm(p)
        \/ Interrupt(p)
        \/ GetSegment(p) \/ ZeroSegment(p) \/ CheckSize(p) \/ Finish(p) \/ Refuse(p)
        \/ Die(p)

Spec == Init /\ [][Next]_vars

-----------------------------------------------------------------------------
(* Properties.                                                             *)

\* As long as nobody is disturbed, one live process at a time is in the critical
\* section, although processes die inside and several of the others then claim
\* sem together, and every process whose constructor has returned uses the ring
\* with the size noted in it, whoever created the segment, died half way or was
\* refused.
AttachedAgree ==
    ~disturbed =>
        /\ \A p, q \in Inside : p = q
        /\ \A p \in Procs : At(p, "ready") => want[p] = size

\* Even when processes enter without sem, or lose it, and the noted
\* size is wiped out or overwritten, no ring reaches past the end of the
\* segment: neither one in use nor the one the next process will accept.
RingInSegment ==
    /\ size <= bytes
    /\ \A p \in Procs : At(p, "ready") => want[p] <= bytes

\* As long as nobody is disturbed, the size of the ring, once noted, is never
\* cleared or overwritten: the memset of a creator wipes out nothing another
\* process has written.
SizeSetOnce == [][~disturbed /\ size # 0 => size' = size]_vars
=============================================================================
