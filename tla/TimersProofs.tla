---------------------------- MODULE TimersProofs ----------------------------
(***************************************************************************)
(* Proofs about module Timers: LFMSetTimer, LFMKillTimer and timerProc, in *)
(* any number of processes, with a table of any size and timer_t values of *)
(* any kind.                                                               *)
(*                                                                         *)
(* TimersKeepSlots is inductive once the types are known.  The argument is *)
(* that LFMSetTimer only ever takes a slot without a name, and that a slot *)
(* only loses its name when timer_delete fails, which takes an id that is  *)
(* no timer of the caller.                                                 *)
(***************************************************************************)
EXTENDS Timers, TLAPS

TypeOK ==
    /\ alive \subseteq Procs
    /\ lock \in Procs \cup Params \cup {NoThread}
    /\ named \subseteq Slots
    /\ context \in [Slots -> 0..MaxSets]
    /\ created \in 0..MaxSets
    /\ timers \subseteq Timer
    /\ firing \subseteq Timer
    /\ misused \in BOOLEAN

IInv == TypeOK /\ TimersKeepSlots

\* The table is empty at first, and there are no timers.
LEMMA InitIInv == Init => IInv
<1>. SUFFICES ASSUME Init PROVE IInv
  OBVIOUS
<1>1. 0 \in 0..MaxSets
  BY SizesAssumption
<1>2. TypeOK
  BY <1>1 DEF Init, TypeOK
<1>3. TimersKeepSlots
  BY DEF Init, TimersKeepSlots
<1>. QED
  BY <1>2, <1>3 DEF IInv

-----------------------------------------------------------------------------
(* LFMSetTimer.                                                            *)

\* What precedes the system calls takes a slot of the table, and a number that
\* has not been used.
LEMMA TakeSlotTypes ==
    ASSUME TypeOK, NEW it \in 0..NTimers, TakeSlot(it)
    PROVE  /\ it \in Slots
           /\ created + 1 \in Params
           /\ created' \in 0..MaxSets
           /\ context' \in [Slots -> 0..MaxSets]
           /\ context'[it] = created + 1
           /\ \A s \in Slots \ {it} : context'[s] = context[s]
<1>1. it \in Slots /\ created + 1 \in Params
  BY SizesAssumption DEF TypeOK, TakeSlot, Slots, Params
<1>2. created + 1 \in 0..MaxSets
  BY <1>1, SizesAssumption DEF Params
<1>. QED
  BY <1>1, <1>2 DEF TypeOK, TakeSlot

\* The timer that is made is in the slot that was taken, under the new number.
LEMMA NewTimerTypes ==
    ASSUME TypeOK, NEW p \in Procs, NEW it \in Slots, created + 1 \in Params,
           NEW nonEmpty \in BOOLEAN, NEW armed \in BOOLEAN,
           NewTimer(p, it, nonEmpty, armed)
    PROVE  \E t \in Timer : /\ timers' = timers \cup {t}
                            /\ t.slot = it /\ t.param = created + 1 /\ t.named = nonEmpty
<1>1. PICK id \in Ids :
        timers' = timers \cup {[param |-> created + 1, proc |-> p, slot |-> it,
                                id |-> id, named |-> nonEmpty, armed |-> armed]}
  BY DEF NewTimer
<1>. DEFINE t == [param |-> created + 1, proc |-> p, slot |-> it,
                  id |-> id, named |-> nonEmpty, armed |-> armed]
<1>2. t \in Timer /\ t.slot = it /\ t.param = created + 1 /\ t.named = nonEmpty
  BY DEF Timer
<1>. QED
  BY <1>1, <1>2

\* LFMSetTimer keeps the slots of the timers that run: the one it takes has no
\* name, so that it is the slot of none of them.
LEMMA SetTimerKeeps ==
    ASSUME IInv, NEW p \in Procs, LFMSetTimer(p)
    PROVE  IInv'
<1>1. PICK it \in 0..NTimers :
        /\ lock = p /\ p \in alive
        /\ Finds(it)
        /\ \/ TableFull(p, it) \/ CreateFails(p, it) \/ SetFails(p, it)
           \/ \E nonEmpty \in BOOLEAN : SetTimer(p, it, nonEmpty)
        /\ UNCHANGED <<alive, firing, misused>>
  BY DEF LFMSetTimer
<1>2. it \notin named
  BY <1>1 DEF Finds
<1>3. CASE TableFull(p, it)
  BY <1>1, <1>3 DEF IInv, TypeOK, TimersKeepSlots, TableFull, Leave, table
<1>4. CASE CreateFails(p, it)
  <2>1. TakeSlot(it) /\ lock' = NoThread /\ named' = named /\ timers' = timers
    BY <1>4 DEF CreateFails, Leave
  <2>2. TypeOK'
    BY <1>1, <2>1, TakeSlotTypes DEF IInv, TypeOK
  <2>3. ASSUME ~misused, NEW t \in timers, t.named
        PROVE  t.slot \in named /\ context'[t.slot] = t.param
    <3>1. t.slot \in named /\ context[t.slot] = t.param
      BY <2>3 DEF IInv, TimersKeepSlots
    <3>. QED
      BY <1>2, <2>1, <3>1, TakeSlotTypes DEF IInv, TypeOK
  <2>. QED
    BY <1>1, <2>1, <2>2, <2>3 DEF IInv, TimersKeepSlots
<1>5. ASSUME NEW nonEmpty \in BOOLEAN, NEW armed \in BOOLEAN,
             TakeSlot(it), NewTimer(p, it, nonEmpty, armed), Leave,
             named' = IF nonEmpty THEN named \cup {it} ELSE named
      PROVE  IInv'
  <2>1. it \in Slots /\ created + 1 \in Params
    BY <1>5, TakeSlotTypes DEF IInv
  <2>2. PICK new \in Timer : /\ timers' = timers \cup {new}
                             /\ new.slot = it /\ new.param = created + 1
                             /\ new.named = nonEmpty
    BY <1>5, <2>1, NewTimerTypes DEF IInv
  <2>3. named' \subseteq Slots /\ named \subseteq named' /\ lock' = NoThread
    BY <1>5, <2>1 DEF IInv, TypeOK, Leave
  <2>4. TypeOK'
    BY <1>1, <1>5, <2>2, <2>3, TakeSlotTypes DEF IInv, TypeOK
  <2>5. ASSUME ~misused, NEW t \in timers, t.named
        PROVE  t.slot \in named' /\ context'[t.slot] = t.param
    <3>1. t.slot \in named /\ context[t.slot] = t.param
      BY <2>5 DEF IInv, TimersKeepSlots
    <3>. QED
      BY <1>2, <1>5, <2>3, <3>1, TakeSlotTypes DEF IInv, TypeOK
  <2>6. new.named => new.slot \in named' /\ context'[new.slot] = new.param
    BY <1>5, <2>2, TakeSlotTypes DEF IInv
  <2>. QED
    BY <1>1, <2>2, <2>3, <2>4, <2>5, <2>6 DEF IInv, TimersKeepSlots
<1>6. CASE SetFails(p, it)
  BY <1>5, <1>6 DEF SetFails
<1>7. ASSUME NEW nonEmpty \in BOOLEAN, SetTimer(p, it, nonEmpty)
      PROVE  IInv'
  BY <1>5, <1>7 DEF SetTimer
<1>. QED
  BY <1>1, <1>3, <1>4, <1>6, <1>7

-----------------------------------------------------------------------------
(* LFMKillTimer, and the end of a process.                                 *)

\* The timers that are left when a process ends keep their slots.
LEMMA EndKeeps ==
    ASSUME IInv, NEW p \in Procs, End(p), misused' \in BOOLEAN, misused => misused'
    PROVE  IInv'
<1>1. TypeOK'
  BY DEF IInv, TypeOK, End, table
<1>2. TimersKeepSlots'
  BY DEF IInv, TimersKeepSlots, End, table
<1>. QED
  BY <1>1, <1>2 DEF IInv

\* LFMKillTimer clears a slot only when the id was no timer of the caller.
LEMMA KillTimerKeeps ==
    ASSUME IInv, NEW p \in Procs, LFMKillTimer(p)
    PROVE  IInv'
<1>1. PICK id \in Ids :
        /\ lock = p /\ p \in alive
        /\ misused' = (misused \/ Own(p, id) = {})
        /\ InvalidTimer(p, id) \/ Deleted(p, id) \/ NotDeleted(p, id) \/ Fault(p, id)
  BY DEF LFMKillTimer
<1>2. misused' \in BOOLEAN /\ (misused => misused')
  BY <1>1 DEF IInv, TypeOK
<1>3. CASE InvalidTimer(p, id)
  BY <1>2, <1>3 DEF IInv, TypeOK, TimersKeepSlots, InvalidTimer, Leave, table
<1>4. CASE Deleted(p, id)
  BY <1>2, <1>4 DEF IInv, TypeOK, TimersKeepSlots, Deleted, Leave, table
<1>5. CASE NotDeleted(p, id)
  <2>1. misused'
    BY <1>1, <1>5 DEF NotDeleted
  <2>. QED
    BY <1>2, <1>5, <2>1 DEF IInv, TypeOK, TimersKeepSlots, NotDeleted, Leave
<1>6. CASE Fault(p, id)
  BY <1>2, <1>6, EndKeeps DEF Fault
<1>. QED
  BY <1>1, <1>3, <1>4, <1>5, <1>6

-----------------------------------------------------------------------------

\* Every step keeps the invariant.
LEMMA NextIInv == IInv /\ [Next]_vars => IInv'
<1>. SUFFICES ASSUME IInv, [Next]_vars PROVE IInv'
  OBVIOUS
<1>1. ASSUME NEW p \in Procs, Enter(p)
      PROVE  IInv'
  BY <1>1 DEF IInv, TypeOK, TimersKeepSlots, Enter, table
<1>2. ASSUME NEW p \in Procs, Die(p)
      PROVE  IInv'
  BY <1>2, EndKeeps DEF Die, IInv, TypeOK
<1>3. ASSUME NEW t \in timers, Expire(t)
      PROVE  IInv'
  BY <1>3 DEF IInv, TypeOK, TimersKeepSlots, Expire, table
<1>4. ASSUME NEW t \in firing, timerProc(t)
      PROVE  IInv'
  <2>1. t.param \in Params
    BY DEF IInv, TypeOK, Timer
  <2>. QED
    BY <1>4, <2>1 DEF IInv, TypeOK, TimersKeepSlots, timerProc, table
<1>5. CASE UNCHANGED vars
  BY <1>5 DEF IInv, TypeOK, TimersKeepSlots, vars, table
<1>. QED
  BY <1>1, <1>2, <1>3, <1>4, <1>5, SetTimerKeeps, KillTimerKeeps DEF Next

\* As long as clients kill only timers of their own, a running timer with a
\* name keeps its slot in timers[] and the context it was set with, whatever
\* LFMSetTimer and LFMKillTimer are called with and whoever dies.
THEOREM TimersKeep == Spec => []TimersKeepSlots
<1>1. IInv => TimersKeepSlots
  BY DEF IInv
<1>. QED
  BY <1>1, InitIInv, NextIInv, PTL DEF Spec

-----------------------------------------------------------------------------
(* The mutex.                                                              *)

\* Nobody takes a mutex that is lost, and who has lost it does not go on.
LEMMA LostStays ==
    ASSUME [Next]_vars, MutexLost
    PROVE  MutexLost' /\ UNCHANGED <<table, created>>
<1>1. lock # NoThread /\ \A p \in alive \cap Procs : lock # p
  BY ThreadsAssumption DEF MutexLost
<1>2. ASSUME NEW p \in Procs, Enter(p) \/ LFMSetTimer(p) \/ LFMKillTimer(p)
      PROVE  FALSE
  BY <1>1, <1>2 DEF Enter, LFMSetTimer, LFMKillTimer
<1>3. ASSUME NEW p \in Procs, Die(p)
      PROVE  MutexLost' /\ UNCHANGED <<table, created>>
  BY <1>3 DEF Die, End, MutexLost
<1>4. ASSUME NEW t \in timers, Expire(t)
      PROVE  MutexLost' /\ UNCHANGED <<table, created>>
  BY <1>4 DEF Expire, MutexLost
<1>5. ASSUME NEW t \in firing, timerProc(t)
      PROVE  FALSE
  BY <1>1, <1>5 DEF timerProc
<1>6. CASE UNCHANGED vars
  BY <1>6 DEF vars, MutexLost
<1>. QED
  BY <1>2, <1>3, <1>4, <1>5, <1>6 DEF Next

\* Once a timer has fired or a process has died inside, no process ever gets
\* the mutex again and neither timers[] nor its contexts ever change.
THEOREM TimersMutexLost == Spec => LostMutexFreezes
<1>1. [Next]_vars => [MutexLost => MutexLost' /\ UNCHANGED <<table, created>>]_vars
  BY LostStays
<1>. QED
  BY <1>1, PTL DEF Spec, LostMutexFreezes

=============================================================================
