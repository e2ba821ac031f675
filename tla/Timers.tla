------------------------------- MODULE Timers -------------------------------
(***************************************************************************)
(* The timers of the LFS manager (LFSadmin.cpp) and the mutex that guards  *)
(* its shared memory.  LFMSetTimer enters the name of the object to call   *)
(* and a context in the first unused slot of timers[], and starts a kernel *)
(* timer whose thread runs timerProc with a TimerParam of its own.         *)
(*                                                                         *)
(* The mutex, LFS_MANAGER_MUTEX, is shared by all processes, neither       *)
(* recursive nor robust: a holder that waits for it again, or dies, keeps  *)
(* it.  timerProc calls LFMPostMessage with the mutex held, and that       *)
(* starts with CHECK_IF_STARTED, which locks it; the rest of timerProc,    *)
(* the delete of the TimerParam included, is never reached.                *)
(*                                                                         *)
(* A timer_t is an opaque value of the C library, a small number or an     *)
(* address.  LFMKillTimer uses it as an index of timers[] as well.         *)
(***************************************************************************)
EXTENDS Integers, FiniteSets

CONSTANTS Procs,        \* processes; each has one thread that calls the manager
          NoThread,     \* the holder of a free mutex
          NTimers,      \* slots of timers[] (65535)
          Ids,          \* values of timer_t
          MaxSets       \* bound: calls of LFMSetTimer that find a slot

ASSUME SizesAssumption == NTimers \in Nat \ {0} /\ Ids \subseteq Nat /\ MaxSets \in Nat

Slots == 0..(NTimers - 1)

\* The TimerParams, numbered as they are created.  They stand for the timers,
\* and for the threads that run timerProc on them: when a timer expires again
\* there is just one more thread that waits for the mutex.
Params == 1..MaxSets

ASSUME ThreadsAssumption == NoThread \notin Procs \cup Params /\ Procs \cap Params = {}

VARIABLES alive,        \* the running processes
          lock,         \* holder of the mutex: a process, a TimerParam, NoThread
          named,        \* slots with a name that is not empty
          context,      \* slot -> TimerParam of the call that set lpContext
          created,      \* TimerParams created so far
          timers,       \* the kernel timers
          firing,       \* timers whose thread waits for, or has, the mutex
          misused       \* has a client killed a timer that was not its own?

table == <<named, context>>
vars == <<alive, lock, table, created, timers, firing, misused>>

Timer == [param : Params, proc : Procs, slot : Slots, id : Ids, named : BOOLEAN,
          armed : BOOLEAN]

Init ==
    /\ alive = Procs
    /\ lock = NoThread
    /\ named = {}
    /\ context = [s \in Slots |-> 0]
    /\ created = 0
    /\ timers = {}
    /\ firing = {}
    /\ misused = FALSE

-----------------------------------------------------------------------------
(* access(): the mutex around every function of the manager.               *)

\* A mutant: the mutex is not waited for.
Enter_NoWait(p) ==
    /\ p \in alive
    /\ lock # p
    /\ lock' = p
    /\ UNCHANGED <<alive, table, created, timers, firing, misused>>

Enter(p) ==
    /\ p \in alive
    /\ lock = NoThread
    /\ lock' = p
    /\ UNCHANGED <<alive, table, created, timers, firing, misused>>

Leave == lock' = NoThread

\* The timers of a process end with it; the mutex stays locked.
End(p) ==
    /\ alive' = alive \ {p}
    /\ timers' = {t \in timers : t.proc # p}
    /\ firing' = {t \in firing : t.proc # p}
    /\ UNCHANGED <<lock, table, created>>

Die(p) ==
    /\ p \in alive
    /\ End(p)
    /\ UNCHANGED misused

-----------------------------------------------------------------------------
(* LFMSetTimer.                                                            *)

\* std::find_if returns it: the first slot without a name, or the end.
Finds(it) == it \notin named /\ \A s \in 0..(it - 1) : s \in named

TableFull(p, it) ==
    /\ it = NTimers
    /\ Leave
    /\ UNCHANGED <<table, created, timers>>

\* What precedes the system calls.
TakeSlot(it) ==
    /\ it # NTimers
    /\ created < MaxSets
    /\ created' = created + 1
    /\ context' = [context EXCEPT ![it] = created + 1]

\* timer_create fails: the slot loses its name and keeps the context.
CreateFails(p, it) ==
    /\ TakeSlot(it)
    /\ Leave
    /\ UNCHANGED <<named, timers>>

\* The new kernel timer; armed is FALSE when timer_settime fails.  Time is not
\* modelled: whatever it_value is, the timer may expire at any moment.
NewTimer(p, it, nonEmpty, armed) ==
    \E id \in Ids :
        /\ \A t \in timers : t.proc = p => t.id # id
        /\ timers' = timers \cup {[param |-> created + 1, proc |-> p, slot |-> it,
                                   id |-> id, named |-> nonEmpty, armed |-> armed]}

\* timer_settime fails: the slot loses its name, and the timer is left behind.
SetFails(p, it) ==
    /\ TakeSlot(it)
    /\ NewTimer(p, it, FALSE, FALSE)
    /\ Leave
    /\ UNCHANGED named

\* A slot that gets an empty name is still unused afterwards.
SetTimer(p, it, nonEmpty) ==
    /\ TakeSlot(it)
    /\ NewTimer(p, it, nonEmpty, TRUE)
    /\ named' = IF nonEmpty THEN named \cup {it} ELSE named
    /\ Leave

LFMSetTimer(p) ==
    \E it \in 0..NTimers :
        /\ lock = p /\ p \in alive
        /\ Finds(it)
        /\ \/ TableFull(p, it) \/ CreateFails(p, it) \/ SetFails(p, it)
           \/ \E nonEmpty \in BOOLEAN : SetTimer(p, it, nonEmpty)
        /\ UNCHANGED <<alive, firing, misused>>

-----------------------------------------------------------------------------
(* LFMKillTimer, with any id.                                              *)

Own(p, id) == {t \in timers : t.proc = p /\ t.id = id}

\* What the test of the name may find: beyond the table anything.
SeesName(id) == id \notin Slots \/ id \in named
SeesNoName(id) == id \notin named

InvalidTimer(p, id) ==
    /\ SeesNoName(id)
    /\ Leave
    /\ UNCHANGED <<alive, table, created, timers, firing>>

\* A mutant: the slot with the number of the id, which may be another timer's, is
\* cleared when timer_delete succeeds.
Deleted_Clears(p, id) ==
    /\ SeesName(id)
    /\ Own(p, id) # {}
    /\ timers' = timers \ Own(p, id)
    /\ named' = named \ {id}
    /\ Leave
    /\ UNCHANGED <<alive, context, created, firing>>

\* timer_delete returns 0: LFS_ERR_INTERNAL_ERROR, and the slot keeps its name.
Deleted(p, id) ==
    /\ SeesName(id)
    /\ Own(p, id) # {}
    /\ timers' = timers \ Own(p, id)
    /\ Leave
    /\ UNCHANGED <<alive, table, created, firing>>

\* timer_delete returns -1: the slot with the number of the id is cleared.
NotDeleted(p, id) ==
    /\ id \in named
    /\ Own(p, id) = {}
    /\ named' = named \ {id}
    /\ Leave
    /\ UNCHANGED <<alive, context, created, timers, firing>>

\* An access beyond the table, or timer_delete of what is no timer, may be fatal.
\* (That the former hits other data instead is not followed.)
Fault(p, id) ==
    /\ id \notin Slots \/ Own(p, id) = {}
    /\ End(p)

LFMKillTimer(p) ==
    \E id \in Ids :
        /\ lock = p /\ p \in alive
        /\ misused' = (misused \/ Own(p, id) = {})
        /\ InvalidTimer(p, id) \/ Deleted(p, id) \/ NotDeleted(p, id) \/ Fault(p, id)

-----------------------------------------------------------------------------
(* The timer expires and its thread runs timerProc.                        *)

Expire(t) ==
    /\ t.armed
    /\ t \notin firing
    /\ firing' = firing \cup {t}
    /\ UNCHANGED <<alive, lock, table, created, timers, misused>>

\* The thread gets the mutex.  Its second access(), in LFMPostMessage, asks for
\* the same: that lock is free, which it never is while t has it.
timerProc(t) ==
    /\ lock = NoThread
    /\ lock' = t.param
    /\ UNCHANGED <<alive, table, created, timers, firing, misused>>

Next ==
    \/ \E p \in Procs : Enter(p) \/ LFMSetTimer(p) \/ LFMKillTimer(p) \/ Die(p)
    \/ \E t \in timers : Expire(t)
    \/ \E t \in firing : timerProc(t)

Spec == Init /\ [][Next]_vars

-----------------------------------------------------------------------------
(* Properties.                                                             *)

\* As long as clients kill only timers of their own, a running timer with a
\* name keeps its slot: no other LFMSetTimer gets it, so that the event number
\* and the context timerProc is to deliver are those of this timer, although
\* LFMKillTimer looks at, and may clear, the slot of another one.
TimersKeepSlots ==
    ~misused => \A t \in timers : t.named => t.slot \in named /\ context[t.slot] = t.param

\* timerProc waits for the mutex it has, or the holder is dead.
MutexLost == lock \in Params \cup (Procs \ alive)

\* Once a timer has fired or a process has died inside, no process ever gets
\* the mutex again and the table is never changed again.
LostMutexFreezes == [][MutexLost => MutexLost' /\ UNCHANGED <<table, created>>]_vars
=============================================================================
