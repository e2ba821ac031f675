------------------------------ MODULE Contexts ------------------------------
(***************************************************************************)
(* How threads get at the shared memory of the LFS manager.  Every         *)
(* function of LFSadmin.cpp begins with initializeContext, which creates   *)
(* the Context of the process on first use, and then works on the tables   *)
(* in access() (sys/shmem.cpp).                                            *)
(*                                                                         *)
(* A Context maps the shared memory object LFS_MANAGER, which the first    *)
(* process creates empty and every process sets to its full size.  Both    *)
(* initializeContext and access lock LFS_MANAGER_MUTEX: mutexHandle and    *)
(* the _m of the Context are the same named mutex.  initializeContext      *)
(* looks at _ctx before it locks and again afterwards; the store of _ctx   *)
(* is taken to become visible after what the constructor has stored.       *)
(***************************************************************************)
EXTENDS Naturals, FiniteSets

CONSTANTS Procs, Threads, ProcOf, \* thread -> its process
          NoThread,               \* the holder of a free mutex
          Mortal,                 \* the processes that may die
          MaxObjects              \* bound: shared memory objects created

ASSUME ThreadsAssumption ==
    ProcOf \in [Threads -> Procs] /\ NoThread \notin Threads /\ Mortal \subseteq Procs
ASSUME ObjectsAssumption == MaxObjects \in Nat

VARIABLES alive,        \* the running processes
          mutex,        \* the thread that has LFS_MANAGER_MUTEX
          object,       \* number of the object named LFS_MANAGER, 0 when there is none
          sized,        \* the objects that have their full size
          ctx,          \* process -> the object its Context maps, 0 while _ctx is null
          loc,          \* thread -> place in its call
          opened        \* thread -> the object its constructor has opened

\* History.
VARIABLES made,         \* process -> Contexts created
          created       \* objects created

contextVars == <<alive, mutex, object, sized, ctx, loc, opened, made, created>>

Objects == 1..MaxObjects
Locked == {"recheck", "open", "truncate", "publish", "inside"}

ContextsInit ==
    /\ alive = Procs
    /\ mutex = NoThread
    /\ object = 0
    /\ sized = {}
    /\ ctx = [p \in Procs |-> 0]
    /\ loc = [t \in Threads |-> "idle"]
    /\ opened = [t \in Threads |-> 0]
    /\ made = [p \in Procs |-> 0]
    /\ created = 0

Step(t, from, to) ==
    /\ ProcOf[t] \in alive
    /\ loc[t] = from
    /\ loc' = [loc EXCEPT ![t] = to]

-----------------------------------------------------------------------------
(* initializeContext.                                                      *)

\* if (!_ctx), without the lock.
initializeContext(t) ==
    /\ Step(t, "idle", IF ctx[ProcOf[t]] = 0 THEN "lock" ELSE "enter")
    /\ UNCHANGED <<alive, mutex, object, sized, ctx, opened, made, created>>

Lock(t) ==
    /\ Step(t, "lock", "recheck")
    /\ mutex = NoThread
    /\ mutex' = t
    /\ UNCHANGED <<alive, object, sized, ctx, opened, made, created>>

\* A mutant: _ctx is not looked at again.
Recheck_Not(t) ==
    /\ Step(t, "recheck", "open")
    /\ UNCHANGED <<alive, mutex, object, sized, ctx, opened, made, created>>

Recheck(t) ==
    /\ \/ /\ ctx[ProcOf[t]] = 0
          /\ Step(t, "recheck", "open")
          /\ UNCHANGED mutex
       \/ /\ ctx[ProcOf[t]] # 0
          /\ Step(t, "recheck", "enter")
          /\ mutex' = NoThread
    /\ UNCHANGED <<alive, object, sized, ctx, opened, made, created>>

\* shared_memory_object(open_or_create): a new object has no bytes.
OpenObject(t) ==
    /\ Step(t, "open", "truncate")
    /\ \/ object # 0 /\ UNCHANGED <<object, created>>
       \/ /\ object = 0 /\ created < MaxObjects
          /\ object' = created + 1 /\ created' = created + 1
    /\ opened' = [opened EXCEPT ![t] = object']
    /\ UNCHANGED <<alive, mutex, sized, ctx, made>>

\* A mutant: the object is mapped as it is.
Truncate_Not(t) ==
    /\ Step(t, "truncate", "publish")
    /\ UNCHANGED <<alive, mutex, object, sized, ctx, opened, made, created>>

\* _shm.truncate: new bytes are 0, an object that has its size stays as it is.
Truncate(t) ==
    /\ Step(t, "truncate", "publish")
    /\ sized' = sized \cup {opened[t]}
    /\ UNCHANGED <<alive, mutex, object, ctx, opened, made, created>>

\* The object is mapped, the Context stored in _ctx and the mutex left.
Publish(t) ==
    /\ Step(t, "publish", "enter")
    /\ ctx' = [ctx EXCEPT ![ProcOf[t]] = opened[t]]
    /\ made' = [made EXCEPT ![ProcOf[t]] = @ + 1]
    /\ mutex' = NoThread
    /\ UNCHANGED <<alive, object, sized, opened, created>>

\* A mutant: the mutex is left by hand at the end, and not by a guard.
Throw_NoGuard(t) ==
    /\ loc[t] \in {"open", "truncate", "publish"}
    /\ Step(t, loc[t], "idle")
    /\ UNCHANGED <<alive, mutex, object, sized, ctx, opened, made, created>>

\* Opening, resizing or mapping fails: the exception leaves the function, the
\* guard leaves the mutex, and _ctx stays null.
Throw(t) ==
    /\ loc[t] \in {"open", "truncate", "publish"}
    /\ Step(t, loc[t], "idle")
    /\ mutex' = NoThread
    /\ UNCHANGED <<alive, object, sized, ctx, opened, made, created>>

-----------------------------------------------------------------------------
(* access().                                                               *)

Enter(t) ==
    /\ Step(t, "enter", "inside")
    /\ mutex = NoThread
    /\ mutex' = t
    /\ UNCHANGED <<alive, object, sized, ctx, opened, made, created>>

\* The function works on the tables of the object its process has mapped.
Access(t) ==
    /\ Step(t, "inside", "idle")
    /\ mutex' = NoThread
    /\ UNCHANGED <<alive, object, sized, ctx, opened, made, created>>

-----------------------------------------------------------------------------

\* A mutant: the Context is destroyed when the process ends, and with it, in
\* ~BaseRawSharedMemory, the name of the object.
End_Destroys(p) ==
    /\ alive' = alive \ {p}
    /\ object' = IF ctx[p] = 0 THEN object ELSE 0
    /\ UNCHANGED <<mutex, sized, ctx, loc, opened, made, created>>

\* Nothing destroys the Context: the object outlives the process.
End(p) ==
    /\ alive' = alive \ {p}
    /\ UNCHANGED <<mutex, object, sized, ctx, loc, opened, made, created>>

\* The process exits or is killed, wherever its threads are.
Die(p) ==
    /\ p \in alive \cap Mortal
    /\ End(p)

ThreadStep(t) ==
    \/ Lock(t) \/ Recheck(t) \/ OpenObject(t) \/ Truncate(t) \/ Publish(t)
    \/ Enter(t) \/ Access(t)

ContextsNext ==
    \/ \E t \in Threads : initializeContext(t) \/ ThreadStep(t) \/ Throw(t)
    \/ \E p \in Procs : Die(p)

ContextsSpec == ContextsInit /\ [][ContextsNext]_contextVars

-----------------------------------------------------------------------------
(* Properties.                                                             *)

\* At most MaxObjects objects are ever created.
ContextsTypeOK ==
    /\ alive \subseteq Procs
    /\ mutex \in Threads \cup {NoThread}
    /\ object \in 0..MaxObjects
    /\ sized \subseteq Objects
    /\ ctx \in [Procs -> 0..MaxObjects]
    /\ loc \in [Threads -> {"idle", "lock", "recheck", "open", "truncate", "publish",
                            "enter", "inside"}]
    /\ opened \in [Threads -> 0..MaxObjects]
    /\ made \in [Procs -> Nat]
    /\ created \in 0..MaxObjects

\* However its threads race for the first call, and whatever of it fails, a
\* process creates one Context: its buffers and callbacks are in one map each.
OneContext == \A p \in Procs : made[p] <= 1

\* All processes work on one set of tables, also when the processes that
\* created it are gone.
OneSegment == \A p \in Procs : ctx[p] # 0 => ctx[p] = object

\* The tables are touched in an object of full size only, although another
\* process may have failed between creating it and resizing it.
MappedWhole == \A t \in Threads : loc[t] = "inside" => ctx[ProcOf[t]] \in sized

\* Outside the locked sections of initializeContext and access() no thread has
\* the mutex: none waits in them for the mutex it has already, since the
\* constructor does not use access(), and none returns to its caller with it,
\* also when the constructor throws.  (timerProc, which does wait for a mutex it
\* has, is in module Timers.)
MutexGivenBack == \A t \in Threads : mutex = t => loc[t] \in Locked
=============================================================================
