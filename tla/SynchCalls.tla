----------------------------- MODULE SynchCalls -----------------------------
(***************************************************************************)
(* The synchronous functions of the LFS manager (LFSOpen, LFSClose,        *)
(* LFSExecute, ...), the windows they wait with (SynchMsgWnd over          *)
(* sys/msgwnd.cpp) and the semaphores of sys/synch.cpp, in one process.    *)
(*                                                                         *)
(* A call creates a window, waits in start() for the window's thread,      *)
(* issues the asynchronous request, waits for its completion and returns.  *)
(* The window's thread reads CMessageQueue in an endless loop, and the     *)
(* release start() waits for is behind that loop.  Nothing writes to the   *)
(* queue: LFMPostMessage delivers through callbackMap (module Callbacks),  *)
(* where no window has a function.  acquire() does not look at what        *)
(* sem_wait returns, so a signal handler lets it return without a token.   *)
(***************************************************************************)
EXTENDS Naturals

CONSTANTS Callers,          \* threads that make synchronous calls
          Interruptible     \* the threads whose sem_wait a signal may interrupt

ASSUME CallersAssumption == Interruptible \subseteq Callers

VARIABLES running,      \* std::terminate has not been called
          at,           \* thread -> place in its call
          started,      \* thread -> tokens of the semaphore of start()
          done,         \* thread -> tokens of the semaphore of the call
          window,       \* the threads whose window has a running thread
          pending       \* the threads whose request the provider works on

callVars == <<running, at, started, done, window, pending>>

CallsInit ==
    /\ running = TRUE
    /\ at = [t \in Callers |-> "idle"]
    /\ started = [t \in Callers |-> 0]
    /\ done = [t \in Callers |-> 0]
    /\ window = {}
    /\ pending = {}

Goto(t, from, to) == at[t] = from /\ at' = [at EXCEPT ![t] = to]

\* A mutant: the semaphore of start() begins with a token.
Start_Token(t) ==
    /\ Goto(t, "idle", "start")
    /\ started' = [started EXCEPT ![t] = 1]
    /\ done' = [done EXCEPT ![t] = 0]
    /\ window' = window \cup {t}
    /\ UNCHANGED <<running, pending>>

\* The semaphores are new, with no tokens, and the window's thread begins its
\* loop.
Start(t) ==
    /\ Goto(t, "idle", "start")
    /\ started' = [started EXCEPT ![t] = 0]
    /\ done' = [done EXCEPT ![t] = 0]
    /\ window' = window \cup {t}
    /\ UNCHANGED <<running, pending>>

\* acquire() on a semaphore with n tokens returns, and how many it leaves.
acquire(t, n) == n > 0 \/ t \in Interruptible
Left(n) == IF n > 0 THEN n - 1 ELSE 0

\* start() returns.
Started(t) ==
    /\ Goto(t, "start", "request")
    /\ acquire(t, started[t])
    /\ started' = [started EXCEPT ![t] = Left(@)]
    /\ UNCHANGED <<running, done, window, pending>>

\* The asynchronous function takes the request or returns an error.
Request(t) ==
    /\ \/ Goto(t, "request", "wait") /\ pending' = pending \cup {t}
       \/ Goto(t, "request", "leave") /\ UNCHANGED pending
    /\ UNCHANGED <<running, started, done, window>>

\* The provider posts the completion, and LFMPostMessage finds no callback.
Complete(t) ==
    /\ t \in pending
    /\ pending' = pending \ {t}
    /\ UNCHANGED <<running, at, started, done, window>>

\* sem.acquire() of the call.
Completed(t) ==
    /\ Goto(t, "wait", "leave")
    /\ acquire(t, done[t])
    /\ done' = [done EXCEPT ![t] = Left(@)]
    /\ UNCHANGED <<running, started, window, pending>>

\* The window is destroyed, and with it a std::thread that is still running:
\* std::terminate.
Leave(t) ==
    /\ t \in window
    /\ Goto(t, "leave", "dead")
    /\ running' = FALSE
    /\ UNCHANGED <<started, done, window, pending>>

CallsNext ==
    /\ running
    /\ \E t \in Callers :
        Start(t) \/ Started(t) \/ Request(t) \/ Complete(t) \/ Completed(t) \/ Leave(t)

CallsSpec == CallsInit /\ [][CallsNext]_callVars

-----------------------------------------------------------------------------
(* Properties.                                                             *)

\* No call issues its request, and none ends the process, before the window's
\* thread has released the semaphore start() waits on, which it never does: only
\* a signal lets a call out of start(), and each call's tokens are its own.
OnlySignalsPass ==
    /\ \A t \in Callers \ Interruptible : at[t] \in {"idle", "start"}
    /\ pending \subseteq Interruptible
    /\ ~running => \E t \in Interruptible : at[t] = "dead"
=============================================================================
