---------------------------- MODULE RacesProofs ----------------------------
(***************************************************************************)
(* Proofs about the components in which threads or programs meet between   *)
(* the steps of a function, for any number of them.                        *)
(*                                                                         *)
(* Contexts: a process creates at most one Context, all of them map one    *)
(* object of full size, and the mutex is given back.  Inv says where a     *)
(* thread can be while another one has the mutex, and what the constructor *)
(* has established at each of its steps.                                   *)
(* SynchCalls: no call gets out of start() unless a signal lets it.        *)
(* Registry: RegInv says that a call of value() in its course has taken    *)
(* note of what the value is now.                                          *)
(***************************************************************************)
EXTENDS Contexts, SynchCalls, Registry, TLAPS

(* Contexts.                                                               *)

\* The places at which the constructor of the Context is under way.
Constructing == {"open", "truncate", "publish"}

\* Whoever is in a locked section has the mutex, and only then.
MutexInv == \A t \in Threads : loc[t] \in Locked <=> mutex = t

\* The constructor runs only while there is no Context, and works on the one
\* object; access() is reached only when there is one.
PlaceInv ==
    \A t \in Threads :
        /\ loc[t] \in Constructing => ctx[ProcOf[t]] = 0
        /\ loc[t] \in {"truncate", "publish"} => opened[t] = object /\ object # 0
        /\ loc[t] = "publish" => opened[t] \in sized
        /\ loc[t] \in {"enter", "inside"} => ctx[ProcOf[t]] # 0

\* A Context maps the object, which then has its size, and has been made once.
ContextInv ==
    \A p \in Procs :
        /\ ctx[p] # 0 => ctx[p] = object /\ object \in sized /\ made[p] = 1
        /\ ctx[p] = 0 => made[p] = 0

Inv == ContextsTypeOK /\ MutexInv /\ PlaceInv /\ ContextInv

USE ThreadsAssumption, ObjectsAssumption DEF Objects

\* Before the first call there is no object, no Context and no holder.
LEMMA InitInv == ContextsInit => Inv
  BY DEF ContextsInit, Inv, ContextsTypeOK, MutexInv, PlaceInv, ContextInv, Locked, Constructing

\* Every step of initializeContext and access() preserves the invariant.
LEMMA NextInv == Inv /\ [ContextsNext]_contextVars => Inv'
<1> SUFFICES ASSUME Inv, [ContextsNext]_contextVars PROVE Inv'
  OBVIOUS
<1> USE DEF Inv, ContextsTypeOK, MutexInv, PlaceInv, ContextInv, Locked, Constructing, Step
<1>1. ASSUME NEW t \in Threads, initializeContext(t) PROVE Inv'
  BY <1>1 DEF initializeContext
<1>2. ASSUME NEW t \in Threads, Lock(t) PROVE Inv'
  BY <1>2 DEF Lock
<1>3. ASSUME NEW t \in Threads, Recheck(t) PROVE Inv'
  BY <1>3 DEF Recheck
<1>4. ASSUME NEW t \in Threads, OpenObject(t) PROVE Inv'
  BY <1>4 DEF OpenObject
<1>5. ASSUME NEW t \in Threads, Truncate(t) PROVE Inv'
  <2>1. opened[t] = object /\ object \in Objects
    BY <1>5 DEF Truncate
  <2>2. (ContextsTypeOK /\ MutexInv /\ ContextInv)'
    BY <1>5, <2>1 DEF Truncate
  <2>3. PlaceInv'
    BY <1>5, <2>1 DEF Truncate
  <2> QED
    BY <2>2, <2>3
<1>6. ASSUME NEW t \in Threads, Publish(t) PROVE Inv'
  BY <1>6 DEF Publish
<1>7. ASSUME NEW t \in Threads, Throw(t) PROVE Inv'
  BY <1>7 DEF Throw
<1>8. ASSUME NEW t \in Threads, Enter(t) PROVE Inv'
  BY <1>8 DEF Enter
<1>9. ASSUME NEW t \in Threads, Access(t) PROVE Inv'
  BY <1>9 DEF Access
<1>10. ASSUME NEW p \in Procs, Die(p) PROVE Inv'
  BY <1>10 DEF Die, End
<1>11. CASE UNCHANGED contextVars
  BY <1>11 DEF contextVars
<1> QED
  BY <1>1, <1>2, <1>3, <1>4, <1>5, <1>6, <1>7, <1>8, <1>9, <1>10, <1>11 DEF ContextsNext, ThreadStep

\* The invariant holds in every state of every run.
LEMMA SpecInv == ContextsSpec => []Inv
  BY InitInv, NextInv, PTL DEF ContextsSpec

\* initializeContext creates one Context per process, whoever races for it.
THEOREM ContextsOneContext == ContextsSpec => []OneContext
<1>1. Inv => OneContext
  BY DEF Inv, ContextsTypeOK, ContextInv, OneContext
<1> QED
  BY <1>1, SpecInv, PTL

\* All Contexts map one object, and the tables are touched only when it has its
\* full size.
THEOREM ContextsOneSegment == ContextsSpec => [](OneSegment /\ MappedWhole)
<1>1. Inv => OneSegment /\ MappedWhole
  BY DEF Inv, ContextsTypeOK, PlaceInv, ContextInv, OneSegment, MappedWhole
<1> QED
  BY <1>1, SpecInv, PTL

\* Types are respected and no thread leaves a locked section with the mutex.
THEOREM ContextsMutex == ContextsSpec => [](ContextsTypeOK /\ MutexGivenBack)
<1>1. Inv => ContextsTypeOK /\ MutexGivenBack
  BY DEF Inv, MutexInv, MutexGivenBack
<1> QED
  BY <1>1, SpecInv, PTL

-----------------------------------------------------------------------------
(* SynchCalls.                                                             *)

\* No semaphore gets a token, so only a thread that a signal reaches gets out of
\* start(); and when one leaves its call the process is over.
CallInv ==
    /\ at \in [Callers -> {"idle", "start", "request", "wait", "leave", "dead"}]
    /\ started = [t \in Callers |-> 0] /\ done = [t \in Callers |-> 0]
    /\ \A t \in Callers \ Interruptible : at[t] \in {"idle", "start"}
    /\ pending \subseteq Interruptible
    /\ ~running => \E t \in Interruptible : at[t] = "dead"

\* For any number of threads and whichever signals interrupt sem_wait, no
\* synchronous call that no signal reaches gets out of start(), so it issues no
\* request, and the process ends only through a call that a signal let out.
THEOREM CallsOnlySignalsPass == CallsSpec => []OnlySignalsPass
<1>1. CallsInit => CallInv
  BY DEF CallsInit, CallInv
<1>2. CallInv /\ [CallsNext]_callVars => CallInv'
  <2>. SUFFICES ASSUME CallInv, [CallsNext]_callVars PROVE CallInv'
    OBVIOUS
  <2>1. CASE UNCHANGED callVars
    BY <2>1 DEF CallInv, callVars
  <2>2. CASE CallsNext
    <3>1. PICK t \in Callers :
            Start(t) \/ Started(t) \/ Request(t) \/ Complete(t) \/ Completed(t) \/ Leave(t)
      BY <2>2 DEF CallsNext
    <3>2. running /\ started[t] = 0 /\ done[t] = 0
      BY <2>2 DEF CallInv, CallsNext
    <3>3. CASE Start(t) \/ Request(t) \/ Complete(t)
      BY <3>2, <3>3 DEF CallInv, Start, Request, Complete, Goto
    <3>4. CASE Started(t) \/ Completed(t)
      <4>1. t \in Interruptible
        <5>1. acquire(t, started[t]) \/ acquire(t, done[t])
          BY <3>4 DEF Started, Completed
        <5>2. acquire(t, 0)
          BY <3>2, <5>1
        <5>. QED  BY <5>2 DEF acquire
      <4>2. Left(0) = 0
        BY DEF Left
      <4>3. started' = [u \in Callers |-> 0]
        BY <3>2, <3>4, <4>2 DEF CallInv, Started, Completed
      <4>4. done' = [u \in Callers |-> 0]
        BY <3>2, <3>4, <4>2 DEF CallInv, Started, Completed
      <4>. QED  BY <3>2, <3>4, <4>1, <4>3, <4>4 DEF CallInv, Started, Completed, Goto
    <3>5. CASE Leave(t)
      BY <3>2, <3>5 DEF CallInv, Leave, Goto
    <3>. QED  BY <3>1, <3>3, <3>4, <3>5
  <2>. QED  BY <2>1, <2>2
<1>3. CallInv => OnlySignalsPass
  BY DEF CallInv, OnlySignalsPass
<1>. QED
  BY <1>1, <1>2, <1>3, PTL DEF CallsSpec

-----------------------------------------------------------------------------
(* Registry.                                                               *)

Codes == {"WFS_SUCCESS", "WFS_ERR_CFG_INVALID_HKEY", "WFS_ERR_CFG_INVALID_NAME",
          "WFS_ERR_CFG_VALUE_TOO_LONG"}

SeenNow ==
    /\ seen \in [Clients -> SUBSET (Texts \cup {Missing})]
    /\ place \in [Clients -> {"idle", "size", "read"}]
    /\ result \in [Clients -> {Nothing, Default} \cup [kind : {"throws"}, code : Codes]
                     \cup [kind : {"text"}, text : Texts, whole : BOOLEAN]]
    /\ store \in Texts \cup {Missing}
    /\ bufSize \in [Clients -> Nat]
    /\ \A c \in Clients : place[c] # "idle" => store \in seen[c]

RegInv == SeenNow /\ ValueWasThere /\ DefaultOnlyIfMissing

\* Every step of a program keeps what the calls of value() have noted.
LEMMA RegistryStep == RegInv /\ [RegistryNext]_registryVars => RegInv'
<1> SUFFICES ASSUME RegInv, [RegistryNext]_registryVars PROVE RegInv'
  OBVIOUS
<1> USE DEF RegInv, SeenNow, ValueWasThere, DefaultOnlyIfMissing
<1>1. ASSUME NEW c \in Clients, Create(c) \/ Destroy(c) PROVE RegInv'
  BY <1>1 DEF Create, Destroy
<1>2. ASSUME NEW t \in Texts \cup {Missing}, store' = t, Note(t),
             UNCHANGED <<place, result, bufSize>>
      PROVE RegInv'
  BY <1>2 DEF Note
<1>3. ASSUME NEW c \in Clients, NEW t \in Texts, setValue(c, t) PROVE RegInv'
  BY <1>2, <1>3 DEF setValue
<1>4. ASSUME NEW c \in Clients, removeValue(c) PROVE RegInv'
  BY <1>2, <1>4 DEF removeValue
<1>5. ASSUME removeKey PROVE RegInv'
  BY <1>2, <1>5 DEF removeKey
<1>6. ASSUME NEW c \in Clients, NEW d \in BOOLEAN, value(c, d) PROVE RegInv'
  BY <1>6 DEF value, Opened, Nothing
<1>7. ASSUME NEW c \in Clients, place[c] # "idle", NEW r, Ends(c, r),
             UNCHANGED <<store, seen, bufSize>>,
             \/ store # Missing /\ r = Returns(store, TRUE)
             \/ store = Missing /\ r = Default
             \/ \E code \in Codes : r = Throws(code)
      PROVE RegInv'
  <2>1. r \in {Default} \cup [kind : {"throws"}, code : Codes]
                \cup [kind : {"text"}, text : Texts, whole : BOOLEAN]
    <3>1. CASE store # Missing /\ r = Returns(store, TRUE)
      BY <3>1 DEF Returns
    <3>2. CASE r = Default
      BY <3>2
    <3>3. CASE \E code \in Codes : r = Throws(code)
      <4>1. PICK code \in Codes : r = Throws(code)
        BY <3>3
      <4> QED
        BY <4>1 DEF Throws
    <3> QED
      BY <1>7, <3>1, <3>2, <3>3
  <2>2. /\ r.kind = "text" => r.whole /\ r.text = store
        /\ r.kind = "default" => store = Missing
    BY <1>7 DEF Returns, Throws, Default
  <2>3. /\ store \in seen[c]
        /\ result' = [result EXCEPT ![c] = r]
        /\ place' = [place EXCEPT ![c] = "idle"]
    BY <1>7 DEF Ends
  <2>4. SeenNow'
    BY <1>7, <2>1, <2>3
  <2> QED
    BY <1>7, <2>2, <2>3, <2>4
<1>8. ASSUME NEW c \in Clients, NEW n \in Nat
      PROVE /\ WFMQueryValue(c, n) \in Codes
            /\ WFMQueryValue(c, n) = "WFS_ERR_CFG_INVALID_NAME" => store = Missing
            /\ WFMQueryValue(c, n) \in {"WFS_SUCCESS", "WFS_ERR_CFG_VALUE_TOO_LONG"}
                 => store # Missing
  BY SizeAssumption DEF WFMQueryValue, Valid, Codes
<1>9. ASSUME NEW c \in Clients, AskSize(c) PROVE RegInv'
  <2>1. CASE WFMQueryValue(c, 0) \in {"WFS_SUCCESS", "WFS_ERR_CFG_VALUE_TOO_LONG"}
    <3>1. Size[store] \in Nat
      BY <1>8, <2>1, SizeAssumption
    <3> QED
      BY <1>9, <2>1, <3>1 DEF AskSize
  <2>2. CASE WFMQueryValue(c, 0) \notin {"WFS_SUCCESS", "WFS_ERR_CFG_VALUE_TOO_LONG"}
    BY <1>7, <1>8, <1>9, <2>2 DEF AskSize, Caught
  <2> QED
    BY <2>1, <2>2
<1>10. ASSUME NEW c \in Clients, ReadText(c) PROVE RegInv'
  <2>1. CASE WFMQueryValue(c, bufSize[c]) = "WFS_SUCCESS"
    BY <1>7, <1>8, <1>10, <2>1 DEF ReadText
  <2>2. CASE WFMQueryValue(c, bufSize[c]) # "WFS_SUCCESS"
    BY <1>7, <1>8, <1>10, <2>2 DEF ReadText, Caught
  <2> QED
    BY <2>1, <2>2
<1>11. CASE UNCHANGED registryVars
  BY <1>11 DEF registryVars
<1> QED
  BY <1>1, <1>3, <1>4, <1>5, <1>6, <1>9, <1>10, <1>11 DEF RegistryNext

\* At first no call of value() is under way.
LEMMA RegistryStart == RegistryInit => RegInv
  BY DEF RegistryInit, RegInv, SeenNow, ValueWasThere, DefaultOnlyIfMissing, Nothing

\* What Key::value returns is, whole, a text the value had in the course of the
\* call, and its default stands for a value that was missing in that time.
THEOREM RegistryReadsSound == RegistrySpec => [](ValueWasThere /\ DefaultOnlyIfMissing)
<1>1. RegistrySpec => []RegInv
  BY RegistryStart, RegistryStep, PTL DEF RegistrySpec
<1>2. RegInv => ValueWasThere /\ DefaultOnlyIfMissing
  BY DEF RegInv
<1> QED
  BY <1>1, <1>2, PTL
=============================================================================
