------------------------------ MODULE Manager ------------------------------
(***************************************************************************)
(* The session tables of the LFS manager (LFSadmin.cpp).  One ShMemLayout  *)
(* in shared memory serves every process of the machine: pidTable says     *)
(* which process owns which AppData, and an AppData holds the services the *)
(* process has opened (hServices) and its application handles (handles).   *)
(*                                                                         *)
(* Every function that touches the tables does so in one _ctx->shMem.access*)
(* call, under the cross-process mutex, and is one action.  The call into  *)
(* the service provider (lib->call) comes after the mutex is released and  *)
(* is an action of its own, CallProvider; between the two other threads    *)
(* and processes run.                                                      *)
(*                                                                         *)
(* A Library object lives in the memory of the process that loaded it, but *)
(* hServices keeps its address in shared memory.  The model names a        *)
(* Library after the process that owns it.  A process is one incarnation;  *)
(* the kernel gives the pid of a dead process to a later one.              *)
(*                                                                         *)
(* usService and the application handle index their arrays unchecked, so a *)
(* call with a number outside its table reaches other fields of apps, of   *)
(* the caller's own entry or of another process's.  The model follows it   *)
(* there and notes the field that was hit (overrun).  It does not follow   *)
(* an index that leaves apps altogether, for the pidTable, the timers or   *)
(* the end of the segment.                                                 *)
(***************************************************************************)
EXTENDS Integers, FiniteSets

CONSTANTS Procs,        \* process incarnations
          Pids,         \* process ids
          NoPid,        \* the 0 of an unused pidTable entry
          NoLib,        \* the null Library pointer
          Wild,         \* a pointer made of bytes that are not, or no longer, an
                        \* intact spLib: what it points to is not followed
          NApps,        \* entries of apps and pidTable (64)
          NServices,    \* entries of hServices (8192)
          NHandles,     \* entries of handles (8192)
          WordCells,    \* handles covered by one machine word (8)
          MaxService,   \* bound: the largest usService a caller passes
          MaxHandle,    \* bound: the largest handle a caller passes, and its negative
          MaxReqId,     \* bound: requests with ids up to this one are issued
          MaxCalls,     \* bound: calls into providers that are under way
          MaxMarks      \* bound: fields written from outside their tables

ASSUME PidsAssumption == NoPid \notin Pids
ASSUME NoLibAssumption == NoLib \notin Procs /\ Wild \notin Procs /\ Wild # NoLib
ASSUME SizesAssumption ==
    /\ NApps \in Nat \ {0} /\ NServices \in Nat \ {0} /\ NHandles \in Nat
    /\ WordCells \in Nat \ {0} /\ 2 * WordCells <= NHandles
    /\ MaxService \in Nat /\ NServices < MaxService /\ MaxHandle \in Nat
    /\ MaxReqId \in Nat /\ MaxCalls \in Nat /\ MaxMarks \in Nat

VARIABLES alive,        \* the running processes
          pidOf,        \* process -> its pid, NoPid before it starts
          pidTable,     \* app -> pid of the process it serves
          reqId,        \* app, service -> hServices[].reqId, the next request id
          spLib,        \* app, service -> hServices[].spLib, owner of the Library
          handles,      \* app, handle -> allocated?
          calls,        \* provider calls between the unlock and lib->call
          ret           \* HRESULT of the step, "none" when it returns nothing

\* What the clients know, and which fields were written from outside.
VARIABLES owns,         \* processes in a session their own LFSStartUp began
          held,         \* process -> app handles its session was given
          opens,        \* process, service -> times its session was given it
          issued,       \* process, service -> request ids its session was given
          overrun       \* <<app, field>>: an access outside its own table has written
                        \* to this field since the entry was last cleared

tables == <<pidTable, reqId, spLib, handles>>
clients == <<owns, held, opens, issued, overrun>>
vars == <<alive, pidOf, tables, calls, ret, clients>>

Apps == 1..NApps
Services == 1..NServices
Handles == 1..NHandles
Fields == {"reqId", "spLib", "handles"}

\* i is what std::find returns when exactly the members of S match.
IsFirst(i, S) == i \in S /\ \A j \in S : i <= j

\* The pidTable entries that hold the pid of p.
SlotsOf(p) == {a \in Apps : pidTable[a] = pidOf[p]}

FreeSlots == {a \in Apps : pidTable[a] = NoPid}

\* hServices entries LFSAsyncOpen regards as unused.
FreeServices(a) == {s \in Services : reqId[a][s] = 0}

\* The layout of apps.  An SPData is two words, and the handles of an entry,
\* a byte each, take the room of HandleCells of them.
SPDataBytes == 2 * WordCells
HandleCells == NHandles \div SPDataBytes
AppCells == NServices + HandleCells
AppBytes == SPDataBytes * NServices + NHandles

\* hServices[s - 1] of apps[a] is hServices[t - 1] of apps[b].
ServiceAt(a, s, b, t) == s = (b - a) * AppCells + t

\* hServices[s - 1] of apps[a] is the i-th pair of words in the handles of apps[b].
HandlesAt(a, s, b, i) == s = (b - a) * AppCells + NServices + 1 + i

\* handles[h - 1] of apps[a] is handles[i - 1] of apps[b].
HandleAt(a, h, b, i) == h = (b - a) * AppBytes + i

\* handles[h - 1] of apps[a] is byte j of hServices[t - 1] of apps[b].
ByteAt(a, h, b, t, j) ==
    h = (b - a) * AppBytes - SPDataBytes * (NServices + 1 - t) + j + 1

\* The handles in the word that begins with handle h.
Word(h) == h..(h + WordCells - 1)

\* What the handles can be after reqId++ on the word that begins with handle h:
\* the first k bytes were 255 and are 0 now, the next one has grown.
Incremented(old, h) ==
    {[i \in Handles |-> IF i \in h..(h + k - 1) THEN FALSE
                       ELSE IF i = h + k /\ k < WordCells THEN TRUE ELSE old[i]] :
        k \in {n \in 0..WordCells : \A i \in h..(h + n - 1) : old[i]}}

\* The marks after an access through apps[a] has written field f of apps[b].
Hit(a, b, f) == IF b = a THEN overrun ELSE overrun \cup {<<b, f>>}

NoIds == [s \in Services |-> {}]
NoOpens == [s \in Services |-> 0]

Init ==
    /\ alive = {}
    /\ pidOf = [p \in Procs |-> NoPid]
    /\ pidTable = [a \in Apps |-> NoPid]
    /\ reqId = [a \in Apps |-> [s \in Services |-> 0]]
    /\ spLib = [a \in Apps |-> [s \in Services |-> NoLib]]
    /\ handles = [a \in Apps |-> [h \in Handles |-> FALSE]]
    /\ calls = {}
    /\ ret = "none"
    /\ owns = {}
    /\ held = [p \in Procs |-> {}]
    /\ opens = [p \in Procs |-> NoOpens]
    /\ issued = [p \in Procs |-> NoIds]
    /\ overrun = {}

\* The client's record f after the session of p has got v from the manager.  A
\* process that lives in an entry it has not started itself keeps no records.
Noted(f, p, v) == IF p \in owns THEN [f EXCEPT ![p] = v] ELSE f

\* The client's records when the session of p ends.
Forget(p) ==
    /\ owns' = owns \ {p}
    /\ held' = [held EXCEPT ![p] = {}]
    /\ opens' = [opens EXCEPT ![p] = NoOpens]
    /\ issued' = [issued EXCEPT ![p] = NoIds]

\* An early return that has touched nothing.
Return(code) ==
    /\ ret' = code
    /\ UNCHANGED <<alive, pidOf, tables, calls, clients>>

\* A call of p, whose entry is a, bound to the library its locked section has
\* read.  own: p is in a session of its own whose spLib fields are intact.
CallOf(p, s, id, lib, a) ==
    [proc |-> p, svc |-> s, id |-> id, lib |-> lib,
     own |-> p \in owns /\ <<a, "spLib">> \notin overrun]

\* One more time, counted up to 2.
Again(n) == IF n < 2 THEN n + 1 ELSE n

-----------------------------------------------------------------------------
(* Processes.                                                              *)

\* A process starts with a pid no running process has.
Spawn(p) ==
    /\ pidOf[p] = NoPid
    /\ \E pid \in Pids :
        /\ \A q \in alive : pidOf[q] # pid
        /\ pidOf' = [pidOf EXCEPT ![p] = pid]
    /\ alive' = alive \cup {p}
    /\ ret' = "none"
    /\ UNCHANGED <<tables, calls, clients>>

\* It exits or is killed outside the locked sections.  Nothing in the manager
\* notices: only LFSCleanUp clears a pidTable entry.
Die(p) ==
    /\ p \in alive
    /\ alive' = alive \ {p}
    /\ calls' = {c \in calls : c.proc # p}
    /\ ret' = "none"
    /\ Forget(p)
    /\ UNCHANGED <<pidOf, tables, overrun>>

-----------------------------------------------------------------------------
(* Sessions.                                                               *)

\* A mutant: the table is not searched for the caller's pid.
LFSStartUp_NoFind(p) ==
    /\ p \in alive
    /\ \E a \in Apps :
        /\ IsFirst(a, FreeSlots)
        /\ pidTable' = [pidTable EXCEPT ![a] = pidOf[p]]
        /\ reqId' = [reqId EXCEPT ![a] = [s \in Services |-> 0]]
        /\ spLib' = [spLib EXCEPT ![a] = [s \in Services |-> NoLib]]
        /\ handles' = [handles EXCEPT ![a] = [h \in Handles |-> FALSE]]
        /\ overrun' = overrun \ ({a} \X Fields)
    /\ ret' = "LFS_SUCCESS"
    /\ owns' = owns \cup {p}
    /\ UNCHANGED <<alive, pidOf, calls, held, opens, issued>>

\* A mutant: the entry is taken without clearMem of the AppData.
LFSStartUp_NoClear(p) ==
    /\ p \in alive
    /\ SlotsOf(p) = {}
    /\ \E a \in Apps :
        /\ IsFirst(a, FreeSlots)
        /\ pidTable' = [pidTable EXCEPT ![a] = pidOf[p]]
        /\ overrun' = overrun \ ({a} \X Fields)
    /\ ret' = "LFS_SUCCESS"
    /\ owns' = owns \cup {p}
    /\ UNCHANGED <<alive, pidOf, reqId, spLib, handles, calls, held, opens, issued>>

LFSStartUp(p) ==
    /\ p \in alive
    /\ \/ SlotsOf(p) # {} /\ Return("LFS_ERR_ALREADY_STARTED")
       \/ SlotsOf(p) = {} /\ FreeSlots = {} /\ Return("LFS_ERR_INTERNAL_ERROR")
       \/ /\ SlotsOf(p) = {}
          /\ \E a \in Apps :
              /\ IsFirst(a, FreeSlots)
              /\ pidTable' = [pidTable EXCEPT ![a] = pidOf[p]]
              /\ reqId' = [reqId EXCEPT ![a] = [s \in Services |-> 0]]
              /\ spLib' = [spLib EXCEPT ![a] = [s \in Services |-> NoLib]]
              /\ handles' = [handles EXCEPT ![a] = [h \in Handles |-> FALSE]]
              /\ overrun' = overrun \ ({a} \X Fields)
          /\ ret' = "LFS_SUCCESS"
          /\ owns' = owns \cup {p}
          /\ UNCHANGED <<alive, pidOf, calls, held, opens, issued>>

\* A mutant: the error path clears the first entry in use.
LFSCleanUp_AnyEntry(p) ==
    /\ p \in alive
    /\ \E a \in Apps :
        /\ IsFirst(a, Apps \ FreeSlots)
        /\ pidTable' = [pidTable EXCEPT ![a] = NoPid]
    /\ ret' = IF SlotsOf(p) = {} THEN "LFS_ERR_NOT_STARTED" ELSE "LFS_SUCCESS"
    /\ Forget(p)
    /\ UNCHANGED <<alive, pidOf, reqId, spLib, handles, calls, overrun>>

\* Gives the pidTable entry back; the AppData keeps its contents.
LFSCleanUp(p) ==
    /\ p \in alive
    /\ \/ SlotsOf(p) = {} /\ Return("LFS_ERR_NOT_STARTED")
       \/ /\ \E a \in Apps :
              /\ IsFirst(a, SlotsOf(p))
              /\ pidTable' = [pidTable EXCEPT ![a] = NoPid]
          /\ ret' = "LFS_SUCCESS"
          /\ Forget(p)
          /\ UNCHANGED <<alive, pidOf, reqId, spLib, handles, calls, overrun>>

\* The functions below only look the caller up.
CHECK_IF_STARTED(p) ==
    /\ p \in alive
    /\ Return(IF SlotsOf(p) = {} THEN "LFS_ERR_NOT_STARTED" ELSE "LFS_SUCCESS")

LFSCancelBlockingCall(p) == CHECK_IF_STARTED(p)
LFSSetBlockingHook(p) == CHECK_IF_STARTED(p)
LFSUnhookBlockingHook(p) == CHECK_IF_STARTED(p)

\* Its FALSE is the 0 of LFS_SUCCESS, and outside a session the caller reads the
\* error code as TRUE.
LFSIsBlocking(p) == CHECK_IF_STARTED(p)

-----------------------------------------------------------------------------
(* Application handles.                                                    *)

\* prev is what *lphdApp_Handle holds on entry, -1 stands for a null pointer.
\* When no handle is free the variable keeps prev, and a prev other than 0 is
\* then returned with LFS_SUCCESS.
LFSCreateAppHandle(p, prev) ==
    /\ p \in alive
    /\ \/ prev = -1 /\ Return("LFS_ERR_INVALID_POINTER")
       \/ prev # -1 /\ SlotsOf(p) = {} /\ Return("LFS_ERR_NOT_STARTED")
       \/ /\ prev # -1
          /\ \E a \in Apps, h \in Handles :
              /\ IsFirst(a, SlotsOf(p))
              /\ IsFirst(h, {i \in Handles : ~handles[a][i]})
              /\ handles' = [handles EXCEPT ![a][h] = TRUE]
              /\ held' = Noted(held, p, held[p] \cup {h})
          /\ ret' = "LFS_SUCCESS"
          /\ UNCHANGED <<alive, pidOf, pidTable, reqId, spLib, calls,
                         owns, opens, issued, overrun>>
       \/ /\ prev # -1
          /\ \E a \in Apps : IsFirst(a, SlotsOf(p)) /\ \A i \in Handles : handles[a][i]
          /\ IF prev = 0
               THEN ret' = "LFS_ERR_INTERNAL_ERROR" /\ UNCHANGED held
               ELSE ret' = "LFS_SUCCESS" /\ held' = Noted(held, p, held[p] \cup {prev})
          /\ UNCHANGED <<alive, pidOf, tables, calls, owns, opens, issued, overrun>>

\* A mutant: the entry is not cleared.
LFSDestroyAppHandle_NoClear(p, h) ==
    /\ p \in alive
    /\ SlotsOf(p) # {}
    /\ ret' = "LFS_SUCCESS"
    /\ held' = [held EXCEPT ![p] = @ \ {h}]
    /\ UNCHANGED <<alive, pidOf, tables, calls, owns, opens, issued, overrun>>

\* idx doubles as the result flag, so destroying handle 1 (idx 0) succeeds also
\* when it is not allocated.  A number that is no handle names another byte of
\* apps: when that is not 0, it is cleared and the call succeeds.
LFSDestroyAppHandle(p, h) ==
    /\ p \in alive
    /\ \/ h = 0 /\ Return("LFS_ERR_INVALID_APP_HANDLE")
       \/ h # 0 /\ SlotsOf(p) = {} /\ Return("LFS_ERR_NOT_STARTED")
       \/ /\ h # 0
          /\ \E a, b \in Apps, i \in Handles :
              /\ IsFirst(a, SlotsOf(p))
              /\ HandleAt(a, h, b, i)
              /\ ret' = IF handles[b][i] \/ h = 1
                          THEN "LFS_SUCCESS" ELSE "LFS_ERR_INVALID_APP_HANDLE"
              /\ handles' = [handles EXCEPT ![b][i] = FALSE]
              /\ overrun' = Hit(a, b, "handles")
              /\ held' = IF b = a THEN [held EXCEPT ![p] = @ \ {i}] ELSE held
          /\ UNCHANGED <<alive, pidOf, pidTable, reqId, spLib, calls, owns, opens, issued>>
       \/ /\ h # 0
          /\ \E a, b \in Apps, t \in Services, j \in 0..(SPDataBytes - 1) :
              /\ IsFirst(a, SlotsOf(p))
              /\ ByteAt(a, h, b, t, j)
              /\ \/ /\ ret' = "LFS_ERR_INVALID_APP_HANDLE"
                    /\ UNCHANGED <<reqId, spLib, overrun>>
                 \/ /\ j < WordCells
                    /\ \E r \in 0..(reqId[b][t] - 1) : reqId' = [reqId EXCEPT ![b][t] = r]
                    /\ overrun' = overrun \cup {<<b, "reqId">>}
                    /\ ret' = "LFS_SUCCESS"
                    /\ UNCHANGED spLib
                 \/ /\ j >= WordCells
                    /\ spLib[b][t] # NoLib
                    /\ \E lib \in {NoLib, Wild} : spLib' = [spLib EXCEPT ![b][t] = lib]
                    /\ overrun' = overrun \cup {<<b, "spLib">>}
                    /\ ret' = "LFS_SUCCESS"
                    /\ UNCHANGED reqId
          /\ UNCHANGED <<alive, pidOf, pidTable, handles, calls, owns, held, opens, issued>>

-----------------------------------------------------------------------------
(* Opening a service.                                                      *)

\* What an open past the end of hServices leaves in the handles behind it:
\* reqId = 1 is stored little-endian in the first word, and when the library
\* loads its address follows in the second.
OverwrittenHandles(old, new, loaded) ==
    /\ new[1]
    /\ \A h \in Word(1) \ {1} : ~new[h]
    /\ IF loaded THEN \E h \in Word(1 + WordCells) : new[h]
                 ELSE \A h \in Word(1 + WordCells) : new[h] = old[h]
    /\ \A h \in Handles : h > SPDataBytes => new[h] = old[h]

\* A mutant: the library is entered in the caller's table without an entry
\* being reserved through reqId.
LFSAsyncOpen_NotReserved(p) ==
    /\ p \in alive
    /\ \E a \in Apps, s \in Services :
        /\ IsFirst(a, SlotsOf(p))
        /\ IsFirst(s, FreeServices(a))
        /\ spLib' = [spLib EXCEPT ![a][s] = p]
        /\ opens' = Noted(opens, p, [opens[p] EXCEPT ![s] = Again(@)])
    /\ ret' = "none"
    /\ UNCHANGED <<alive, pidOf, pidTable, reqId, handles, calls, owns, held, issued, overrun>>

\* A mutant: the open draws its id from reqId like a request does.
LFSAsyncOpen_DrawsId(p) ==
    /\ p \in alive
    /\ Cardinality(calls) < MaxCalls
    /\ \E a \in Apps, s \in Services :
        /\ IsFirst(a, SlotsOf(p))
        /\ IsFirst(s, FreeServices(a))
        /\ reqId' = [reqId EXCEPT ![a][s] = 2]
        /\ spLib' = [spLib EXCEPT ![a][s] = p]
        /\ opens' = Noted(opens, p, [opens[p] EXCEPT ![s] = Again(@)])
        /\ calls' = calls \cup {CallOf(p, s, 1, p, a)}
    /\ ret' = "none"
    /\ UNCHANGED <<alive, pidOf, pidTable, handles, owns, held, issued, overrun>>

\* The library loads or it does not; in both cases the entry is taken.  With no
\* entry left std::find_if returns the end of hServices, and the open goes
\* through the first words of handles.
LFSAsyncOpen(p) ==
    /\ p \in alive
    /\ Cardinality(calls) < MaxCalls
    /\ \/ SlotsOf(p) = {} /\ Return("LFS_ERR_NOT_STARTED")
       \/ /\ \E a \in Apps, s \in Services :
              /\ IsFirst(a, SlotsOf(p))
              /\ IsFirst(s, FreeServices(a))
              /\ reqId' = [reqId EXCEPT ![a][s] = 1]
              /\ \/ /\ ret' = "LFS_ERR_INVALID_SERVPROV"
                    /\ UNCHANGED <<spLib, calls, opens>>
                 \/ /\ ret' = "none"
                    /\ spLib' = [spLib EXCEPT ![a][s] = p]
                    /\ opens' = Noted(opens, p, [opens[p] EXCEPT ![s] = Again(@)])
                    /\ calls' = calls \cup {CallOf(p, s, 1, p, a)}
          /\ UNCHANGED <<alive, pidOf, pidTable, handles, owns, held, issued, overrun>>
       \/ /\ \E a \in Apps, loaded \in BOOLEAN, new \in [Handles -> BOOLEAN] :
              /\ IsFirst(a, SlotsOf(p))
              /\ FreeServices(a) = {}
              /\ OverwrittenHandles(handles[a], new, loaded)
              /\ handles' = [handles EXCEPT ![a] = new]
              /\ overrun' = overrun \cup {<<a, "handles">>}
              /\ ret' = IF loaded THEN "none" ELSE "LFS_ERR_INVALID_SERVPROV"
              /\ calls' = IF loaded THEN calls \cup {CallOf(p, NServices + 1, 1, p, a)} ELSE calls
          /\ UNCHANGED <<alive, pidOf, pidTable, reqId, spLib, owns, held, opens, issued>>

-----------------------------------------------------------------------------
(* Requests.  s is usService; idp says whether ulRequest_ID is not null.   *)

\* The id is drawn before the library pointer is looked at, so a request on a
\* service that is not open uses an id up as well, and with it an entry that an
\* open could have taken.  A usService past hServices draws from the handles or
\* from an entry further on.
GET_LIB_AND_REQUEST(p, s, idp) ==
    /\ p \in alive
    /\ Cardinality(calls) < MaxCalls
    /\ \/ s = 0 /\ Return("LFS_ERR_INVALID_HSERVICE")
       \/ s # 0 /\ ~idp /\ Return("LFS_ERR_INVALID_POINTER")
       \/ s # 0 /\ idp /\ SlotsOf(p) = {} /\ Return("LFS_ERR_NOT_STARTED")
       \/ /\ s # 0
          /\ idp
          /\ \E a, b \in Apps, t \in Services :
              /\ IsFirst(a, SlotsOf(p))
              /\ ServiceAt(a, s, b, t)
              /\ reqId[b][t] <= MaxReqId
              /\ reqId' = [reqId EXCEPT ![b][t] = @ + 1]
              /\ overrun' = Hit(a, b, "reqId")
              /\ \/ /\ spLib[b][t] = NoLib
                    /\ ret' = "LFS_ERR_INVALID_HSERVICE"
                    /\ UNCHANGED <<calls, issued>>
                 \/ /\ spLib[b][t] # NoLib
                    /\ ret' = "none"
                    /\ issued' = IF b = a
                                   THEN Noted(issued, p, [issued[p] EXCEPT ![t] = @ \cup {reqId[b][t]}])
                                   ELSE issued
                    /\ calls' = calls \cup {CallOf(p, s, reqId[b][t], spLib[b][t], a)}
          /\ UNCHANGED <<alive, pidOf, pidTable, spLib, handles, owns, held, opens>>
       \/ /\ s # 0
          /\ idp
          /\ \E a, b \in Apps, i \in 0..(HandleCells - 1), id \in 0..MaxReqId :
              /\ IsFirst(a, SlotsOf(p))
              /\ HandlesAt(a, s, b, i)
              /\ LET h == SPDataBytes * i + 1
                 IN  /\ id = 0 <=> \A k \in Word(h) : ~handles[b][k]
                     /\ \E new \in Incremented(handles[b], h) :
                            handles' = [handles EXCEPT ![b] = new]
                     /\ IF \A k \in Word(h + WordCells) : ~handles[b][k]
                          THEN ret' = "LFS_ERR_INVALID_HSERVICE" /\ UNCHANGED calls
                          ELSE ret' = "none" /\ calls' = calls \cup {CallOf(p, s, id, Wild, a)}
              /\ overrun' = overrun \cup {<<b, "handles">>}
          /\ UNCHANGED <<alive, pidOf, pidTable, reqId, spLib, owns, held, opens, issued>>

LFSAsyncClose(p, s, idp) == GET_LIB_AND_REQUEST(p, s, idp)
LFSAsyncExecute(p, s, idp) == GET_LIB_AND_REQUEST(p, s, idp)
LFSAsyncGetInfo(p, s, idp) == GET_LIB_AND_REQUEST(p, s, idp)
LFSAsyncLock(p, s, idp) == GET_LIB_AND_REQUEST(p, s, idp)
LFSAsyncUnlock(p, s, idp) == GET_LIB_AND_REQUEST(p, s, idp)

\* name says whether the object name to (de)register is given.
LFSAsyncRegister(p, s, idp, name) ==
    \/ p \in alive /\ ~name /\ Return("LFS_ERR_INVALID_MSG_REG_OBJECT")
    \/ name /\ GET_LIB_AND_REQUEST(p, s, idp)

LFSAsyncDeregister(p, s, idp, name) ==
    \/ p \in alive /\ ~name /\ Return("LFS_ERR_INVALID_MSG_OBJECT")
    \/ name /\ GET_LIB_AND_REQUEST(p, s, idp)

\* Draws no id: the request to cancel is named by the caller.
LFSCancelAsyncRequest(p, s, id) ==
    /\ p \in alive
    /\ Cardinality(calls) < MaxCalls
    /\ \/ s = 0 /\ Return("LFS_ERR_INVALID_HSERVICE")
       \/ s # 0 /\ SlotsOf(p) = {} /\ Return("LFS_ERR_NOT_STARTED")
       \/ /\ s # 0
          /\ \E a, b \in Apps, t \in Services :
              /\ IsFirst(a, SlotsOf(p))
              /\ ServiceAt(a, s, b, t)
              /\ IF spLib[b][t] = NoLib
                   THEN ret' = "LFS_ERR_INVALID_HSERVICE" /\ UNCHANGED calls
                   ELSE ret' = "none" /\ calls' = calls \cup {CallOf(p, s, id, spLib[b][t], a)}
          /\ UNCHANGED <<alive, pidOf, tables, clients>>
       \/ /\ s # 0
          /\ \E a, b \in Apps, i \in 0..(HandleCells - 1) :
              /\ IsFirst(a, SlotsOf(p))
              /\ HandlesAt(a, s, b, i)
              /\ IF \A k \in Word(SPDataBytes * i + 1 + WordCells) : ~handles[b][k]
                   THEN ret' = "LFS_ERR_INVALID_HSERVICE" /\ UNCHANGED calls
                   ELSE ret' = "none" /\ calls' = calls \cup {CallOf(p, s, id, Wild, a)}
          /\ UNCHANGED <<alive, pidOf, tables, clients>>

\* lib->call: the provider's function runs and its HRESULT is returned, or
\* dlsym does not find it and LFS::Exception leaves the API.  Through a pointer
\* that means nothing in the calling process, the process may die instead.
CallProvider(c) ==
    /\ c \in calls
    /\ ret' = "none"
    /\ \/ calls' = calls \ {c} /\ UNCHANGED <<alive, owns, held, opens, issued>>
       \/ /\ c.lib # c.proc
          /\ calls' = {d \in calls : d.proc # c.proc}
          /\ alive' = alive \ {c.proc}
          /\ Forget(c.proc)
    /\ UNCHANGED <<pidOf, tables, overrun>>

-----------------------------------------------------------------------------
(* The synchronous functions.                                              *)

\* SynchMsgWnd::start waits for a semaphore that is released only behind the
\* endless loop of the reader thread it has created.  The calling thread is lost
\* and its request is never issued, unless a signal ends the wait (module
\* SynchCalls): the request then is a step of the asynchronous function.
StartsWindow(p) ==
    /\ p \in alive
    /\ Return(IF SlotsOf(p) = {} THEN "LFS_ERR_NOT_STARTED" ELSE "none")

LFSClose(p) == StartsWindow(p)
LFSDeregister(p) == StartsWindow(p)
LFSExecute(p) == StartsWindow(p)
LFSGetInfo(p) == StartsWindow(p)
LFSRegister(p) == StartsWindow(p)
LFSUnlock(p) == StartsWindow(p)

\* ptr says whether lppResult is not null.
LFSLock(p, ptr) ==
    \/ p \in alive /\ ~ptr /\ Return("LFS_ERR_INVALID_POINTER")
    \/ ptr /\ StartsWindow(p)

\* happ says whether lpvdApp_Handle is not null, ptrs whether no pointer is.
LFSOpen(p, happ, ptrs) ==
    \/ p \in alive /\ ~happ /\ Return("LFS_ERR_INVALID_APP_HANDLE")
    \/ p \in alive /\ happ /\ ~ptrs /\ Return("LFS_ERR_INVALID_POINTER")
    \/ happ /\ ptrs /\ StartsWindow(p)

-----------------------------------------------------------------------------

Step ==
    \/ \E p \in Procs : Spawn(p) \/ Die(p)
    \/ \E p \in Procs : LFSStartUp(p) \/ LFSCleanUp(p)
    \/ \E p \in Procs : \/ LFSCancelBlockingCall(p)
                       \/ LFSSetBlockingHook(p)
                       \/ LFSUnhookBlockingHook(p)
                       \/ LFSIsBlocking(p)
    \/ \E p \in Procs, prev \in -1..NHandles : LFSCreateAppHandle(p, prev)
    \/ \E p \in Procs, h \in (-MaxHandle)..MaxHandle : LFSDestroyAppHandle(p, h)
    \/ \E p \in Procs : LFSAsyncOpen(p)
    \/ \E p \in Procs, s \in 0..MaxService, idp \in BOOLEAN :
        \/ LFSAsyncClose(p, s, idp)
        \/ LFSAsyncExecute(p, s, idp)
        \/ LFSAsyncGetInfo(p, s, idp)
        \/ LFSAsyncLock(p, s, idp)
        \/ LFSAsyncUnlock(p, s, idp)
        \/ \E name \in BOOLEAN : \/ LFSAsyncRegister(p, s, idp, name)
                                 \/ LFSAsyncDeregister(p, s, idp, name)
    \/ \E p \in Procs, s \in 0..MaxService, id \in 1..MaxReqId : LFSCancelAsyncRequest(p, s, id)
    \/ \E c \in calls : CallProvider(c)
    \/ \E p \in Procs : \/ LFSClose(p) \/ LFSDeregister(p) \/ LFSExecute(p)
                       \/ LFSGetInfo(p) \/ LFSRegister(p) \/ LFSUnlock(p)
    \/ \E p \in Procs, ptr \in BOOLEAN : LFSLock(p, ptr)
    \/ \E p \in Procs, happ \in BOOLEAN, ptrs \in BOOLEAN : LFSOpen(p, happ, ptrs)

Next == Step /\ Cardinality(overrun') <= MaxMarks

Spec == Init /\ [][Next]_vars

-----------------------------------------------------------------------------
(* Properties.                                                             *)

Errors == {"LFS_ERR_ALREADY_STARTED", "LFS_ERR_INTERNAL_ERROR", "LFS_ERR_INVALID_APP_HANDLE",
           "LFS_ERR_INVALID_HSERVICE", "LFS_ERR_INVALID_MSG_OBJECT",
           "LFS_ERR_INVALID_MSG_REG_OBJECT", "LFS_ERR_INVALID_POINTER",
           "LFS_ERR_INVALID_SERVPROV", "LFS_ERR_NOT_STARTED"}

\* The fields keep their types and a call under way has a pointer that is not null.
TypeOK ==
    /\ alive \subseteq Procs
    /\ pidOf \in [Procs -> Pids \cup {NoPid}]
    /\ pidTable \in [Apps -> Pids \cup {NoPid}]
    /\ reqId \in [Apps -> [Services -> Nat]]
    /\ spLib \in [Apps -> [Services -> Procs \cup {NoLib, Wild}]]
    /\ handles \in [Apps -> [Handles -> BOOLEAN]]
    /\ calls \subseteq [proc : alive, svc : 1..MaxService, id : Nat, lib : Procs \cup {Wild},
                        own : BOOLEAN]
    /\ ret \in Errors \cup {"none", "LFS_SUCCESS"}
    /\ owns \subseteq alive
    /\ held \in [Procs -> SUBSET Handles]
    /\ opens \in [Procs -> [Services -> Nat]]
    /\ issued \in [Procs -> [Services -> SUBSET Nat]]
    /\ overrun \subseteq Apps \X Fields

\* No process is registered twice, whatever pids the kernel hands out again:
\* the std::find over pidTable in every function has at most one match.
PidsUnique ==
    \A a, b \in Apps : pidTable[a] = pidTable[b] /\ pidTable[a] # NoPid => a = b

\* A session a process began with its own LFSStartUp stays registered until its
\* own LFSCleanUp, and every service opened in it stays bound to its own
\* library, whatever other processes start, clean up, open or die: only a call
\* with a number outside its table that writes these very fields can change it.
SessionIntact ==
    \A p \in owns :
        /\ \E a \in Apps : pidTable[a] = pidOf[p]
        /\ \A a \in Apps, s \in Services :
              pidTable[a] = pidOf[p] /\ opens[p][s] > 0 =>
                  /\ <<a, "spLib">> \notin overrun => spLib[a][s] = p
                  /\ <<a, "reqId">> \notin overrun => reqId[a][s] > 0

\* A call made in a session of the process's own, on a service of its table that
\* nothing has written to from outside, goes through a Library of that process:
\* the pointers a previous user left in the shared table are not used.  (A
\* process that inherits the pid of a dead one and never calls LFSStartUp
\* successfully has no such guarantee, and none is given for a usService past
\* hServices, which may read the pointer of another process.)
CallsUseOwnLibrary == \A c \in calls : c.own /\ c.svc \in Services => c.lib = c.proc

\* LFSAsyncOpen gives out each entry of hServices at most once in a session: the
\* handle of an open (or closed) service is never given to a later open, unless
\* an LFSDestroyAppHandle outside its table has zeroed a counter.
ServiceIssuedOnce ==
    \A p \in owns, a \in Apps, s \in Services :
        pidTable[a] = pidOf[p] /\ <<a, "reqId">> \notin overrun => opens[p][s] <= 1

\* The id the next request on a service will draw has not been drawn by an
\* earlier request of the session, also not by one under way in another thread,
\* unless an LFSDestroyAppHandle outside its table has set a counter back.
NextIdIsFresh ==
    \A p \in owns, a \in Apps, s \in Services :
        pidTable[a] = pidOf[p] /\ <<a, "reqId">> \notin overrun =>
            reqId[a][s] \notin issued[p][s]

\* Nothing outside has written to hServices of entry a.
Undisturbed(a) == <<a, "reqId">> \notin overrun /\ <<a, "spLib">> \notin overrun

\* The requests of a session on a service it has opened carry the ids from 1 on
\* without a gap, as long as nothing outside has written to its hServices.  The
\* open itself has returned 1 and not counted it, so the first request is given
\* the id of the open again.
RequestIdsFromOne ==
    \A p \in owns, a \in Apps, s \in Services :
        pidTable[a] = pidOf[p] /\ opens[p][s] > 0 /\ Undisturbed(a) =>
            issued[p][s] = 1..(reqId[a][s] - 1)

\* The allocated handles of a session are exactly those its process was given
\* and has not destroyed, until an open, a request or a destroy that has left its
\* own table writes to them: none is left over from an earlier session and none
\* is lost.
HandlesMatchClients ==
    \A p \in owns, a \in Apps :
        pidTable[a] = pidOf[p] /\ <<a, "handles">> \notin overrun =>
            \A h \in Handles : handles[a][h] <=> h \in held[p]

\* An entry whose process is gone stays taken: no function gives it back, until
\* the kernel hands its pid out again.  When there are as many as pidTable has
\* entries, every LFSStartUp fails.
EntriesOfDeadStay ==
    [][\A a \in Apps :
         pidTable[a] # NoPid /\ (\A p \in alive : pidOf[p] # pidTable[a]) =>
             pidTable'[a] = pidTable[a]]_vars

\* A call that fails leaves the tables as they were, but for the request
\* counters of entries without a library (and, once a counter has been zeroed
\* from outside, of any entry an open then takes), and the handles that an open
\* or a request past the end of hServices has hit.
ErrorsOnlyBurnEntries ==
    [][ret' \in Errors =>
         /\ UNCHANGED <<alive, pidTable, spLib, calls, opens, issued>>
         /\ \A a \in Apps, s \in Services :
              reqId'[a][s] # reqId[a][s] =>
                  spLib[a][s] = NoLib \/ <<a, "reqId">> \in overrun
         /\ \A a \in Apps : handles'[a] # handles[a] => <<a, "handles">> \in overrun']_vars
=============================================================================
