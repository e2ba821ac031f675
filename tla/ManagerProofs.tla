--------------------------- MODULE ManagerProofs ---------------------------
(***************************************************************************)
(* Proofs about module Manager for any number of processes, pids, apps,    *)
(* services and handles.  The state predicates of Manager become inductive *)
(* together with three facts about the processes: running processes have   *)
(* different pids (RunningPidsDiffer), a session never holds another       *)
(* process's library (OwnLibrariesOnly), and request ids grow (IdsBelow).  *)
(* On top of that, IdInv relates the counters to the open services: that   *)
(* is what the ids of the requests and the effects of errors rest on.      *)
(* All of it speaks of fields that no number outside its table has written *)
(* (overrun); such numbers themselves are within the proofs.               *)
(***************************************************************************)
EXTENDS Manager, TLAPS

RunningPidsDiffer ==
    /\ \A p \in alive : pidOf[p] # NoPid
    /\ \A p, q \in alive : pidOf[p] = pidOf[q] => p = q

\* What LFSStartUp's clearMem is for.
OwnLibrariesOnly ==
    \A p \in owns, a \in Apps, s \in Services :
        pidTable[a] = pidOf[p] /\ <<a, "spLib">> \notin overrun => spLib[a][s] \in {p, NoLib}

IdsBelow ==
    \A p \in owns, a \in Apps, s \in Services :
        pidTable[a] = pidOf[p] /\ <<a, "reqId">> \notin overrun =>
            \A id \in issued[p][s] : id < reqId[a][s]

\* A process outside a session of its own has no client records.
NoRecords ==
    \A p \in Procs : p \notin owns =>
        held[p] = {} /\ opens[p] = NoOpens /\ issued[p] = NoIds

IInv ==
    /\ TypeOK
    /\ RunningPidsDiffer
    /\ PidsUnique
    /\ OwnLibrariesOnly
    /\ CallsUseOwnLibrary
    /\ SessionIntact
    /\ IdsBelow
    /\ NoRecords
    /\ ServiceIssuedOnce
    /\ HandlesMatchClients

\* Initially shared memory is zero and no process runs.
LEMMA InitIInv == Init => IInv
<1>. SUFFICES ASSUME Init PROVE IInv
  OBVIOUS
<1>. USE DEF Init, NoOpens, NoIds
<1>1. TypeOK
  BY DEF TypeOK
<1>2. RunningPidsDiffer /\ OwnLibrariesOnly /\ CallsUseOwnLibrary /\ SessionIntact
      /\ IdsBelow /\ NoRecords /\ HandlesMatchClients
  BY DEF RunningPidsDiffer, OwnLibrariesOnly, CallsUseOwnLibrary, SessionIntact,
         IdsBelow, NoRecords, HandlesMatchClients
<1>3. PidsUnique
  BY DEF PidsUnique
<1>4. ServiceIssuedOnce
  BY DEF ServiceIssuedOnce
<1>. QED
  BY <1>1, <1>2, <1>3, <1>4 DEF IInv

\* A step that changes neither the tables nor the client records nor the set of
\* processes preserves the invariant.
LEMMA QuietIInv ==
    ASSUME IInv, ret' \in Errors \cup {"none", "LFS_SUCCESS"},
           UNCHANGED <<alive, pidOf, tables, calls, clients>>
    PROVE  IInv'
<1>. USE DEF tables, clients
<1>1. TypeOK' /\ RunningPidsDiffer' /\ PidsUnique' /\ OwnLibrariesOnly' /\ CallsUseOwnLibrary'
  BY DEF IInv, TypeOK, RunningPidsDiffer, PidsUnique, OwnLibrariesOnly, CallsUseOwnLibrary
<1>2. SessionIntact' /\ IdsBelow' /\ NoRecords' /\ ServiceIssuedOnce' /\ HandlesMatchClients'
  BY DEF IInv, SessionIntact, IdsBelow, NoRecords, ServiceIssuedOnce, HandlesMatchClients
<1>. QED
  BY <1>1, <1>2 DEF IInv

\* The early returns.
LEMMA ReturnIInv ==
    ASSUME IInv, NEW code \in Errors \cup {"none", "LFS_SUCCESS"}, Return(code)
    PROVE  IInv'
  BY QuietIInv DEF Return

\* A new process has a pid no running process has.
LEMMA SpawnIInv == ASSUME IInv, NEW p \in Procs, Spawn(p) PROVE IInv'
<1>. USE DEF Spawn, tables, clients
<1>1. p \notin alive /\ p \notin owns
  BY DEF IInv, RunningPidsDiffer, TypeOK
<1>2. PICK pid \in Pids : (\A q \in alive : pidOf[q] # pid) /\ pidOf' = [pidOf EXCEPT ![p] = pid]
  OBVIOUS
<1>3. pidOf'[p] = pid /\ \A q \in Procs : q # p => pidOf'[q] = pidOf[q]
  BY <1>2 DEF IInv, TypeOK
<1>4. TypeOK'
  BY <1>2 DEF IInv, TypeOK
<1>5. RunningPidsDiffer'
  BY <1>2, <1>3, PidsAssumption DEF IInv, TypeOK, RunningPidsDiffer
<1>6. PidsUnique' /\ CallsUseOwnLibrary' /\ NoRecords'
  BY DEF IInv, PidsUnique, CallsUseOwnLibrary, NoRecords
<1>7. \A q \in owns : pidOf'[q] = pidOf[q]
  BY <1>1, <1>3 DEF IInv, TypeOK
<1>8. OwnLibrariesOnly' /\ IdsBelow' /\ ServiceIssuedOnce' /\ HandlesMatchClients'
  BY <1>7 DEF IInv, OwnLibrariesOnly, IdsBelow, ServiceIssuedOnce, HandlesMatchClients
<1>9. SessionIntact'
  BY <1>7 DEF IInv, SessionIntact
<1>. QED
  BY <1>4, <1>5, <1>6, <1>8, <1>9 DEF IInv

\* The end of a process, also of one that followed a dangling library pointer.
LEMMA DeathIInv ==
    ASSUME IInv, NEW p \in Procs, alive' = alive \ {p}, Forget(p),
           calls' = {c \in calls : c.proc # p}, ret' = "none",
           UNCHANGED <<pidOf, tables, overrun>>
    PROVE  IInv'
<1>. USE DEF Forget, tables
<1>1. TypeOK'
  BY DEF IInv, TypeOK, NoOpens, NoIds
<1>2. RunningPidsDiffer' /\ PidsUnique' /\ OwnLibrariesOnly' /\ CallsUseOwnLibrary'
  BY DEF IInv, RunningPidsDiffer, PidsUnique, OwnLibrariesOnly, CallsUseOwnLibrary
<1>3. \A q \in Procs : q # p => held'[q] = held[q] /\ opens'[q] = opens[q] /\ issued'[q] = issued[q]
  BY DEF IInv, TypeOK
<1>4. held'[p] = {} /\ opens'[p] = NoOpens /\ issued'[p] = NoIds
  BY DEF IInv, TypeOK
<1>5. NoRecords'
  BY <1>3, <1>4 DEF IInv, NoRecords
<1>6. SessionIntact' /\ IdsBelow' /\ HandlesMatchClients'
  BY <1>3 DEF IInv, TypeOK, SessionIntact, IdsBelow, HandlesMatchClients
<1>7. ServiceIssuedOnce'
  BY <1>3 DEF IInv, TypeOK, ServiceIssuedOnce
<1>. QED
  BY <1>1, <1>2, <1>5, <1>6, <1>7 DEF IInv

\* The entry of a running process belongs to no other running process.
LEMMA OthersApart ==
    ASSUME IInv, NEW p \in alive, NEW a \in Apps, pidTable[a] = pidOf[p],
           NEW q \in owns, q # p
    PROVE  pidTable[a] # pidOf[q]
  BY DEF IInv, TypeOK, RunningPidsDiffer

\* LFSStartUp takes a free entry, which is no one's, and clears it.
LEMMA StartUpIInv == ASSUME IInv, NEW p \in Procs, LFSStartUp(p) PROVE IInv'
<1>1. CASE Return("LFS_ERR_ALREADY_STARTED") \/ Return("LFS_ERR_INTERNAL_ERROR")
  BY <1>1, ReturnIInv DEF Errors
<1>2. ASSUME NEW a \in Apps, IsFirst(a, FreeSlots), p \in alive, SlotsOf(p) = {},
             pidTable' = [pidTable EXCEPT ![a] = pidOf[p]],
             reqId' = [reqId EXCEPT ![a] = [s \in Services |-> 0]],
             spLib' = [spLib EXCEPT ![a] = [s \in Services |-> NoLib]],
             handles' = [handles EXCEPT ![a] = [h \in Handles |-> FALSE]],
             overrun' = overrun \ ({a} \X Fields), ret' = "LFS_SUCCESS", owns' = owns \cup {p},
             UNCHANGED <<alive, pidOf, calls, held, opens, issued>>
      PROVE  IInv'
  <2>. USE <1>2
  <2>1. /\ pidTable[a] = NoPid /\ pidTable'[a] = pidOf[p]
        /\ \A s \in Services : reqId'[a][s] = 0 /\ spLib'[a][s] = NoLib
        /\ \A h \in Handles : ~handles'[a][h]
    BY DEF IInv, TypeOK, IsFirst, FreeSlots
  <2>2. \A b \in Apps : b # a => /\ pidTable'[b] = pidTable[b] /\ reqId'[b] = reqId[b]
                                 /\ spLib'[b] = spLib[b] /\ handles'[b] = handles[b]
    BY DEF IInv, TypeOK
  <2>3. p \notin owns /\ \A b \in Apps : pidTable[b] # pidOf[p]
    BY DEF IInv, SessionIntact, SlotsOf
  <2>4. \A q \in owns : q # p /\ pidOf[q] # pidOf[p] /\ pidOf[q] # NoPid
    BY <2>3 DEF IInv, TypeOK, RunningPidsDiffer
  <2>5. held[p] = {} /\ opens[p] = NoOpens /\ issued[p] = NoIds
    BY <2>3 DEF IInv, NoRecords
  <2>6. TypeOK'
    BY DEF IInv, TypeOK
  <2>0. \A b \in Apps, f \in Fields : b # a => (<<b, f>> \in overrun' <=> <<b, f>> \in overrun)
    OBVIOUS
  <2>7. RunningPidsDiffer' /\ CallsUseOwnLibrary' /\ NoRecords'
    BY DEF IInv, RunningPidsDiffer, CallsUseOwnLibrary, NoRecords
  <2>13. ServiceIssuedOnce'
    <3>1. \A t \in Services : opens[p][t] <= 1
      BY <2>5 DEF NoOpens
    <3>. QED
      BY <2>0, <2>1, <2>2, <2>3, <2>4, <3>1 DEF IInv, ServiceIssuedOnce, Fields
  <2>8. PidsUnique'
    BY <2>1, <2>2, <2>3 DEF IInv, PidsUnique
  <2>9. OwnLibrariesOnly'
    BY <2>0, <2>1, <2>2, <2>3, <2>4 DEF IInv, OwnLibrariesOnly, Fields
  <2>10. SessionIntact'
    <3>1. \A q \in owns' : \E b \in Apps : pidTable'[b] = pidOf[q]
      BY <2>1, <2>2, <2>4 DEF IInv, SessionIntact
    <3>2. ASSUME NEW q \in owns', NEW b \in Apps, NEW s \in Services, pidTable'[b] = pidOf[q],
                 opens[q][s] > 0
          PROVE  /\ <<b, "spLib">> \notin overrun' => spLib'[b][s] = q
                 /\ <<b, "reqId">> \notin overrun' => reqId'[b][s] > 0
      <4>1. q \in owns /\ b # a
        BY <2>1, <2>4, <2>5, <3>2 DEF NoOpens
      <4>. QED
        BY <2>0, <2>2, <3>2, <4>1 DEF IInv, SessionIntact, Fields
    <3>. QED
      BY <3>1, <3>2 DEF SessionIntact
  <2>11. IdsBelow'
    BY <2>0, <2>1, <2>2, <2>3, <2>4, <2>5 DEF IInv, IdsBelow, NoIds, Fields
  <2>12. HandlesMatchClients'
    BY <2>0, <2>1, <2>2, <2>3, <2>4, <2>5 DEF IInv, HandlesMatchClients, Fields
  <2>. QED
    BY <2>6, <2>7, <2>8, <2>9, <2>10, <2>11, <2>12, <2>13 DEF IInv
<1>. QED
  BY <1>1, <1>2 DEF LFSStartUp

\* LFSCleanUp frees the entry of the caller only.
LEMMA CleanUpIInv == ASSUME IInv, NEW p \in Procs, LFSCleanUp(p) PROVE IInv'
<1>1. CASE Return("LFS_ERR_NOT_STARTED")
  BY <1>1, ReturnIInv DEF Errors
<1>2. ASSUME NEW a \in Apps, p \in alive, IsFirst(a, SlotsOf(p)),
             pidTable' = [pidTable EXCEPT ![a] = NoPid], ret' = "LFS_SUCCESS", Forget(p),
             UNCHANGED <<alive, pidOf, reqId, spLib, handles, calls, overrun>>
      PROVE  IInv'
  <2>. USE <1>2
  <2>1. pidTable[a] = pidOf[p] /\ pidTable'[a] = NoPid
        /\ \A b \in Apps : b # a => pidTable'[b] = pidTable[b]
    BY DEF IInv, TypeOK, IsFirst, SlotsOf
  <2>2. \A q \in owns' : /\ q \in owns /\ q # p /\ pidOf[q] # NoPid /\ pidTable[a] # pidOf[q]
                         /\ held'[q] = held[q] /\ opens'[q] = opens[q] /\ issued'[q] = issued[q]
    BY <2>1, OthersApart DEF Forget, IInv, TypeOK, RunningPidsDiffer
  <2>3. /\ held'[p] = {} /\ opens'[p] = NoOpens /\ issued'[p] = NoIds
        /\ \A q \in Procs : q # p => held'[q] = held[q] /\ opens'[q] = opens[q] /\ issued'[q] = issued[q]
    BY DEF Forget, IInv, TypeOK
  <2>4. TypeOK'
    BY DEF Forget, IInv, TypeOK, NoOpens, NoIds
  <2>5. RunningPidsDiffer' /\ CallsUseOwnLibrary'
    BY DEF IInv, RunningPidsDiffer, CallsUseOwnLibrary
  <2>6. PidsUnique'
    BY <2>1 DEF IInv, PidsUnique
  <2>7. OwnLibrariesOnly' /\ IdsBelow' /\ HandlesMatchClients'
    BY <2>1, <2>2 DEF IInv, OwnLibrariesOnly, IdsBelow, HandlesMatchClients
  <2>8. SessionIntact'
    BY <2>1, <2>2 DEF IInv, SessionIntact
  <2>9. NoRecords'
    BY <2>3 DEF IInv, NoRecords, Forget
  <2>10. ServiceIssuedOnce'
    BY <2>1, <2>2 DEF IInv, ServiceIssuedOnce
  <2>. QED
    BY <2>4, <2>5, <2>6, <2>7, <2>8, <2>9, <2>10 DEF IInv
<1>. QED
  BY <1>1, <1>2 DEF LFSCleanUp

\* A call of p that only changes the handles of its entry and what p knows of
\* them keeps everything but, possibly, HandlesMatchClients and the types.
LEMMA HandleStepIInv ==
    ASSUME IInv, NEW p \in alive, NEW a \in Apps, pidTable[a] = pidOf[p],
           NEW new \in [Handles -> BOOLEAN], NEW known \in SUBSET Handles,
           handles' = [handles EXCEPT ![a] = new], held' = Noted(held, p, known),
           p \in owns /\ <<a, "handles">> \notin overrun => \A h \in Handles : new[h] <=> h \in known,
           ret' \in Errors \cup {"none", "LFS_SUCCESS"},
           UNCHANGED <<alive, pidOf, pidTable, reqId, spLib, calls, owns, opens, issued, overrun>>
    PROVE  IInv'
<1>1. /\ handles'[a] = new
      /\ \A b \in Apps : b # a => handles'[b] = handles[b]
      /\ p \in owns => held'[p] = known
      /\ \A q \in Procs : q # p \/ p \notin owns => held'[q] = held[q]
  BY DEF IInv, TypeOK, Noted
<1>2. TypeOK'
  BY DEF IInv, TypeOK, Noted
<1>3. RunningPidsDiffer' /\ PidsUnique' /\ OwnLibrariesOnly' /\ CallsUseOwnLibrary'
  BY DEF IInv, RunningPidsDiffer, PidsUnique, OwnLibrariesOnly, CallsUseOwnLibrary
<1>4. SessionIntact' /\ IdsBelow' /\ ServiceIssuedOnce'
  BY DEF IInv, SessionIntact, IdsBelow, ServiceIssuedOnce
<1>5. NoRecords'
  BY <1>1 DEF IInv, NoRecords
<1>6. HandlesMatchClients'
  <2>. SUFFICES ASSUME NEW q \in owns, NEW b \in Apps, pidTable[b] = pidOf[q], <<b, "handles">> \notin overrun,
                       NEW h \in Handles
                PROVE  handles'[b][h] <=> h \in held'[q]
    BY DEF HandlesMatchClients
  <2>1. CASE b = a
    <3>1. q = p
      BY <2>1, OthersApart
    <3>. QED
      BY <1>1, <2>1, <3>1
  <2>2. CASE b # a
    <3>1. q # p
      BY <2>2 DEF IInv, TypeOK, RunningPidsDiffer, PidsUnique
    <3>2. held'[q] = held[q]
      BY <1>1, <3>1 DEF IInv, TypeOK
    <3>. QED
      BY <1>1, <2>2, <3>2 DEF IInv, HandlesMatchClients
  <2>. QED
    BY <2>1, <2>2
<1>. QED
  BY <1>2, <1>3, <1>4, <1>5, <1>6 DEF IInv

CallType == [proc : alive, svc : 1..MaxService, id : Nat, lib : Procs \cup {Wild}, own : BOOLEAN]

\* A step that leaves the clients' records and changes the tables only in fields
\* it marks.
LEMMA StrayIInv ==
    ASSUME IInv, ret' \in Errors \cup {"none", "LFS_SUCCESS"},
           calls' \subseteq CallType, CallsUseOwnLibrary',
           reqId' \in [Apps -> [Services -> Nat]],
           spLib' \in [Apps -> [Services -> Procs \cup {NoLib, Wild}]],
           handles' \in [Apps -> [Handles -> BOOLEAN]],
           overrun \subseteq overrun', overrun' \subseteq Apps \X Fields,
           \A b \in Apps : /\ <<b, "reqId">> \notin overrun' => reqId'[b] = reqId[b]
                           /\ <<b, "spLib">> \notin overrun' => spLib'[b] = spLib[b]
                           /\ <<b, "handles">> \notin overrun' => handles'[b] = handles[b],
           UNCHANGED <<alive, pidOf, pidTable, owns, held, opens, issued>>
    PROVE  IInv'
<1>1. TypeOK'
  BY DEF IInv, TypeOK, CallType
<1>2. RunningPidsDiffer' /\ PidsUnique' /\ NoRecords' /\ ServiceIssuedOnce'
  BY DEF IInv, RunningPidsDiffer, PidsUnique, NoRecords, ServiceIssuedOnce
<1>3. OwnLibrariesOnly' /\ IdsBelow' /\ HandlesMatchClients'
  BY DEF IInv, OwnLibrariesOnly, IdsBelow, HandlesMatchClients
<1>4. SessionIntact'
  <2>1. \A q \in owns : \E b \in Apps : pidTable[b] = pidOf[q]
    BY DEF IInv, SessionIntact
  <2>2. ASSUME NEW q \in owns, NEW b \in Apps, NEW t \in Services, pidTable[b] = pidOf[q],
               opens[q][t] > 0
        PROVE  /\ <<b, "spLib">> \notin overrun' => spLib'[b][t] = q
               /\ <<b, "reqId">> \notin overrun' => reqId'[b][t] > 0
    <3>1. /\ <<b, "spLib">> \notin overrun => spLib[b][t] = q
          /\ <<b, "reqId">> \notin overrun => reqId[b][t] > 0
      BY <2>2 DEF IInv, SessionIntact
    <3>2. /\ <<b, "spLib">> \notin overrun' => <<b, "spLib">> \notin overrun /\ spLib'[b] = spLib[b]
          /\ <<b, "reqId">> \notin overrun' => <<b, "reqId">> \notin overrun /\ reqId'[b] = reqId[b]
      OBVIOUS
    <3>. QED
      BY <3>1, <3>2
  <2>. QED
    BY <2>1, <2>2 DEF SessionIntact
<1>. QED
  BY <1>1, <1>2, <1>3, <1>4 DEF IInv

\* LFSCreateAppHandle records a free handle, or hands back what it was given.
LEMMA CreateAppHandleIInv ==
    ASSUME IInv, NEW p \in Procs, NEW prev \in -1..NHandles, LFSCreateAppHandle(p, prev)
    PROVE  IInv'
<1>1. CASE Return("LFS_ERR_INVALID_POINTER") \/ Return("LFS_ERR_NOT_STARTED")
  BY <1>1, ReturnIInv DEF Errors
<1>2. ASSUME NEW a \in Apps, NEW h \in Handles, p \in alive, IsFirst(a, SlotsOf(p)),
             handles' = [handles EXCEPT ![a][h] = TRUE],
             held' = Noted(held, p, held[p] \cup {h}), ret' = "LFS_SUCCESS",
             UNCHANGED <<alive, pidOf, pidTable, reqId, spLib, calls, owns, opens, issued, overrun>>
      PROVE  IInv'
  <2>. DEFINE new == [handles[a] EXCEPT ![h] = TRUE]
  <2>1. pidTable[a] = pidOf[p]
    BY <1>2 DEF IsFirst, SlotsOf
  <2>2. new \in [Handles -> BOOLEAN] /\ handles' = [handles EXCEPT ![a] = new]
    BY <1>2 DEF IInv, TypeOK
  <2>3. held[p] \cup {h} \in SUBSET Handles
    BY DEF IInv, TypeOK
  <2>4. p \in owns /\ <<a, "handles">> \notin overrun => \A i \in Handles : new[i] <=> i \in held[p] \cup {h}
    BY <2>1 DEF IInv, TypeOK, HandlesMatchClients
  <2>. HIDE DEF new
  <2>. QED
    BY <1>2, <2>1, <2>2, <2>3, <2>4, HandleStepIInv
<1>3. ASSUME NEW a \in Apps, p \in alive, prev # -1, IsFirst(a, SlotsOf(p)),
             \A i \in Handles : handles[a][i],
             IF prev = 0
               THEN ret' = "LFS_ERR_INTERNAL_ERROR" /\ UNCHANGED held
               ELSE ret' = "LFS_SUCCESS" /\ held' = Noted(held, p, held[p] \cup {prev}),
             UNCHANGED <<alive, pidOf, tables, calls, owns, opens, issued, overrun>>
      PROVE  IInv'
  <2>1. CASE prev = 0
    BY <1>3, <2>1, ReturnIInv DEF Return, clients, Errors
  <2>2. CASE prev # 0
    <3>1. prev \in Handles
      BY <1>3, <2>2, SizesAssumption DEF Handles
    <3>2. pidTable[a] = pidOf[p] /\ handles[a] \in [Handles -> BOOLEAN]
          /\ handles' = [handles EXCEPT ![a] = handles[a]]
      BY <1>3 DEF IsFirst, SlotsOf, tables, IInv, TypeOK
    <3>3. held[p] \cup {prev} \in SUBSET Handles
      BY <3>1 DEF IInv, TypeOK
    <3>4. p \in owns /\ <<a, "handles">> \notin overrun => \A i \in Handles : handles[a][i] <=> i \in held[p] \cup {prev}
      BY <1>3, <3>2 DEF IInv, HandlesMatchClients
    <3>. QED
      BY <1>3, <2>2, <3>2, <3>3, <3>4, HandleStepIInv DEF tables
  <2>. QED
    BY <2>1, <2>2
<1>. QED
  BY <1>1, <1>2, <1>3 DEF LFSCreateAppHandle

\* A step on the table of the caller itself hits nothing from outside.
LEMMA HitType ==
    ASSUME IInv, NEW a \in Apps, NEW b \in Apps, NEW f \in Fields
    PROVE  /\ Hit(a, b, f) \subseteq Apps \X Fields
           /\ overrun \subseteq Hit(a, b, f)
           /\ b = a => Hit(a, b, f) = overrun
           /\ b # a => <<b, f>> \in Hit(a, b, f)
  BY DEF IInv, TypeOK, Hit

\* LFSDestroyAppHandle clears the handle in the caller's entry, or the byte it is
\* led to, and marks its field.
LEMMA DestroyAppHandleIInv ==
    ASSUME IInv, NEW p \in Procs, NEW h \in Int, LFSDestroyAppHandle(p, h)
    PROVE  IInv'
<1>0. calls \subseteq CallType /\ CallsUseOwnLibrary
  BY DEF IInv, TypeOK, CallType
<1>1. CASE Return("LFS_ERR_INVALID_APP_HANDLE") \/ Return("LFS_ERR_NOT_STARTED")
  BY <1>1, ReturnIInv DEF Errors
<1>2. ASSUME NEW a \in Apps, NEW b \in Apps, NEW i \in Handles, p \in alive,
             IsFirst(a, SlotsOf(p)),
             ret' = IF handles[b][i] \/ h = 1
                      THEN "LFS_SUCCESS" ELSE "LFS_ERR_INVALID_APP_HANDLE",
             handles' = [handles EXCEPT ![b][i] = FALSE], overrun' = Hit(a, b, "handles"),
             held' = IF b = a THEN [held EXCEPT ![p] = @ \ {i}] ELSE held,
             UNCHANGED <<alive, pidOf, pidTable, reqId, spLib, calls, owns, opens, issued>>
      PROVE  IInv'
  <2>. DEFINE new == [handles[b] EXCEPT ![i] = FALSE]
  <2>1. pidTable[a] = pidOf[p]
    BY <1>2 DEF IsFirst, SlotsOf
  <2>2. new \in [Handles -> BOOLEAN] /\ handles' = [handles EXCEPT ![b] = new]
    BY <1>2 DEF IInv, TypeOK
  <2>3. ret' \in Errors \cup {"none", "LFS_SUCCESS"}
    BY <1>2 DEF Errors
  <2>4. /\ overrun' \subseteq Apps \X Fields /\ overrun \subseteq overrun'
        /\ b = a => overrun' = overrun
        /\ b # a => <<b, "handles">> \in overrun'
    BY <1>2, HitType DEF Fields
  <2>5. CASE b = a
    <3>1. held[p] \ {i} \in SUBSET Handles /\ held' = Noted(held, p, held[p] \ {i})
      <4>1. held[p] \subseteq Handles /\ held \in [Procs -> SUBSET Handles]
        BY DEF IInv, TypeOK
      <4>2. p \notin owns => held[p] \ {i} = held[p]
        BY DEF IInv, NoRecords
      <4>. QED
        BY <1>2, <2>5, <4>1, <4>2 DEF Noted
    <3>2. p \in owns /\ <<a, "handles">> \notin overrun =>
             \A k \in Handles : new[k] <=> k \in held[p] \ {i}
      BY <2>1, <2>5 DEF IInv, TypeOK, HandlesMatchClients
    <3>3. /\ p \in alive /\ handles' = [handles EXCEPT ![a] = new]
          /\ UNCHANGED <<alive, pidOf, pidTable, reqId, spLib, calls, owns, opens, issued, overrun>>
      BY <1>2, <2>2, <2>4, <2>5
    <3>. HIDE DEF new
    <3>. QED
      BY <2>1, <2>2, <2>3, <3>1, <3>2, <3>3, HandleStepIInv
  <2>6. CASE b # a
    <3>1. handles' \in [Apps -> [Handles -> BOOLEAN]] /\ \A c \in Apps : c # b => handles'[c] = handles[c]
      BY <2>2 DEF IInv, TypeOK
    <3>2. UNCHANGED <<reqId, spLib, calls, held>>
      BY <1>2, <2>6
    <3>3. /\ reqId' \in [Apps -> [Services -> Nat]]
          /\ spLib' \in [Apps -> [Services -> Procs \cup {NoLib, Wild}]]
      BY <3>2 DEF IInv, TypeOK
    <3>4. calls' \subseteq CallType /\ CallsUseOwnLibrary'
      BY <1>0, <3>2 DEF CallsUseOwnLibrary
    <3>. QED
      BY <1>2, <2>3, <2>4, <2>6, <3>1, <3>2, <3>3, <3>4, StrayIInv
  <2>. QED
    BY <2>5, <2>6
<1>3. ASSUME NEW b \in Apps, NEW t \in Services,
             \/ /\ ret' = "LFS_ERR_INVALID_APP_HANDLE"
                /\ UNCHANGED <<reqId, spLib, overrun>>
             \/ /\ \E r \in 0..(reqId[b][t] - 1) : reqId' = [reqId EXCEPT ![b][t] = r]
                /\ overrun' = overrun \cup {<<b, "reqId">>}
                /\ ret' = "LFS_SUCCESS"
                /\ UNCHANGED spLib
             \/ /\ \E lib \in {NoLib, Wild} : spLib' = [spLib EXCEPT ![b][t] = lib]
                /\ overrun' = overrun \cup {<<b, "spLib">>}
                /\ ret' = "LFS_SUCCESS"
                /\ UNCHANGED reqId,
             UNCHANGED <<alive, pidOf, pidTable, handles, calls, owns, held, opens, issued>>
      PROVE  IInv'
  <2>1. /\ reqId \in [Apps -> [Services -> Nat]]
        /\ spLib \in [Apps -> [Services -> Procs \cup {NoLib, Wild}]]
        /\ handles' \in [Apps -> [Handles -> BOOLEAN]]
        /\ overrun \subseteq Apps \X Fields
    BY <1>3 DEF IInv, TypeOK
  <2>2. reqId' \in [Apps -> [Services -> Nat]] /\ \A c \in Apps : c # b => reqId'[c] = reqId[c]
    <3>1. reqId[b][t] \in Nat
      BY <2>1
    <3>2. reqId' = reqId \/ \E r \in Nat : reqId' = [reqId EXCEPT ![b] = [reqId[b] EXCEPT ![t] = r]]
      BY <1>3, <3>1
    <3>3. \A r \in Nat : [reqId[b] EXCEPT ![t] = r] \in [Services -> Nat]
      BY <2>1
    <3>. QED
      BY <2>1, <3>2, <3>3
  <2>3. /\ spLib' \in [Apps -> [Services -> Procs \cup {NoLib, Wild}]]
        /\ \A c \in Apps : c # b => spLib'[c] = spLib[c]
    <3>1. spLib' = spLib \/ \E lib \in {NoLib, Wild} : spLib' = [spLib EXCEPT ![b] = [spLib[b] EXCEPT ![t] = lib]]
      BY <1>3
    <3>2. \A lib \in {NoLib, Wild} : [spLib[b] EXCEPT ![t] = lib] \in [Services -> Procs \cup {NoLib, Wild}]
      BY <2>1
    <3>. QED
      BY <2>1, <3>1, <3>2
  <2>4. /\ reqId' # reqId => <<b, "reqId">> \in overrun'
        /\ spLib' # spLib => <<b, "spLib">> \in overrun'
        /\ overrun' \subseteq Apps \X Fields /\ overrun \subseteq overrun'
    BY <1>3, <2>1 DEF Fields
  <2>5. calls' \subseteq CallType /\ CallsUseOwnLibrary'
    BY <1>0, <1>3 DEF CallsUseOwnLibrary
  <2>6. \A c \in Apps :
           /\ <<c, "reqId">> \notin overrun' => reqId'[c] = reqId[c]
           /\ <<c, "spLib">> \notin overrun' => spLib'[c] = spLib[c]
           /\ <<c, "handles">> \notin overrun' => handles'[c] = handles[c]
    BY <1>3, <2>2, <2>3, <2>4
  <2>7. ret' \in Errors \cup {"none", "LFS_SUCCESS"}
    BY <1>3 DEF Errors
  <2>8. UNCHANGED <<alive, pidOf, pidTable, owns, held, opens, issued>>
    BY <1>3
  <2>10. /\ reqId' \in [Apps -> [Services -> Nat]]
         /\ spLib' \in [Apps -> [Services -> Procs \cup {NoLib, Wild}]]
         /\ handles' \in [Apps -> [Handles -> BOOLEAN]]
    BY <2>1, <2>2, <2>3
  <2>. QED
    BY <2>4, <2>5, <2>6, <2>7, <2>8, <2>10, StrayIInv
<1>. QED
  BY <1>1, <1>2, <1>3 DEF LFSDestroyAppHandle

\* The witness of SessionIntact is the one entry that holds the pid.
LEMMA OwnEntry ==
    ASSUME IInv, NEW p \in owns, NEW a \in Apps, pidTable[a] = pidOf[p], NEW s \in Services
    PROVE  opens[p][s] > 0 =>
              /\ <<a, "spLib">> \notin overrun => spLib[a][s] = p
              /\ <<a, "reqId">> \notin overrun => reqId[a][s] > 0
  BY DEF IInv, TypeOK, SessionIntact, PidsUnique, RunningPidsDiffer

\* A usService whose entry lies outside the caller's own table is no service of it.
LEMMA OutsideServices ==
    ASSUME NEW a \in Apps, NEW b \in Apps, NEW s \in Int
    PROVE  /\ \A t \in Services : ServiceAt(a, s, b, t) =>
                 IF b = a THEN s = t ELSE s \notin Services
           /\ \A i \in 0..(HandleCells - 1) : HandlesAt(a, s, b, i) => s \notin Services
<1>1. NServices \in Nat /\ HandleCells \in Int /\ a \in Int /\ b \in Int
  BY SizesAssumption DEF HandleCells, SPDataBytes, Apps
<1>2. b - a \in Int /\ (b = a <=> b - a = 0)
  BY <1>1
<1>3. ASSUME NEW d \in Int, NEW c \in Nat
      PROVE  /\ d >= 1 => d * c >= c
             /\ d <= -1 => d * c <= -c
             /\ d = 0 => d * c = 0
             /\ d * c \in Int
  <2>1. d * c \in Int /\ (d = 0 => d * c = 0)
    OBVIOUS
  <2>2. d >= 1 => (d - 1) * c >= 0 /\ d * c = (d - 1) * c + c
    OBVIOUS
  <2>3. d <= -1 => (d + 1) * c <= 0 /\ d * c = (d + 1) * c - c
    OBVIOUS
  <2>4. (d - 1) * c \in Int /\ (d + 1) * c \in Int
    OBVIOUS
  <2>. QED
    BY <2>1, <2>2, <2>3, <2>4
<1>4. ASSUME HandleCells >= 0, NEW x \in Int, x = (b - a) * AppCells
      PROVE  IF b = a THEN x = 0 ELSE x >= NServices + HandleCells \/ x <= -(NServices + HandleCells)
  <2>1. AppCells \in Nat /\ AppCells = NServices + HandleCells
    BY <1>1, <1>4 DEF AppCells
  <2>2. b - a >= 1 \/ b - a <= -1 \/ b - a = 0
    BY <1>2
  <2>. QED
    BY <1>2, <1>3, <1>4, <2>1, <2>2
<1>5. (b - a) * AppCells \in Int /\ HandleCells >= 0
  <2>1. HandleCells >= 0
    BY SizesAssumption DEF HandleCells, SPDataBytes
  <2>2. AppCells \in Int
    BY <1>1 DEF AppCells
  <2>. QED
    BY <1>2, <2>1, <2>2
<1>6. PICK x \in Int : x = (b - a) * AppCells
  BY <1>5
<1>7. IF b = a THEN x = 0 ELSE x >= NServices + HandleCells \/ x <= -(NServices + HandleCells)
  BY <1>4, <1>5, <1>6
<1>8. ASSUME NEW t \in Services, s = x + t PROVE IF b = a THEN s = t ELSE s \notin Services
  BY <1>1, <1>5, <1>7, <1>8 DEF Services
<1>9. ASSUME NEW i \in 0..(HandleCells - 1), s = x + NServices + 1 + i PROVE s \notin Services
  BY <1>1, <1>5, <1>7, <1>9 DEF Services
<1>. QED
  BY <1>6, <1>8, <1>9 DEF ServiceAt, HandlesAt

\* Adding a call of p to a library: its own when p is in its own session and has
\* named a service of its table.
LEMMA NewCall ==
    ASSUME IInv, NEW p \in alive, NEW a \in Apps, NEW s \in 1..MaxService, NEW id \in Nat,
           NEW lib \in Procs \cup {Wild},
           p \in owns /\ <<a, "spLib">> \notin overrun /\ s \in Services => lib = p,
           calls' = calls \cup {CallOf(p, s, id, lib, a)}, alive' = alive
    PROVE  calls' \subseteq CallType /\ calls' \subseteq CallType' /\ CallsUseOwnLibrary'
<1>. DEFINE c == CallOf(p, s, id, lib, a)
<1>1. c.proc = p /\ c.lib = lib /\ c.svc = s /\ c.own = (p \in owns /\ <<a, "spLib">> \notin overrun)
  BY Zenon DEF CallOf
<1>2. (p \in owns /\ <<a, "spLib">> \notin overrun) \in BOOLEAN
  OBVIOUS
<1>3. c \in CallType
  BY <1>2, Zenon DEF CallOf, CallType
<1>4. calls' = calls \cup {c}
  BY Zenon
<1>5. c.own /\ c.svc \in Services => c.lib = c.proc
  BY <1>1, Zenon
<1>. HIDE DEF c
<1>6. calls' \subseteq CallType
  BY <1>3, <1>4 DEF IInv, TypeOK, CallType
<1>7. CallsUseOwnLibrary'
  BY <1>4, <1>5, Zenon DEF IInv, CallsUseOwnLibrary
<1>. QED
  BY <1>6, <1>7 DEF CallType

\* An open that finds an unused entry s: reqId becomes 1, and the library is
\* entered when it loads.
LEMMA OpenEntryIInv ==
    ASSUME IInv, NEW p \in alive, NEW a \in Apps, NEW s \in Services,
           pidTable[a] = pidOf[p], reqId[a][s] = 0,
           reqId' = [reqId EXCEPT ![a][s] = 1],
           \/ /\ ret' = "LFS_ERR_INVALID_SERVPROV"
              /\ UNCHANGED <<spLib, calls, opens>>
           \/ /\ ret' = "none"
              /\ spLib' = [spLib EXCEPT ![a][s] = p]
              /\ opens' = Noted(opens, p, [opens[p] EXCEPT ![s] = Again(@)])
              /\ calls' = calls \cup {CallOf(p, s, 1, p, a)},
           UNCHANGED <<alive, pidOf, pidTable, handles, owns, held, issued, overrun>>
    PROVE  IInv'
<1>1. /\ reqId'[a][s] = 1
      /\ \A b \in Apps, t \in Services : b # a \/ t # s => reqId'[b][t] = reqId[b][t]
  BY DEF IInv, TypeOK
<1>2. /\ spLib'[a][s] \in {p, spLib[a][s]}
      /\ \A b \in Apps, t \in Services : b # a \/ t # s => spLib'[b][t] = spLib[b][t]
  BY DEF IInv, TypeOK
<1>3. \A q \in owns, b \in Apps : pidTable[b] = pidOf[q] => (q = p <=> b = a)
  BY DEF IInv, TypeOK, RunningPidsDiffer, PidsUnique
<1>4. /\ \A q \in Procs : q # p \/ p \notin owns => opens'[q] = opens[q]
      /\ \A t \in Services : t # s => opens'[p][t] = opens[p][t]
      /\ opens'[p][s] # opens[p][s] => opens'[p][s] = opens[p][s] + 1 /\ spLib'[a][s] = p
  BY DEF IInv, TypeOK, Noted, Again
<1>14. opens'[p][s] > 0 => opens[p][s] > 0 \/ spLib'[a][s] = p
  <2>1. opens[p][s] \in Nat
    BY DEF IInv, TypeOK
  <2>. QED
    BY <1>4, <2>1
<1>5. p \in owns /\ <<a, "reqId">> \notin overrun => opens[p][s] = 0 /\ issued[p][s] = {}
  <2>1. ASSUME p \in owns, <<a, "reqId">> \notin overrun PROVE opens[p][s] = 0
    <3>0. opens[p][s] > 0 => reqId[a][s] > 0
      BY <2>1, OwnEntry
    <3>1. ~(opens[p][s] > 0)
      BY <3>0
    <3>2. opens[p][s] \in Nat
      BY DEF IInv, TypeOK
    <3>. QED
      BY <3>1, <3>2
  <2>2. ASSUME p \in owns, <<a, "reqId">> \notin overrun PROVE issued[p][s] = {}
    <3>1. \A id \in issued[p][s] : id < 0
      BY <2>2 DEF IInv, IdsBelow
    <3>2. issued[p][s] \subseteq Nat
      BY DEF IInv, TypeOK
    <3>. QED
      BY <3>1, <3>2
  <2>. QED
    BY <2>1, <2>2
<1>6. calls' \subseteq CallType /\ CallsUseOwnLibrary'
  <2>1. CASE UNCHANGED calls
    BY <2>1 DEF IInv, TypeOK, CallsUseOwnLibrary, CallType
  <2>2. CASE calls' = calls \cup {CallOf(p, s, 1, p, a)}
    <3>1. s \in 1..MaxService /\ p \in Procs
      BY SizesAssumption DEF Services, IInv, TypeOK
    <3>. QED
      BY <2>2, <3>1, NewCall
  <2>. QED
    BY <2>1, <2>2
<1>7. TypeOK'
  <2>0. p \in Procs /\ reqId \in [Apps -> [Services -> Nat]]
        /\ spLib \in [Apps -> [Services -> Procs \cup {NoLib, Wild}]]
        /\ opens \in [Procs -> [Services -> Nat]]
    BY DEF IInv, TypeOK
  <2>1. reqId' \in [Apps -> [Services -> Nat]]
    BY <2>0
  <2>2. spLib' \in [Apps -> [Services -> Procs \cup {NoLib, Wild}]]
    <3>1. [spLib[a] EXCEPT ![s] = p] \in [Services -> Procs \cup {NoLib, Wild}]
      BY <2>0
    <3>2. spLib' \in {spLib, [spLib EXCEPT ![a] = [spLib[a] EXCEPT ![s] = p]]}
      OBVIOUS
    <3>. QED
      BY <2>0, <3>1, <3>2
  <2>4. [opens[p] EXCEPT ![s] = Again(@)] \in [Services -> Nat]
    BY <2>0 DEF Again
  <2>5. opens' \in [Procs -> [Services -> Nat]]
    BY <2>0, <2>4 DEF Noted
  <2>3. ret' \in Errors \cup {"none", "LFS_SUCCESS"}
    BY DEF Errors
  <2>. QED
    BY <1>6, <2>1, <2>2, <2>3, <2>5 DEF IInv, TypeOK, CallType
<1>8. RunningPidsDiffer' /\ PidsUnique' /\ HandlesMatchClients'
  BY DEF IInv, RunningPidsDiffer, PidsUnique, HandlesMatchClients
<1>9. OwnLibrariesOnly'
  BY <1>2, <1>3 DEF IInv, OwnLibrariesOnly
<1>10. SessionIntact'
  <2>. SUFFICES ASSUME NEW q \in owns, NEW b \in Apps, NEW t \in Services,
                       pidTable[b] = pidOf[q], opens'[q][t] > 0
                PROVE  /\ <<b, "spLib">> \notin overrun => spLib'[b][t] = q
                       /\ <<b, "reqId">> \notin overrun => reqId'[b][t] > 0
    BY DEF IInv, SessionIntact
  <2>1. opens[q][t] > 0 => /\ <<b, "spLib">> \notin overrun => spLib[b][t] = q
                           /\ <<b, "reqId">> \notin overrun => reqId[b][t] > 0
    BY DEF IInv, SessionIntact
  <2>2. CASE q = p /\ t = s
    <3>1. b = a
      BY <1>3, <2>2
    <3>2. spLib'[a][s] = p \/ spLib'[a][s] = spLib[a][s]
      BY <1>2
    <3>. QED
      BY <1>1, <1>14, <2>1, <2>2, <3>1, <3>2
  <2>3. CASE ~(q = p /\ t = s)
    <3>1. opens'[q][t] = opens[q][t] /\ (b # a \/ t # s)
      BY <1>3, <1>4, <2>3 DEF IInv, TypeOK
    <3>2. spLib'[b][t] = spLib[b][t] /\ reqId'[b][t] = reqId[b][t]
      BY <1>1, <1>2, <3>1
    <3>. QED
      BY <2>1, <3>1, <3>2
  <2>. QED
    BY <2>2, <2>3
<1>11. IdsBelow'
  BY <1>1, <1>3, <1>5 DEF IInv, IdsBelow
<1>12. NoRecords'
  BY <1>4 DEF IInv, NoRecords
<1>13. ServiceIssuedOnce'
  <2>. SUFFICES ASSUME NEW q \in owns, NEW b \in Apps, NEW t \in Services,
                       pidTable[b] = pidOf[q], <<b, "reqId">> \notin overrun
                PROVE  opens'[q][t] <= 1
    BY DEF ServiceIssuedOnce
  <2>1. opens[q][t] <= 1 /\ opens[p][s] \in Nat /\ q \in Procs
    BY DEF IInv, TypeOK, ServiceIssuedOnce
  <2>2. CASE q = p /\ t = s
    <3>1. b = a
      BY <1>3, <2>2
    <3>2. opens[p][s] = 0
      BY <1>5, <2>2, <3>1
    <3>. QED
      BY <1>4, <2>1, <2>2, <3>2
  <2>3. CASE ~(q = p /\ t = s)
    <3>1. opens'[q][t] = opens[q][t]
      BY <1>4, <2>1, <2>3
    <3>. QED
      BY <2>1, <3>1
  <2>. QED
    BY <2>2, <2>3
<1>. QED
  BY <1>6, <1>7, <1>8, <1>9, <1>10, <1>11, <1>12, <1>13 DEF IInv

\* A step that only adds calls, or changes nothing the tables' predicates see.
LEMMA CallStepIInv ==
    ASSUME IInv, ret' = "none", CallsUseOwnLibrary',
           calls' \subseteq CallType, UNCHANGED <<alive, pidOf, tables, clients>>
    PROVE  IInv'
<1>. USE DEF tables, clients
<1>1. TypeOK' /\ RunningPidsDiffer' /\ PidsUnique' /\ OwnLibrariesOnly'
  BY DEF IInv, TypeOK, RunningPidsDiffer, PidsUnique, OwnLibrariesOnly, CallType
<1>2. SessionIntact' /\ IdsBelow' /\ NoRecords' /\ ServiceIssuedOnce' /\ HandlesMatchClients'
  BY DEF IInv, SessionIntact, IdsBelow, NoRecords, ServiceIssuedOnce, HandlesMatchClients
<1>. QED
  BY <1>1, <1>2 DEF IInv

\* A step that overwrites handles from outside, and adds calls.
LEMMA StrayHandlesIInv ==
    ASSUME IInv, NEW b \in Apps, NEW new \in [Handles -> BOOLEAN],
           handles' = [handles EXCEPT ![b] = new],
           overrun' = overrun \cup {<<b, "handles">>},
           ret' \in Errors \cup {"none", "LFS_SUCCESS"},
           calls' \subseteq CallType, CallsUseOwnLibrary',
           UNCHANGED <<alive, pidOf, pidTable, reqId, spLib, owns, held, opens, issued>>
    PROVE  IInv'
<1>1. /\ reqId' \in [Apps -> [Services -> Nat]]
      /\ spLib' \in [Apps -> [Services -> Procs \cup {NoLib, Wild}]]
      /\ handles' \in [Apps -> [Handles -> BOOLEAN]]
      /\ overrun' \subseteq Apps \X Fields /\ overrun \subseteq overrun'
  BY DEF IInv, TypeOK, Fields
<1>2. \A c \in Apps : <<c, "handles">> \notin overrun' => handles'[c] = handles[c]
  BY DEF IInv, TypeOK
<1>. QED
  BY <1>1, <1>2, StrayIInv

\* LFSAsyncOpen takes a free service entry, or overruns the table.
LEMMA AsyncOpenIInv == ASSUME IInv, NEW p \in Procs, LFSAsyncOpen(p) PROVE IInv'
<1>1. CASE Return("LFS_ERR_NOT_STARTED")
  BY <1>1, ReturnIInv DEF Errors
<1>2. ASSUME NEW a \in Apps, NEW s \in Services, p \in alive,
             IsFirst(a, SlotsOf(p)), IsFirst(s, FreeServices(a)),
             reqId' = [reqId EXCEPT ![a][s] = 1],
             \/ /\ ret' = "LFS_ERR_INVALID_SERVPROV"
                /\ UNCHANGED <<spLib, calls, opens>>
             \/ /\ ret' = "none"
                /\ spLib' = [spLib EXCEPT ![a][s] = p]
                /\ opens' = Noted(opens, p, [opens[p] EXCEPT ![s] = Again(@)])
                /\ calls' = calls \cup {CallOf(p, s, 1, p, a)},
             UNCHANGED <<alive, pidOf, pidTable, handles, owns, held, issued, overrun>>
      PROVE  IInv'
  <2>1. pidTable[a] = pidOf[p] /\ reqId[a][s] = 0
    BY <1>2 DEF IsFirst, SlotsOf, FreeServices
  <2>. QED
    BY <1>2, <2>1, OpenEntryIInv
<1>3. ASSUME NEW a \in Apps, NEW loaded \in BOOLEAN, NEW new \in [Handles -> BOOLEAN],
             p \in alive, IsFirst(a, SlotsOf(p)),
             handles' = [handles EXCEPT ![a] = new], overrun' = overrun \cup {<<a, "handles">>},
             ret' = IF loaded THEN "none" ELSE "LFS_ERR_INVALID_SERVPROV",
             calls' = IF loaded THEN calls \cup {CallOf(p, NServices + 1, 1, p, a)} ELSE calls,
             UNCHANGED <<alive, pidOf, pidTable, reqId, spLib, owns, held, opens, issued>>
      PROVE  IInv'
  <2>1. calls' \subseteq CallType /\ CallsUseOwnLibrary'
    <3>1. CASE ~loaded
      BY <1>3, <3>1 DEF IInv, TypeOK, CallsUseOwnLibrary, CallType
    <3>2. CASE loaded
      <4>1. NServices + 1 \in 1..MaxService /\ p \in Procs
        BY <1>3, SizesAssumption DEF IInv, TypeOK
      <4>. QED
        BY <1>3, <3>2, <4>1, NewCall
    <3>. QED
      BY <3>1, <3>2
  <2>2. ret' \in Errors \cup {"none", "LFS_SUCCESS"}
    BY <1>3 DEF Errors
  <2>. QED
    BY <1>3, <2>1, <2>2, StrayHandlesIInv
<1>. QED
  BY <1>1, <1>2, <1>3 DEF LFSAsyncOpen

\* A request draws the counter's value and leaves the counter above it.
LEMMA RequestIInv ==
    ASSUME IInv, NEW p \in alive, NEW a \in Apps, NEW s \in Services, pidTable[a] = pidOf[p],
           reqId' = [reqId EXCEPT ![a][s] = @ + 1], calls' \subseteq CallType, CallsUseOwnLibrary',
           \/ /\ ret' = "LFS_ERR_INVALID_HSERVICE"
              /\ UNCHANGED issued
           \/ /\ ret' = "none"
              /\ issued' = Noted(issued, p, [issued[p] EXCEPT ![s] = @ \cup {reqId[a][s]}]),
           UNCHANGED <<alive, pidOf, pidTable, spLib, handles, owns, held, opens, overrun>>
    PROVE  IInv'
<1>0. p \in Procs /\ reqId[a][s] \in Nat /\ reqId \in [Apps -> [Services -> Nat]]
      /\ issued \in [Procs -> [Services -> SUBSET Nat]]
  BY DEF IInv, TypeOK
<1>1. /\ reqId'[a][s] = reqId[a][s] + 1
      /\ \A b \in Apps, t \in Services : b # a \/ t # s => reqId'[b][t] = reqId[b][t]
  BY <1>0
<1>2. reqId' \in [Apps -> [Services -> Nat]]
  BY <1>0
<1>3. \A q \in owns, b \in Apps : pidTable[b] = pidOf[q] => (q = p <=> b = a)
  BY DEF IInv, TypeOK, RunningPidsDiffer, PidsUnique
<1>4. /\ \A q \in Procs, t \in Services : q # p \/ t # s \/ p \notin owns => issued'[q][t] = issued[q][t]
      /\ issued'[p][s] \subseteq issued[p][s] \cup {reqId[a][s]}
  BY <1>0 DEF Noted
<1>5. issued' \in [Procs -> [Services -> SUBSET Nat]]
  <2>1. [issued[p] EXCEPT ![s] = @ \cup {reqId[a][s]}] \in [Services -> SUBSET Nat]
    BY <1>0
  <2>. QED
    BY <1>0, <2>1 DEF Noted
<1>7. TypeOK'
  BY <1>2, <1>5 DEF IInv, TypeOK, Errors, CallType
<1>8. RunningPidsDiffer' /\ PidsUnique' /\ OwnLibrariesOnly' /\ HandlesMatchClients' /\ ServiceIssuedOnce'
  BY DEF IInv, RunningPidsDiffer, PidsUnique, OwnLibrariesOnly, HandlesMatchClients, ServiceIssuedOnce
<1>9. SessionIntact'
  <2>1. \A b \in Apps, t \in Services : reqId[b][t] > 0 => reqId'[b][t] > 0
    BY <1>0, <1>1
  <2>. QED
    BY <2>1 DEF IInv, SessionIntact
<1>10. IdsBelow'
  <2>. SUFFICES ASSUME NEW q \in owns, NEW b \in Apps, NEW t \in Services, pidTable[b] = pidOf[q],
                       <<b, "reqId">> \notin overrun, NEW id \in issued'[q][t]
                PROVE  id < reqId'[b][t]
    BY DEF IdsBelow
  <2>0. q \in Procs /\ issued[q][t] \subseteq Nat /\ \A i \in issued[q][t] : i < reqId[b][t]
    BY DEF IInv, TypeOK, IdsBelow
  <2>1. CASE q = p /\ t = s
    <3>1. b = a
      BY <1>3, <2>1
    <3>. QED
      BY <1>0, <1>1, <1>4, <2>0, <2>1, <3>1
  <2>2. CASE ~(q = p /\ t = s)
    BY <1>1, <1>3, <1>4, <2>0, <2>2
  <2>. QED
    BY <2>1, <2>2
<1>11. NoRecords'
  <2>1. \A q \in Procs : q # p \/ p \notin owns => issued'[q] = issued[q]
    BY <1>0 DEF Noted
  <2>. QED
    BY <2>1 DEF IInv, NoRecords
<1>. QED
  BY <1>7, <1>8, <1>9, <1>10, <1>11 DEF IInv

\* A request through another entry's cell marks it.
LEMMA StrayRequestIInv ==
    ASSUME IInv, NEW b \in Apps, NEW t \in Services,
           reqId' = [reqId EXCEPT ![b][t] = @ + 1],
           overrun' = overrun \cup {<<b, "reqId">>},
           ret' \in Errors \cup {"none", "LFS_SUCCESS"},
           calls' \subseteq CallType, CallsUseOwnLibrary',
           UNCHANGED <<alive, pidOf, pidTable, spLib, handles, owns, held, opens, issued>>
    PROVE  IInv'
<1>0. reqId \in [Apps -> [Services -> Nat]]
  BY DEF IInv, TypeOK
<1>1. reqId' \in [Apps -> [Services -> Nat]]
  BY <1>0
<1>2. /\ spLib' \in [Apps -> [Services -> Procs \cup {NoLib, Wild}]]
      /\ handles' \in [Apps -> [Handles -> BOOLEAN]]
      /\ overrun' \subseteq Apps \X Fields /\ overrun \subseteq overrun'
  BY DEF IInv, TypeOK, Fields
<1>3. \A c \in Apps : <<c, "reqId">> \notin overrun' => reqId'[c] = reqId[c]
  BY <1>0
<1>. QED
  BY <1>1, <1>2, <1>3, StrayIInv

\* The handles after reqId++ on one of their words are still handles.
LEMMA IncrementedType ==
    ASSUME IInv, NEW b \in Apps, NEW h, NEW new \in Incremented(handles[b], h)
    PROVE  new \in [Handles -> BOOLEAN]
<1>1. handles[b] \in [Handles -> BOOLEAN]
  BY DEF IInv, TypeOK
<1>2. PICK k \in 0..WordCells :
        new = [i \in Handles |-> IF i \in h..(h + k - 1) THEN FALSE
                                ELSE IF i = h + k /\ k < WordCells THEN TRUE ELSE handles[b][i]]
  BY DEF Incremented
<1>. QED
  BY <1>1, <1>2

\* What a request or a cancel reads through ServiceAt and HandlesAt is what the
\* call it makes may use.
LEMMA ReadCall ==
    ASSUME IInv, NEW p \in alive, NEW a \in Apps, NEW b \in Apps, NEW s \in 1..MaxService,
           NEW id \in Nat, NEW lib, pidTable[a] = pidOf[p], alive' = alive,
           \/ \E t \in Services : ServiceAt(a, s, b, t) /\ lib = spLib[b][t] /\ lib # NoLib
           \/ (\E i \in 0..(HandleCells - 1) : HandlesAt(a, s, b, i)) /\ lib = Wild,
           calls' = calls \cup {CallOf(p, s, id, lib, a)}
    PROVE  calls' \subseteq CallType /\ calls' \subseteq CallType' /\ CallsUseOwnLibrary'
<1>1. s \in Int
  BY SizesAssumption
<1>2. lib \in Procs \cup {Wild}
  BY DEF IInv, TypeOK
<1>3. ASSUME p \in owns, <<a, "spLib">> \notin overrun, s \in Services PROVE lib = p
  <2>1. ~\E i \in 0..(HandleCells - 1) : HandlesAt(a, s, b, i)
    BY <1>1, <1>3, OutsideServices
  <2>2. PICK t \in Services : ServiceAt(a, s, b, t) /\ lib = spLib[b][t] /\ lib # NoLib
    BY <2>1
  <2>3. b = a
    BY <1>1, <1>3, <2>2, OutsideServices
  <2>. QED
    BY <1>3, <2>2, <2>3 DEF IInv, OwnLibrariesOnly
<1>. QED
  BY <1>2, <1>3, NewCall

\* The requests: an early return, an id used up, or an id and a call.
LEMMA GetLibAndRequestIInv ==
    ASSUME IInv, NEW p \in Procs, NEW s \in 0..MaxService, NEW idp \in BOOLEAN,
           GET_LIB_AND_REQUEST(p, s, idp)
    PROVE  IInv'
<1>0. calls \subseteq CallType /\ CallsUseOwnLibrary
  BY DEF IInv, TypeOK, CallType
<1>1. CASE Return("LFS_ERR_INVALID_HSERVICE") \/ Return("LFS_ERR_INVALID_POINTER")
           \/ Return("LFS_ERR_NOT_STARTED")
  BY <1>1, ReturnIInv DEF Errors
<1>2. ASSUME NEW a \in Apps, NEW b \in Apps, NEW t \in Services, p \in alive, s # 0,
             IsFirst(a, SlotsOf(p)), ServiceAt(a, s, b, t),
             reqId' = [reqId EXCEPT ![b][t] = @ + 1], overrun' = Hit(a, b, "reqId"),
             \/ /\ ret' = "LFS_ERR_INVALID_HSERVICE"
                /\ UNCHANGED <<calls, issued>>
             \/ /\ spLib[b][t] # NoLib
                /\ ret' = "none"
                /\ issued' = IF b = a
                               THEN Noted(issued, p, [issued[p] EXCEPT ![t] = @ \cup {reqId[b][t]}])
                               ELSE issued
                /\ calls' = calls \cup {CallOf(p, s, reqId[b][t], spLib[b][t], a)},
             UNCHANGED <<alive, pidOf, pidTable, spLib, handles, owns, held, opens>>
      PROVE  IInv'
  <2>1. pidTable[a] = pidOf[p] /\ s \in 1..MaxService /\ reqId[b][t] \in Nat
    BY <1>2, SizesAssumption DEF IsFirst, SlotsOf, IInv, TypeOK
  <2>2. calls' \subseteq CallType /\ CallsUseOwnLibrary'
    <3>1. CASE UNCHANGED calls
      BY <1>0, <3>1 DEF CallsUseOwnLibrary
    <3>2. CASE spLib[b][t] # NoLib /\ calls' = calls \cup {CallOf(p, s, reqId[b][t], spLib[b][t], a)}
      BY <1>2, <2>1, <3>2, ReadCall
    <3>. QED
      BY <1>2, <3>1, <3>2
  <2>3. ret' \in Errors \cup {"none", "LFS_SUCCESS"}
    BY <1>2 DEF Errors
  <2>4. CASE b = a
    <3>1. overrun' = overrun
      BY <1>2, <2>4 DEF Hit
    <3>. QED
      BY <1>2, <2>1, <2>2, <2>4, <3>1, RequestIInv
  <2>5. CASE b # a
    <3>1. overrun' = overrun \cup {<<b, "reqId">>} /\ UNCHANGED issued
      BY <1>2, <2>5 DEF Hit
    <3>. QED
      BY <1>2, <2>2, <2>3, <3>1, StrayRequestIInv
  <2>. QED
    BY <2>4, <2>5
<1>3. ASSUME NEW a \in Apps, NEW b \in Apps, NEW i \in 0..(HandleCells - 1), NEW id \in 0..MaxReqId,
             NEW h, p \in alive, s # 0, IsFirst(a, SlotsOf(p)), HandlesAt(a, s, b, i),
             \E new \in Incremented(handles[b], h) : handles' = [handles EXCEPT ![b] = new],
             \/ ret' = "LFS_ERR_INVALID_HSERVICE" /\ UNCHANGED calls
             \/ ret' = "none" /\ calls' = calls \cup {CallOf(p, s, id, Wild, a)},
             overrun' = overrun \cup {<<b, "handles">>},
             UNCHANGED <<alive, pidOf, pidTable, reqId, spLib, owns, held, opens, issued>>
      PROVE  IInv'
  <2>1. pidTable[a] = pidOf[p] /\ s \in 1..MaxService /\ id \in Nat
    BY <1>3, SizesAssumption DEF IsFirst, SlotsOf
  <2>2. calls' \subseteq CallType /\ CallsUseOwnLibrary'
    <3>1. CASE UNCHANGED calls
      BY <1>0, <3>1 DEF CallsUseOwnLibrary
    <3>2. CASE calls' = calls \cup {CallOf(p, s, id, Wild, a)}
      BY <1>3, <2>1, <3>2, ReadCall
    <3>. QED
      BY <1>3, <3>1, <3>2
  <2>3. PICK new \in [Handles -> BOOLEAN] : handles' = [handles EXCEPT ![b] = new]
    BY <1>3, IncrementedType
  <2>4. ret' \in Errors \cup {"none", "LFS_SUCCESS"}
    BY <1>3 DEF Errors
  <2>. QED
    BY <1>3, <2>2, <2>3, <2>4, StrayHandlesIInv
<1>. QED
  BY <1>1, <1>2, <1>3 DEF GET_LIB_AND_REQUEST

\* LFSCancelAsyncRequest adds at most a call.
LEMMA CancelIInv ==
    ASSUME IInv, NEW p \in Procs, NEW s \in 0..MaxService, NEW id \in 1..MaxReqId,
           LFSCancelAsyncRequest(p, s, id)
    PROVE  IInv'
<1>1. CASE Return("LFS_ERR_INVALID_HSERVICE") \/ Return("LFS_ERR_NOT_STARTED")
  BY <1>1, ReturnIInv DEF Errors
<1>2. CASE ret' = "LFS_ERR_INVALID_HSERVICE" /\ UNCHANGED <<calls, alive, pidOf, tables, clients>>
  BY <1>2, ReturnIInv DEF Errors, Return
<1>3. ASSUME NEW a \in Apps, NEW b \in Apps, NEW lib, p \in alive, s # 0, IsFirst(a, SlotsOf(p)),
             \/ \E t \in Services : ServiceAt(a, s, b, t) /\ lib = spLib[b][t] /\ lib # NoLib
             \/ (\E i \in 0..(HandleCells - 1) : HandlesAt(a, s, b, i)) /\ lib = Wild,
             ret' = "none", calls' = calls \cup {CallOf(p, s, id, lib, a)},
             UNCHANGED <<alive, pidOf, tables, clients>>
      PROVE  IInv'
  <2>1. pidTable[a] = pidOf[p] /\ id \in Nat /\ s \in 1..MaxService
    BY <1>3, SizesAssumption DEF IsFirst, SlotsOf
  <2>2. calls' \subseteq CallType /\ CallsUseOwnLibrary'
    BY <1>3, <2>1, ReadCall
  <2>. QED
    BY <1>3, <2>2, CallStepIInv
<1>. QED
  BY <1>1, <1>2, <1>3 DEF LFSCancelAsyncRequest

\* The call into the provider ends, or ends its process.
LEMMA CallProviderIInv == ASSUME IInv, NEW c \in calls, CallProvider(c) PROVE IInv'
<1>1. CASE calls' = calls \ {c} /\ UNCHANGED <<alive, owns, held, opens, issued>>
  <2>1. ret' = "none" /\ UNCHANGED <<alive, pidOf, tables, clients>>
    BY <1>1 DEF CallProvider, clients
  <2>2. CallsUseOwnLibrary'
    BY <1>1 DEF IInv, CallsUseOwnLibrary
  <2>3. calls' \subseteq CallType
    BY <1>1 DEF IInv, TypeOK, CallType
  <2>. QED
    BY <2>1, <2>2, <2>3, CallStepIInv
<1>2. CASE /\ calls' = {d \in calls : d.proc # c.proc}
           /\ alive' = alive \ {c.proc}
           /\ Forget(c.proc)
  <2>1. c.proc \in Procs
    BY DEF IInv, TypeOK
  <2>. QED
    BY <1>2, <2>1, DeathIInv DEF CallProvider
<1>. QED
  BY <1>1, <1>2 DEF CallProvider

\* Every step of any process preserves the invariant.
LEMMA NextIInv == IInv /\ [Next]_vars => IInv'
<1>. SUFFICES ASSUME IInv, [Next]_vars PROVE IInv'
  OBVIOUS
<1>1. ASSUME NEW p \in Procs, Spawn(p) PROVE IInv'
  BY <1>1, SpawnIInv
<1>2. ASSUME NEW p \in Procs, Die(p) PROVE IInv'
  BY <1>2, DeathIInv DEF Die
<1>3. ASSUME NEW p \in Procs, LFSStartUp(p) \/ LFSCleanUp(p) PROVE IInv'
  BY <1>3, StartUpIInv, CleanUpIInv
<1>4. ASSUME NEW p \in Procs,
             \/ LFSCancelBlockingCall(p)
             \/ LFSSetBlockingHook(p)
             \/ LFSUnhookBlockingHook(p)
             \/ LFSIsBlocking(p)
      PROVE  IInv'
  BY <1>4, ReturnIInv
     DEF LFSCancelBlockingCall, LFSSetBlockingHook, LFSUnhookBlockingHook, LFSIsBlocking,
         CHECK_IF_STARTED, Errors
<1>5. ASSUME NEW p \in Procs, NEW prev \in -1..NHandles, LFSCreateAppHandle(p, prev) PROVE IInv'
  BY <1>5, CreateAppHandleIInv
<1>6. ASSUME NEW p \in Procs, NEW h \in (-MaxHandle)..MaxHandle, LFSDestroyAppHandle(p, h) PROVE IInv'
  BY <1>6, DestroyAppHandleIInv, SizesAssumption
<1>7. ASSUME NEW p \in Procs, LFSAsyncOpen(p) PROVE IInv'
  BY <1>7, AsyncOpenIInv
<1>8. ASSUME NEW p \in Procs, NEW s \in 0..MaxService, NEW idp \in BOOLEAN,
             \/ LFSAsyncClose(p, s, idp)
             \/ LFSAsyncExecute(p, s, idp)
             \/ LFSAsyncGetInfo(p, s, idp)
             \/ LFSAsyncLock(p, s, idp)
             \/ LFSAsyncUnlock(p, s, idp)
      PROVE  IInv'
  BY <1>8, GetLibAndRequestIInv
     DEF LFSAsyncClose, LFSAsyncExecute, LFSAsyncGetInfo, LFSAsyncLock, LFSAsyncUnlock
<1>9. ASSUME NEW p \in Procs, NEW s \in 0..MaxService, NEW idp \in BOOLEAN, NEW name \in BOOLEAN,
             LFSAsyncRegister(p, s, idp, name) \/ LFSAsyncDeregister(p, s, idp, name)
      PROVE  IInv'
  BY <1>9, GetLibAndRequestIInv, ReturnIInv DEF LFSAsyncRegister, LFSAsyncDeregister, Errors
<1>10. ASSUME NEW p \in Procs, NEW s \in 0..MaxService, NEW id \in 1..MaxReqId,
              LFSCancelAsyncRequest(p, s, id)
       PROVE  IInv'
  BY <1>10, CancelIInv
<1>11. ASSUME NEW c \in calls, CallProvider(c) PROVE IInv'
  BY <1>11, CallProviderIInv
<1>12. CASE UNCHANGED vars
  BY <1>12, QuietIInv DEF vars, IInv, TypeOK
<1>13. ASSUME NEW p \in Procs, StartsWindow(p) PROVE IInv'
  BY <1>13, ReturnIInv DEF StartsWindow, Errors
<1>14. ASSUME NEW p \in Procs,
              \/ LFSClose(p) \/ LFSDeregister(p) \/ LFSExecute(p)
              \/ LFSGetInfo(p) \/ LFSRegister(p) \/ LFSUnlock(p)
       PROVE  IInv'
  BY <1>13, <1>14 DEF LFSClose, LFSDeregister, LFSExecute, LFSGetInfo, LFSRegister, LFSUnlock
<1>15. ASSUME NEW p \in Procs, NEW ptr \in BOOLEAN, LFSLock(p, ptr) PROVE IInv'
  BY <1>13, <1>15, ReturnIInv DEF LFSLock, Errors
<1>16. ASSUME NEW p \in Procs, NEW happ \in BOOLEAN, NEW ptrs \in BOOLEAN, LFSOpen(p, happ, ptrs)
       PROVE  IInv'
  BY <1>13, <1>16, ReturnIInv DEF LFSOpen, Errors
<1>. QED
  BY <1>1, <1>2, <1>3, <1>4, <1>5, <1>6, <1>7, <1>8, <1>9, <1>10, <1>11, <1>12,
     <1>14, <1>15, <1>16 DEF Next, Step

\* The inductive invariant holds throughout.
LEMMA InvariantIInv == Spec => []IInv
  BY InitIInv, NextIInv, PTL DEF Spec

\* The counter of a service is above every id drawn from it.
LEMMA IdsFresh == IInv => NextIdIsFresh
<1>. SUFFICES ASSUME IInv, NEW p \in owns, NEW a \in Apps, NEW s \in Services,
                     pidTable[a] = pidOf[p], <<a, "reqId">> \notin overrun,
                     reqId[a][s] \in issued[p][s]
              PROVE  FALSE
  BY DEF NextIdIsFresh
<1>1. reqId[a][s] < reqId[a][s] /\ reqId[a][s] \in Nat
  BY DEF IInv, TypeOK, IdsBelow
<1>. QED
  BY <1>1

\* No pid is ever registered twice, for any number of processes and entries.
THEOREM ManagerPidsUnique == Spec => [](TypeOK /\ PidsUnique)
<1>1. IInv => TypeOK /\ PidsUnique
  BY DEF IInv
<1>. QED
  BY <1>1, InvariantIInv, PTL

\* Sessions do not interfere: a session keeps its entry, its services and its
\* handles until its own process ends it, but for fields that an access outside
\* its table has hit.
THEOREM ManagerSessionsIntact == Spec => [](SessionIntact /\ HandlesMatchClients)
<1>1. IInv => SessionIntact /\ HandlesMatchClients
  BY DEF IInv
<1>. QED
  BY <1>1, InvariantIInv, PTL

\* In a session of its own, on the services of its own table, a process never
\* calls through a pointer that another process, dead or alive, has left in shared
\* memory, as long as no access outside its table has overwritten its pointers.
THEOREM ManagerCallsUseOwnLibrary == Spec => []CallsUseOwnLibrary
<1>1. IInv => CallsUseOwnLibrary
  BY DEF IInv
<1>. QED
  BY <1>1, InvariantIInv, PTL

\* Within a session no service handle is given out twice and no two requests on a
\* service get the same id, unless LFSDestroyAppHandle with a number that is no
\* handle has written to the counters.  (The id 1 that LFSAsyncOpen returns is no
\* request's: the first request repeats it, see ManagerRequestIds.)
THEOREM ManagerNumbersFresh == Spec => [](ServiceIssuedOnce /\ NextIdIsFresh)
<1>1. IInv => ServiceIssuedOnce /\ NextIdIsFresh
  BY IdsFresh DEF IInv
<1>. QED
  BY <1>1, InvariantIInv, PTL

\* pidTable is written by LFSStartUp and LFSCleanUp alone: the first takes a free
\* entry, the second frees the entry of a running process.
DeadEntriesKept ==
    \A a \in Apps :
        pidTable[a] # NoPid /\ (\A p \in alive : pidOf[p] # pidTable[a]) =>
            pidTable'[a] = pidTable[a]

\* No step frees the entry of a process that is gone.
LEMMA EntriesStep == TypeOK /\ [Next]_vars => DeadEntriesKept
<1>. SUFFICES ASSUME TypeOK, [Next]_vars PROVE DeadEntriesKept
  OBVIOUS
<1>1. ASSUME UNCHANGED pidTable PROVE DeadEntriesKept
  BY <1>1 DEF DeadEntriesKept
<1>2. ASSUME NEW code, Return(code) PROVE DeadEntriesKept
  BY <1>1, <1>2 DEF Return, tables
<1>3. ASSUME NEW p \in Procs, Spawn(p) \/ Die(p) PROVE DeadEntriesKept
  BY <1>1, <1>3 DEF Spawn, Die, tables
<1>4. ASSUME NEW p \in Procs, LFSStartUp(p) PROVE DeadEntriesKept
  <2>1. CASE \E code : Return(code)
    BY <1>2, <2>1
  <2>2. ASSUME NEW a \in Apps, IsFirst(a, FreeSlots),
               pidTable' = [pidTable EXCEPT ![a] = pidOf[p]]
        PROVE  DeadEntriesKept
    BY <2>2 DEF IsFirst, FreeSlots, DeadEntriesKept, TypeOK
  <2>. QED
    BY <1>4, <2>1, <2>2 DEF LFSStartUp
<1>5. ASSUME NEW p \in Procs, LFSCleanUp(p) PROVE DeadEntriesKept
  <2>1. ASSUME NEW a \in Apps, IsFirst(a, SlotsOf(p)), p \in alive,
               pidTable' = [pidTable EXCEPT ![a] = NoPid]
        PROVE  DeadEntriesKept
    BY <2>1 DEF IsFirst, SlotsOf, DeadEntriesKept, TypeOK
  <2>. QED
    BY <1>2, <1>5, <2>1 DEF LFSCleanUp
<1>6. ASSUME NEW p \in Procs, CHECK_IF_STARTED(p) \/ StartsWindow(p) PROVE DeadEntriesKept
  BY <1>2, <1>6 DEF CHECK_IF_STARTED, StartsWindow
<1>7. ASSUME NEW p \in Procs, NEW h, LFSCreateAppHandle(p, h) \/ LFSDestroyAppHandle(p, h)
      PROVE  DeadEntriesKept
  BY <1>1, <1>2, <1>7 DEF LFSCreateAppHandle, LFSDestroyAppHandle, tables
<1>8. ASSUME NEW p \in Procs, LFSAsyncOpen(p) PROVE DeadEntriesKept
  BY <1>1, <1>2, <1>8 DEF LFSAsyncOpen, tables
<1>9. ASSUME NEW p \in Procs, NEW s, NEW idp, GET_LIB_AND_REQUEST(p, s, idp)
      PROVE  DeadEntriesKept
  BY <1>1, <1>2, <1>9 DEF GET_LIB_AND_REQUEST, tables
<1>10. ASSUME NEW p \in Procs, NEW s, NEW id, LFSCancelAsyncRequest(p, s, id)
       PROVE  DeadEntriesKept
  BY <1>1, <1>2, <1>10 DEF LFSCancelAsyncRequest, tables
<1>11. ASSUME NEW c \in calls, CallProvider(c) PROVE DeadEntriesKept
  BY <1>1, <1>11 DEF CallProvider, tables
<1>12. ASSUME NEW p \in Procs, NEW s, NEW idp, NEW name,
              \/ LFSAsyncClose(p, s, idp) \/ LFSAsyncExecute(p, s, idp)
              \/ LFSAsyncGetInfo(p, s, idp) \/ LFSAsyncLock(p, s, idp)
              \/ LFSAsyncUnlock(p, s, idp) \/ LFSAsyncRegister(p, s, idp, name)
              \/ LFSAsyncDeregister(p, s, idp, name)
       PROVE  DeadEntriesKept
  BY <1>2, <1>9, <1>12 DEF LFSAsyncClose, LFSAsyncExecute, LFSAsyncGetInfo, LFSAsyncLock,
     LFSAsyncUnlock, LFSAsyncRegister, LFSAsyncDeregister
<1>13. ASSUME NEW p \in Procs,
              \/ LFSCancelBlockingCall(p) \/ LFSSetBlockingHook(p)
              \/ LFSUnhookBlockingHook(p) \/ LFSIsBlocking(p)
              \/ LFSClose(p) \/ LFSDeregister(p) \/ LFSExecute(p)
              \/ LFSGetInfo(p) \/ LFSRegister(p) \/ LFSUnlock(p)
       PROVE  DeadEntriesKept
  BY <1>6, <1>13 DEF LFSCancelBlockingCall, LFSSetBlockingHook, LFSUnhookBlockingHook,
     LFSIsBlocking, LFSClose, LFSDeregister, LFSExecute, LFSGetInfo, LFSRegister, LFSUnlock
<1>14. ASSUME NEW p \in Procs, NEW happ, NEW ptrs, LFSLock(p, ptrs) \/ LFSOpen(p, happ, ptrs)
       PROVE  DeadEntriesKept
  BY <1>2, <1>6, <1>14 DEF LFSLock, LFSOpen
<1>15. CASE UNCHANGED vars
  BY <1>1, <1>15 DEF vars, tables
<1>. QED
  BY <1>3, <1>4, <1>5, <1>7, <1>8, <1>10, <1>11, <1>12, <1>13, <1>14, <1>15 DEF Next, Step

\* The entry of a process that is gone stays taken, however many there are.
THEOREM ManagerEntriesOfDeadStay == Spec => EntriesOfDeadStay
<1>1. TypeOK /\ [Next]_vars => [DeadEntriesKept]_vars
  BY EntriesStep
<1>2. Spec => []TypeOK
  BY ManagerPidsUnique, PTL
<1>3. Spec => [][DeadEntriesKept]_vars
  BY <1>1, <1>2, PTL DEF Spec
<1>. QED
  BY <1>3 DEF EntriesOfDeadStay, DeadEntriesKept

-----------------------------------------------------------------------------
(* Request ids and errors.                                                 *)

\* An entry with a library has been taken through its counter.
LibrariesCounted ==
    \A a \in Apps, s \in Services :
        spLib[a][s] # NoLib /\ <<a, "reqId">> \notin overrun => reqId[a][s] > 0

\* In a session of its own, a process has opened every service that has a
\* library, and has drawn ids on those alone.
SessionIds ==
    \A p \in owns, a \in Apps, s \in Services :
        pidTable[a] = pidOf[p] /\ Undisturbed(a) =>
            /\ spLib[a][s] # NoLib => opens[p][s] > 0
            /\ opens[p][s] = 0 => issued[p][s] = {}
            /\ opens[p][s] > 0 => issued[p][s] = 1..(reqId[a][s] - 1)

IdInv == LibrariesCounted /\ SessionIds

\* A step that opens and requests nothing on its own table, begins no session and
\* marks the fields it changes.
LEMMA IdFrame ==
    ASSUME IdInv, overrun \subseteq overrun', owns' \subseteq owns,
           \A a \in Apps : /\ <<a, "reqId">> \notin overrun' => reqId'[a] = reqId[a]
                           /\ <<a, "spLib">> \notin overrun' => spLib'[a] = spLib[a],
           \A a \in Apps, s \in Services : spLib'[a][s] # NoLib => spLib[a][s] # NoLib,
           \A p \in owns' : /\ pidOf'[p] = pidOf[p] /\ opens'[p] = opens[p]
                            /\ issued'[p] = issued[p]
                            /\ \A a \in Apps : pidTable'[a] = pidOf[p] => pidTable[a] = pidOf[p]
    PROVE  IdInv'
<1>1. LibrariesCounted'
  <2>. SUFFICES ASSUME NEW a \in Apps, NEW s \in Services, spLib'[a][s] # NoLib,
                       <<a, "reqId">> \notin overrun'
                PROVE  reqId'[a][s] > 0
    BY DEF LibrariesCounted
  <2>1. spLib[a][s] # NoLib /\ <<a, "reqId">> \notin overrun /\ reqId'[a] = reqId[a]
    OBVIOUS
  <2>. QED
    BY <2>1 DEF IdInv, LibrariesCounted
<1>2. SessionIds'
  <2>. SUFFICES ASSUME NEW p \in owns', NEW a \in Apps, NEW s \in Services,
                       pidTable'[a] = pidOf'[p], Undisturbed(a)'
                PROVE  /\ spLib'[a][s] # NoLib => opens'[p][s] > 0
                       /\ opens'[p][s] = 0 => issued'[p][s] = {}
                       /\ opens'[p][s] > 0 => issued'[p][s] = 1..(reqId'[a][s] - 1)
    BY DEF SessionIds
  <2>1. Undisturbed(a) /\ reqId'[a] = reqId[a] /\ spLib'[a] = spLib[a]
    BY DEF Undisturbed
  <2>2. p \in owns /\ pidTable[a] = pidOf[p] /\ opens'[p] = opens[p] /\ issued'[p] = issued[p]
    OBVIOUS
  <2>. QED
    BY <2>1, <2>2 DEF IdInv, SessionIds
<1>. QED
  BY <1>1, <1>2 DEF IdInv

\* LFSStartUp begins a session with an empty entry and no ids.
LEMMA StartUpIds == ASSUME IInv, IdInv, NEW p \in Procs, LFSStartUp(p) PROVE IdInv'
<1>1. CASE \E code : Return(code)
  BY <1>1, IdFrame DEF Return, tables, clients
<1>2. ASSUME NEW a \in Apps, IsFirst(a, FreeSlots), p \in alive, SlotsOf(p) = {},
             pidTable' = [pidTable EXCEPT ![a] = pidOf[p]],
             reqId' = [reqId EXCEPT ![a] = [s \in Services |-> 0]],
             spLib' = [spLib EXCEPT ![a] = [s \in Services |-> NoLib]],
             overrun' = overrun \ ({a} \X Fields),
             owns' = owns \cup {p}, UNCHANGED <<pidOf, opens, issued>>
      PROVE  IdInv'
  <2>. USE <1>2
  <2>0. \A b \in Apps : b # a => (<<b, "reqId">> \in overrun' <=> <<b, "reqId">> \in overrun)
                               /\ (Undisturbed(b)' <=> Undisturbed(b))
    BY DEF Undisturbed
  <2>1. /\ pidTable[a] = NoPid /\ pidTable'[a] = pidOf[p]
        /\ \A s \in Services : reqId'[a][s] = 0 /\ spLib'[a][s] = NoLib
    BY DEF IInv, TypeOK, IsFirst, FreeSlots
  <2>2. \A b \in Apps : b # a => /\ pidTable'[b] = pidTable[b] /\ reqId'[b] = reqId[b]
                                 /\ spLib'[b] = spLib[b]
    BY DEF IInv, TypeOK
  <2>3. p \notin owns /\ \A b \in Apps : pidTable[b] # pidOf[p]
    BY DEF IInv, SessionIntact, SlotsOf
  <2>4. \A q \in owns : pidOf[q] # pidOf[p] /\ pidOf[q] # NoPid
    BY <2>3 DEF IInv, TypeOK, RunningPidsDiffer
  <2>5. \A s \in Services : opens[p][s] = 0 /\ issued[p][s] = {}
    BY <2>3 DEF IInv, NoRecords, NoOpens, NoIds
  <2>6. LibrariesCounted'
    BY <2>0, <2>1, <2>2 DEF IdInv, LibrariesCounted
  <2>7. SessionIds'
    <3>. SUFFICES ASSUME NEW q \in owns', NEW b \in Apps, NEW s \in Services,
                         pidTable'[b] = pidOf[q], Undisturbed(b)'
                  PROVE  /\ spLib'[b][s] # NoLib => opens[q][s] > 0
                         /\ opens[q][s] = 0 => issued[q][s] = {}
                         /\ opens[q][s] > 0 => issued[q][s] = 1..(reqId'[b][s] - 1)
      BY DEF SessionIds
    <3>1. CASE q = p
      <4>1. b = a
        BY <2>2, <2>3, <3>1
      <4>2. ~(opens[p][s] > 0)
        BY <2>5
      <4>. QED  BY <2>1, <2>5, <3>1, <4>1, <4>2
    <3>2. CASE q # p
      <4>1. q \in owns /\ b # a
        BY <2>1, <2>4, <3>2
      <4>2. reqId'[b] = reqId[b] /\ spLib'[b] = spLib[b] /\ pidTable[b] = pidOf[q] /\ Undisturbed(b)
        BY <2>0, <2>2, <4>1
      <4>. QED  BY <4>1, <4>2 DEF IdInv, SessionIds
    <3>. QED  BY <3>1, <3>2
  <2>. QED  BY <2>6, <2>7 DEF IdInv
<1>. QED
  BY <1>1, <1>2 DEF LFSStartUp

\* An open takes an entry no library is in, and its session has no ids there.
LEMMA OpenIds == ASSUME IInv, IdInv, NEW p \in Procs, LFSAsyncOpen(p) PROVE IdInv'
<1>1. CASE UNCHANGED <<reqId, spLib, owns, pidOf, pidTable, opens, issued>> /\ overrun \subseteq overrun'
  BY <1>1, IdFrame
<1>2. ASSUME NEW a \in Apps, NEW s \in Services, p \in alive,
             IsFirst(a, SlotsOf(p)), IsFirst(s, FreeServices(a)),
             reqId' = [reqId EXCEPT ![a][s] = 1],
             \/ UNCHANGED <<spLib, opens>>
             \/ /\ spLib' = [spLib EXCEPT ![a][s] = p]
                /\ opens' = Noted(opens, p, [opens[p] EXCEPT ![s] = Again(@)]),
             UNCHANGED <<pidOf, pidTable, owns, issued, overrun>>
      PROVE  IdInv'
  <2>. USE <1>2
  <2>0. /\ pidTable[a] = pidOf[p] /\ reqId[a][s] = 0 /\ p \in Procs
        /\ reqId \in [Apps -> [Services -> Nat]] /\ opens \in [Procs -> [Services -> Nat]]
        /\ spLib \in [Apps -> [Services -> Procs \cup {NoLib, Wild}]]
    BY DEF IInv, TypeOK, IsFirst, SlotsOf, FreeServices
  <2>1. /\ reqId'[a][s] = 1
        /\ \A b \in Apps, t \in Services : b # a \/ t # s => reqId'[b][t] = reqId[b][t]
    BY <2>0
  <2>2. \A b \in Apps, t \in Services : b # a \/ t # s => spLib'[b][t] = spLib[b][t]
    BY <2>0
  <2>3. \A q \in owns, b \in Apps : pidTable[b] = pidOf[q] => (q = p <=> b = a)
    BY <2>0 DEF IInv, TypeOK, RunningPidsDiffer, PidsUnique
  <2>4. \A q \in owns, t \in Services : q # p \/ t # s => opens'[q][t] = opens[q][t]
    BY <2>0 DEF Noted, IInv, TypeOK
  <2>5. LibrariesCounted'
    BY <2>1, <2>2 DEF IdInv, LibrariesCounted
  <2>6. p \in owns /\ Undisturbed(a) => opens[p][s] = 0 /\ issued[p][s] = {} /\ spLib[a][s] = NoLib
    <3>1. Undisturbed(a) => spLib[a][s] = NoLib
      BY <2>0 DEF IdInv, LibrariesCounted, Undisturbed
    <3>0. p \in owns /\ Undisturbed(a) => (opens[p][s] > 0 => reqId[a][s] > 0)
      BY <2>0, OwnEntry DEF Undisturbed
    <3>3. p \in owns /\ Undisturbed(a) => opens[p][s] = 0
      BY <2>0, <3>0
    <3>. QED  BY <2>0, <3>1, <3>3 DEF IdInv, SessionIds
  <2>7. p \in owns /\ Undisturbed(a) =>
           (opens'[p][s] = 0 /\ spLib'[a][s] = NoLib) \/ opens'[p][s] = 1
    <3>1. CASE UNCHANGED <<spLib, opens>>
      BY <2>6, <3>1
    <3>2. CASE opens' = Noted(opens, p, [opens[p] EXCEPT ![s] = Again(@)])
      BY <2>0, <2>6, <3>2 DEF Noted, Again
    <3>. QED  BY <3>1, <3>2
  <2>8. ASSUME NEW q \in owns, NEW b \in Apps, NEW t \in Services, pidTable[b] = pidOf[q],
               Undisturbed(b)
        PROVE  /\ spLib'[b][t] # NoLib => opens'[q][t] > 0
               /\ opens'[q][t] = 0 => issued[q][t] = {}
               /\ opens'[q][t] > 0 => issued[q][t] = 1..(reqId'[b][t] - 1)
    <3>1. CASE q = p /\ t = s
      <4>1. b = a
        BY <2>3, <2>8, <3>1
      <4>2. issued[p][s] = {} /\ 1..(reqId'[a][s] - 1) = {}
        BY <2>1, <2>6, <2>8, <3>1, <4>1
      <4>3. CASE opens'[p][s] = 0 /\ spLib'[a][s] = NoLib
        BY <3>1, <4>1, <4>2, <4>3
      <4>4. CASE opens'[p][s] = 1
        BY <3>1, <4>1, <4>2, <4>4
      <4>. QED  BY <2>7, <2>8, <3>1, <4>1, <4>3, <4>4
    <3>2. CASE ~(q = p /\ t = s)
      <4>1. b # a \/ t # s
        BY <2>3, <2>8, <3>2
      <4>2. reqId'[b][t] = reqId[b][t] /\ spLib'[b][t] = spLib[b][t] /\ opens'[q][t] = opens[q][t]
        BY <2>1, <2>2, <2>4, <3>2, <4>1
      <4>. QED  BY <2>8, <4>2 DEF IdInv, SessionIds
    <3>. QED  BY <3>1, <3>2
  <2>9. SessionIds'
    BY <2>8 DEF SessionIds, Undisturbed
  <2>. QED  BY <2>5, <2>9 DEF IdInv
<1>. QED
  BY <1>1, <1>2 DEF LFSAsyncOpen, Return, tables, clients

\* A request draws the next id of a service its session has opened.
LEMMA RequestIds ==
    ASSUME IInv, IdInv, NEW p \in Procs, NEW s \in 0..MaxService, NEW idp \in BOOLEAN,
           GET_LIB_AND_REQUEST(p, s, idp)
    PROVE  IdInv'
<1>1. CASE UNCHANGED <<reqId, spLib, owns, pidOf, pidTable, opens, issued>> /\ overrun \subseteq overrun'
  BY <1>1, IdFrame
<1>3. ASSUME NEW b \in Apps, NEW t \in Services, reqId' = [reqId EXCEPT ![b][t] = @ + 1],
             overrun' = overrun \cup {<<b, "reqId">>},
             UNCHANGED <<spLib, owns, pidOf, pidTable, opens, issued>>
      PROVE  IdInv'
  <2>1. \A c \in Apps : <<c, "reqId">> \notin overrun' => reqId'[c] = reqId[c]
    BY <1>3 DEF IInv, TypeOK
  <2>. QED  BY <1>3, <2>1, IdFrame
<1>2. ASSUME NEW a \in Apps, NEW x \in Services, p \in alive, IsFirst(a, SlotsOf(p)),
             reqId' = [reqId EXCEPT ![a][x] = @ + 1],
             \/ spLib[a][x] = NoLib /\ UNCHANGED issued
             \/ /\ spLib[a][x] # NoLib
                /\ issued' = Noted(issued, p, [issued[p] EXCEPT ![x] = @ \cup {reqId[a][x]}]),
             UNCHANGED <<pidOf, pidTable, spLib, owns, opens, overrun>>
      PROVE  IdInv'
  <2>. USE <1>2
  <2>0. /\ pidTable[a] = pidOf[p] /\ reqId[a][x] \in Nat
        /\ reqId \in [Apps -> [Services -> Nat]] /\ opens \in [Procs -> [Services -> Nat]]
        /\ issued \in [Procs -> [Services -> SUBSET Nat]]
    BY DEF IInv, TypeOK, IsFirst, SlotsOf
  <2>1. /\ reqId'[a][x] = reqId[a][x] + 1
        /\ \A b \in Apps, t \in Services : b # a \/ t # x => reqId'[b][t] = reqId[b][t]
    BY <2>0
  <2>2. \A q \in owns, b \in Apps : pidTable[b] = pidOf[q] => (q = p <=> b = a)
    BY <2>0 DEF IInv, TypeOK, RunningPidsDiffer, PidsUnique
  <2>3. \A q \in owns, t \in Services : q # p \/ t # x => issued'[q][t] = issued[q][t]
    BY <2>0 DEF Noted, IInv, TypeOK
  <2>4. LibrariesCounted'
    BY <2>0, <2>1 DEF IdInv, LibrariesCounted
  <2>5. ASSUME p \in owns, Undisturbed(a)
        PROVE  /\ spLib[a][x] # NoLib => opens[p][x] > 0
               /\ opens[p][x] = 0 => issued'[p][x] = {}
               /\ opens[p][x] > 0 => issued'[p][x] = 1..(reqId'[a][x] - 1)
    <3>1. /\ spLib[a][x] # NoLib => opens[p][x] > 0
          /\ opens[p][x] = 0 => issued[p][x] = {}
          /\ opens[p][x] > 0 => issued[p][x] = 1..(reqId[a][x] - 1)
      BY <2>0, <2>5 DEF IdInv, SessionIds
    <3>2. CASE spLib[a][x] = NoLib
      <4>0. opens[p][x] > 0 => spLib[a][x] = p
        BY <2>0, <2>5, OwnEntry DEF Undisturbed
      <4>1. ~(opens[p][x] > 0)
        BY <3>2, <4>0, NoLibAssumption
      <4>. QED  BY <3>1, <3>2, <4>1
    <3>3. CASE spLib[a][x] # NoLib
      <4>1. issued'[p][x] = issued[p][x] \cup {reqId[a][x]}
        BY <2>0, <2>5, <3>3 DEF Noted
      <4>2. reqId[a][x] > 0 /\ opens[p][x] > 0
        BY <2>0, <2>5, <3>1, <3>3 DEF IdInv, LibrariesCounted, Undisturbed
      <4>3. issued'[p][x] = 1..(reqId'[a][x] - 1)
        BY <2>0, <2>1, <3>1, <4>1, <4>2
      <4>4. opens[p][x] # 0
        BY <2>0, <4>2
      <4>. QED  BY <4>2, <4>3, <4>4
    <3>. QED  BY <3>2, <3>3
  <2>6. ASSUME NEW q \in owns, NEW b \in Apps, NEW t \in Services, pidTable[b] = pidOf[q],
               Undisturbed(b)
        PROVE  /\ spLib[b][t] # NoLib => opens[q][t] > 0
               /\ opens[q][t] = 0 => issued'[q][t] = {}
               /\ opens[q][t] > 0 => issued'[q][t] = 1..(reqId'[b][t] - 1)
    <3>1. CASE q = p /\ t = x
      <4>1. b = a
        BY <2>2, <2>6, <3>1
      <4>. QED  BY <2>5, <2>6, <3>1, <4>1
    <3>2. CASE ~(q = p /\ t = x)
      <4>1. b # a \/ t # x
        BY <2>2, <2>6, <3>2
      <4>2. reqId'[b][t] = reqId[b][t] /\ issued'[q][t] = issued[q][t]
        BY <2>1, <2>3, <3>2, <4>1
      <4>. QED  BY <2>6, <4>2 DEF IdInv, SessionIds
    <3>. QED  BY <3>1, <3>2
  <2>7. SessionIds'
    BY <2>6 DEF SessionIds, Undisturbed
  <2>. QED  BY <2>4, <2>7 DEF IdInv
<1>4. ASSUME NEW a \in Apps, NEW b \in Apps, NEW t \in Services, p \in alive,
             IsFirst(a, SlotsOf(p)), reqId' = [reqId EXCEPT ![b][t] = @ + 1],
             overrun' = Hit(a, b, "reqId"),
             \/ spLib[b][t] = NoLib /\ UNCHANGED issued
             \/ /\ spLib[b][t] # NoLib
                /\ issued' = IF b = a
                               THEN Noted(issued, p, [issued[p] EXCEPT ![t] = @ \cup {reqId[b][t]}])
                               ELSE issued,
             UNCHANGED <<pidOf, pidTable, spLib, owns, opens>>
      PROVE  IdInv'
  <2>1. CASE b = a
    <3>1. overrun' = overrun
      BY <1>4, <2>1 DEF Hit
    <3>. QED  BY <1>2, <1>4, <2>1, <3>1
  <2>2. CASE b # a
    <3>1. overrun' = overrun \cup {<<b, "reqId">>} /\ UNCHANGED issued
      BY <1>4, <2>2 DEF Hit
    <3>. QED  BY <1>3, <1>4, <3>1
  <2>. QED  BY <2>1, <2>2
<1>. QED
  BY <1>1, <1>4 DEF GET_LIB_AND_REQUEST, Return, tables, clients

\* Every step keeps what the counters say.
LEMMA NextIds == ASSUME IInv, IdInv, [Next]_vars PROVE IdInv'
<1>1. ASSUME NEW code, Return(code) PROVE IdInv'
  BY <1>1, IdFrame DEF Return, tables, clients
<1>2. ASSUME NEW p \in Procs, Spawn(p) PROVE IdInv'
  <2>1. p \notin owns
    BY <1>2 DEF Spawn, IInv, RunningPidsDiffer, TypeOK
  <2>2. \A q \in owns : pidOf'[q] = pidOf[q]
    BY <1>2, <2>1 DEF Spawn, IInv, TypeOK
  <2>. QED  BY <1>2, <2>2, IdFrame DEF Spawn, tables, clients
<1>3. ASSUME NEW p \in Procs, Forget(p), UNCHANGED <<reqId, spLib, pidOf, overrun>>,
             \/ UNCHANGED pidTable
             \/ \E a \in Apps : pidTable' = [pidTable EXCEPT ![a] = NoPid]
      PROVE  IdInv'
  <2>1. \A q \in owns' : q \in owns /\ opens'[q] = opens[q] /\ issued'[q] = issued[q]
    BY <1>3 DEF Forget, IInv, TypeOK
  <2>2. \A q \in owns' : pidOf[q] # NoPid
    BY <2>1 DEF IInv, TypeOK, RunningPidsDiffer
  <2>3. \A q \in owns', a \in Apps : pidTable'[a] = pidOf[q] => pidTable[a] = pidOf[q]
    BY <1>3, <2>2 DEF IInv, TypeOK
  <2>. QED  BY <1>3, <2>1, <2>3, IdFrame
<1>4. ASSUME NEW p \in Procs, Die(p) \/ LFSCleanUp(p) PROVE IdInv'
  <2>1. CASE Die(p)
    BY <1>3, <2>1 DEF Die, tables
  <2>2. CASE LFSCleanUp(p)
    BY <1>1, <1>3, <2>2 DEF LFSCleanUp
  <2>. QED  BY <1>4, <2>1, <2>2
<1>5. ASSUME NEW p \in Procs, CHECK_IF_STARTED(p) \/ StartsWindow(p) PROVE IdInv'
  BY <1>1, <1>5 DEF CHECK_IF_STARTED, StartsWindow
<1>6. ASSUME UNCHANGED <<reqId, spLib, pidOf, pidTable, owns, opens, issued>>,
             overrun \subseteq overrun'
      PROVE  IdInv'
  BY <1>6, IdFrame
<1>7. ASSUME NEW p \in Procs, NEW h, LFSCreateAppHandle(p, h) \/ LFSDestroyAppHandle(p, h)
      PROVE  IdInv'
  <2>1. CASE LFSCreateAppHandle(p, h)
    BY <1>1, <1>6, <2>1 DEF LFSCreateAppHandle, tables
  <2>2. ASSUME NEW b \in Apps, NEW t \in Services, NEW r, reqId' = [reqId EXCEPT ![b][t] = r],
               overrun' = overrun \cup {<<b, "reqId">>},
               UNCHANGED <<spLib, pidOf, pidTable, owns, opens, issued>>
        PROVE  IdInv'
    <3>1. \A c \in Apps : <<c, "reqId">> \notin overrun' => reqId'[c] = reqId[c]
      BY <2>2 DEF IInv, TypeOK
    <3>. QED  BY <2>2, <3>1, IdFrame
  <2>3. ASSUME NEW b \in Apps, NEW t \in Services, NEW lib, spLib[b][t] # NoLib,
               spLib' = [spLib EXCEPT ![b][t] = lib],
               overrun' = overrun \cup {<<b, "spLib">>},
               UNCHANGED <<reqId, pidOf, pidTable, owns, opens, issued>>
        PROVE  IdInv'
    <3>0. spLib \in [Apps -> [Services -> Procs \cup {NoLib, Wild}]]
      BY DEF IInv, TypeOK
    <3>1. \A c \in Apps : <<c, "spLib">> \notin overrun' => spLib'[c] = spLib[c]
      BY <2>3, <3>0
    <3>2. \A c \in Apps, x \in Services : spLib'[c][x] # NoLib => spLib[c][x] # NoLib
      BY <2>3, <3>0
    <3>. QED  BY <2>3, <3>1, <3>2, IdFrame
  <2>4. ASSUME NEW a \in Apps, NEW b \in Apps, overrun' = Hit(a, b, "handles"),
               UNCHANGED <<reqId, spLib, pidOf, pidTable, owns, opens, issued>>
        PROVE  IdInv'
    BY <1>6, <2>4 DEF Hit
  <2>5. CASE LFSDestroyAppHandle(p, h)
    BY <1>1, <1>6, <2>2, <2>3, <2>4, <2>5 DEF LFSDestroyAppHandle
  <2>. QED  BY <1>7, <2>1, <2>5
<1>8. ASSUME NEW p \in Procs, NEW s, NEW id, LFSCancelAsyncRequest(p, s, id) PROVE IdInv'
  BY <1>1, <1>6, <1>8 DEF LFSCancelAsyncRequest, tables, clients
<1>9. ASSUME NEW c \in calls, CallProvider(c) PROVE IdInv'
  <2>1. c.proc \in Procs
    BY DEF IInv, TypeOK
  <2>2. CASE Forget(c.proc)
    BY <1>3, <1>9, <2>1, <2>2 DEF CallProvider, tables
  <2>3. CASE UNCHANGED <<owns, opens, issued>>
    BY <1>6, <1>9, <2>3 DEF CallProvider, tables
  <2>. QED  BY <1>9, <2>2, <2>3 DEF CallProvider
<1>10. ASSUME NEW p \in Procs, NEW s \in 0..MaxService, NEW idp \in BOOLEAN, NEW name \in BOOLEAN,
              \/ LFSAsyncClose(p, s, idp) \/ LFSAsyncExecute(p, s, idp)
              \/ LFSAsyncGetInfo(p, s, idp) \/ LFSAsyncLock(p, s, idp)
              \/ LFSAsyncUnlock(p, s, idp) \/ LFSAsyncRegister(p, s, idp, name)
              \/ LFSAsyncDeregister(p, s, idp, name)
       PROVE  IdInv'
  BY <1>1, <1>10, RequestIds DEF LFSAsyncClose, LFSAsyncExecute, LFSAsyncGetInfo, LFSAsyncLock,
     LFSAsyncUnlock, LFSAsyncRegister, LFSAsyncDeregister
<1>11. ASSUME NEW p \in Procs,
              \/ LFSCancelBlockingCall(p) \/ LFSSetBlockingHook(p)
              \/ LFSUnhookBlockingHook(p) \/ LFSIsBlocking(p)
              \/ LFSClose(p) \/ LFSDeregister(p) \/ LFSExecute(p)
              \/ LFSGetInfo(p) \/ LFSRegister(p) \/ LFSUnlock(p)
       PROVE  IdInv'
  BY <1>5, <1>11 DEF LFSCancelBlockingCall, LFSSetBlockingHook, LFSUnhookBlockingHook,
     LFSIsBlocking, LFSClose, LFSDeregister, LFSExecute, LFSGetInfo, LFSRegister, LFSUnlock
<1>12. ASSUME NEW p \in Procs, NEW happ, NEW ptrs, LFSLock(p, ptrs) \/ LFSOpen(p, happ, ptrs)
       PROVE  IdInv'
  BY <1>1, <1>5, <1>12 DEF LFSLock, LFSOpen
<1>13. CASE UNCHANGED vars
  BY <1>6, <1>13 DEF vars, tables, clients
<1>. QED
  BY <1>2, <1>4, <1>7, <1>8, <1>9, <1>10, <1>11, <1>12, <1>13, StartUpIds, OpenIds DEF Next, Step

\* The counters explain the ids for as long as the program runs.
LEMMA InvariantIds == Spec => []IdInv
<1>1. Init => IdInv
  BY DEF Init, IdInv, LibrariesCounted, SessionIds
<1>2. IInv /\ IdInv /\ [Next]_vars => IdInv'
  BY NextIds
<1>. QED
  BY <1>1, <1>2, InvariantIInv, PTL DEF Spec

\* For any number of processes, entries and services, the requests of a session
\* on a service it has opened carry the ids from 1 on without a gap: the first
\* one repeats the id LFSAsyncOpen has returned.
THEOREM ManagerRequestIds == Spec => []RequestIdsFromOne
<1>1. IdInv => RequestIdsFromOne
  BY DEF IdInv, SessionIds, RequestIdsFromOne
<1>. QED
  BY <1>1, InvariantIds, PTL

\* What a call that returns an error may have changed.
OnlyBurns ==
    ret' \in Errors =>
        /\ UNCHANGED <<alive, pidTable, spLib, calls, opens, issued>>
        /\ \A a \in Apps, s \in Services :
             reqId'[a][s] # reqId[a][s] => spLib[a][s] = NoLib \/ <<a, "reqId">> \in overrun
        /\ \A a \in Apps : handles'[a] # handles[a] => <<a, "handles">> \in overrun'

\* An error is returned before the tables are touched, but for the counters and
\* an access that has run past the end of hServices.
LEMMA BurnStep == ASSUME IInv, IdInv, Next PROVE OnlyBurns
<1>0. "none" \notin Errors /\ "LFS_SUCCESS" \notin Errors
  BY DEF Errors
<1>1. ASSUME NEW code, Return(code) PROVE OnlyBurns
  BY <1>1 DEF Return, tables, clients, OnlyBurns
<1>2. ASSUME ret' \in {"none", "LFS_SUCCESS"} PROVE OnlyBurns
  BY <1>0, <1>2 DEF OnlyBurns
<1>3. ASSUME NEW p \in Procs, Spawn(p) \/ Die(p) PROVE OnlyBurns
  BY <1>2, <1>3 DEF Spawn, Die
<1>4. ASSUME NEW p \in Procs, LFSStartUp(p) \/ LFSCleanUp(p) PROVE OnlyBurns
  BY <1>1, <1>2, <1>4 DEF LFSStartUp, LFSCleanUp
<1>5. ASSUME NEW p \in Procs, CHECK_IF_STARTED(p) \/ StartsWindow(p) PROVE OnlyBurns
  BY <1>1, <1>5 DEF CHECK_IF_STARTED, StartsWindow
<1>6. ASSUME NEW p \in Procs, NEW h, LFSCreateAppHandle(p, h) PROVE OnlyBurns
  <2>1. CASE UNCHANGED <<alive, tables, calls, opens, issued>>
    BY <2>1 DEF OnlyBurns, tables
  <2>. QED  BY <1>1, <1>2, <1>6, <2>1 DEF LFSCreateAppHandle
<1>7. ASSUME NEW p \in Procs, NEW h, LFSDestroyAppHandle(p, h) PROVE OnlyBurns
  <2>1. CASE \E code : Return(code)
    BY <1>1, <2>1
  <2>2. ASSUME NEW b \in Apps, NEW i \in Handles,
               ret' = (IF handles[b][i] \/ h = 1 THEN "LFS_SUCCESS" ELSE "LFS_ERR_INVALID_APP_HANDLE"),
               handles' = [handles EXCEPT ![b][i] = FALSE],
               UNCHANGED <<alive, pidTable, reqId, spLib, calls, opens, issued>>
        PROVE  OnlyBurns
    <3>1. CASE handles[b][i] \/ h = 1
      BY <1>2, <2>2, <3>1
    <3>2. CASE ~handles[b][i]
      <4>1. handles[b] \in [Handles -> BOOLEAN]
        BY DEF IInv, TypeOK
      <4>2. [handles[b] EXCEPT ![i] = FALSE] = handles[b]
        BY <3>2, <4>1
      <4>3. handles' = handles
        BY <2>2, <4>2 DEF IInv, TypeOK
      <4>. QED  BY <2>2, <4>3 DEF OnlyBurns
    <3>. QED  BY <3>1, <3>2
  <2>3. CASE UNCHANGED <<alive, pidTable, reqId, spLib, handles, calls, opens, issued>>
    BY <2>3 DEF OnlyBurns
  <2>. QED  BY <1>2, <1>7, <2>1, <2>2, <2>3 DEF LFSDestroyAppHandle
<1>8. ASSUME NEW p \in Procs, LFSAsyncOpen(p) PROVE OnlyBurns
  <2>1. CASE \E code : Return(code)
    BY <1>1, <2>1
  <2>2. ASSUME NEW a \in Apps, NEW s \in Services, IsFirst(s, FreeServices(a)),
               reqId' = [reqId EXCEPT ![a][s] = 1],
               UNCHANGED <<alive, pidTable, spLib, calls, opens, issued, handles>>
        PROVE  OnlyBurns
    <3>1. spLib[a][s] = NoLib \/ <<a, "reqId">> \in overrun
      BY <2>2 DEF IsFirst, FreeServices, IdInv, LibrariesCounted
    <3>2. \A b \in Apps, t \in Services : b # a \/ t # s => reqId'[b][t] = reqId[b][t]
      BY <2>2 DEF IInv, TypeOK
    <3>. QED  BY <2>2, <3>1, <3>2 DEF OnlyBurns
  <2>3. ASSUME NEW a \in Apps, NEW new \in [Handles -> BOOLEAN],
               handles' = [handles EXCEPT ![a] = new], overrun' = overrun \cup {<<a, "handles">>},
               UNCHANGED <<alive, pidTable, reqId, spLib, calls, opens, issued>>
        PROVE  OnlyBurns
    BY <2>3 DEF OnlyBurns, IInv, TypeOK
  <2>. QED  BY <1>2, <1>8, <2>1, <2>2, <2>3 DEF LFSAsyncOpen
<1>9. ASSUME NEW p \in Procs, NEW s \in 0..MaxService, NEW idp \in BOOLEAN,
             GET_LIB_AND_REQUEST(p, s, idp)
      PROVE  OnlyBurns
  <2>1. ASSUME NEW b \in Apps, NEW t \in Services, reqId' = [reqId EXCEPT ![b][t] = @ + 1],
               spLib[b][t] = NoLib,
               UNCHANGED <<alive, pidTable, spLib, handles, calls, opens, issued>>
        PROVE  OnlyBurns
    <3>1. \A c \in Apps, x \in Services : c # b \/ x # t => reqId'[c][x] = reqId[c][x]
      BY <2>1 DEF IInv, TypeOK
    <3>. QED  BY <2>1, <3>1 DEF OnlyBurns
  <2>2. ASSUME NEW b \in Apps, NEW new, handles' = [handles EXCEPT ![b] = new],
               overrun' = overrun \cup {<<b, "handles">>},
               UNCHANGED <<alive, pidTable, reqId, spLib, calls, opens, issued>>
        PROVE  OnlyBurns
    BY <2>2 DEF OnlyBurns, IInv, TypeOK
  <2>. QED  BY <1>1, <1>2, <1>9, <2>1, <2>2 DEF GET_LIB_AND_REQUEST
<1>10. ASSUME NEW p \in Procs, NEW s, NEW id, LFSCancelAsyncRequest(p, s, id) PROVE OnlyBurns
  <2>1. CASE UNCHANGED <<alive, tables, calls, clients>>
    BY <2>1 DEF OnlyBurns, tables, clients
  <2>. QED  BY <1>1, <1>2, <1>10, <2>1 DEF LFSCancelAsyncRequest
<1>11. ASSUME NEW c \in calls, CallProvider(c) PROVE OnlyBurns
  BY <1>2, <1>11 DEF CallProvider
<1>12. ASSUME NEW p \in Procs, NEW s \in 0..MaxService, NEW idp \in BOOLEAN, NEW name \in BOOLEAN,
              \/ LFSAsyncClose(p, s, idp) \/ LFSAsyncExecute(p, s, idp)
              \/ LFSAsyncGetInfo(p, s, idp) \/ LFSAsyncLock(p, s, idp)
              \/ LFSAsyncUnlock(p, s, idp) \/ LFSAsyncRegister(p, s, idp, name)
              \/ LFSAsyncDeregister(p, s, idp, name)
       PROVE  OnlyBurns
  BY <1>1, <1>9, <1>12 DEF LFSAsyncClose, LFSAsyncExecute, LFSAsyncGetInfo, LFSAsyncLock,
     LFSAsyncUnlock, LFSAsyncRegister, LFSAsyncDeregister
<1>13. ASSUME NEW p \in Procs,
              \/ LFSCancelBlockingCall(p) \/ LFSSetBlockingHook(p)
              \/ LFSUnhookBlockingHook(p) \/ LFSIsBlocking(p)
              \/ LFSClose(p) \/ LFSDeregister(p) \/ LFSExecute(p)
              \/ LFSGetInfo(p) \/ LFSRegister(p) \/ LFSUnlock(p)
       PROVE  OnlyBurns
  BY <1>5, <1>13 DEF LFSCancelBlockingCall, LFSSetBlockingHook, LFSUnhookBlockingHook,
     LFSIsBlocking, LFSClose, LFSDeregister, LFSExecute, LFSGetInfo, LFSRegister, LFSUnlock
<1>14. ASSUME NEW p \in Procs, NEW happ, NEW ptrs, LFSLock(p, ptrs) \/ LFSOpen(p, happ, ptrs)
       PROVE  OnlyBurns
  BY <1>1, <1>5, <1>14 DEF LFSLock, LFSOpen
<1>. QED
  BY <1>3, <1>4, <1>6, <1>7, <1>8, <1>10, <1>11, <1>12, <1>13, <1>14 DEF Next, Step

\* For any sizes of the tables and also for numbers outside them, an error leaves
\* the tables as they were, but for the counters of entries without a library (or
\* damaged before) and the handles an access past hServices has hit.
THEOREM ManagerErrorsOnlyBurn == Spec => ErrorsOnlyBurnEntries
<1>1. IInv /\ IdInv /\ [Next]_vars => [OnlyBurns]_vars
  BY BurnStep
<1>2. Spec => [][OnlyBurns]_vars
  BY <1>1, InvariantIInv, InvariantIds, PTL DEF Spec
<1>. QED
  BY <1>2 DEF ErrorsOnlyBurnEntries, OnlyBurns
=============================================================================
