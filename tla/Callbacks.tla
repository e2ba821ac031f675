----------------------------- MODULE Callbacks -----------------------------
(***************************************************************************)
(* How one process of the LFS manager (LFSadmin.cpp) delivers events.      *)
(* LFMRegCallBack enters a function in Context::callbackMap under the name *)
(* of an object; LFMPostMessage starts a detached thread that looks the    *)
(* name up and calls the function.                                         *)
(*                                                                         *)
(* callbackMap is a std::map without a lock.  An insertion takes two steps *)
(* (a node with a null function is linked in, then the function is         *)
(* stored), and a search that runs while the first is under way may miss   *)
(* any name.  Two insertions at once may wreck the tree for good.          *)
(*                                                                         *)
(* The thread captures the pointer to the name and not the name.  It reads *)
(* the caller's buffer after LFMPostMessage has returned, and so does the  *)
(* function it calls.                                                      *)
(***************************************************************************)
EXTENDS Naturals, Sequences, FiniteSets, FiniteSetsExt

CONSTANTS Clients,      \* threads that register callbacks
          Names,        \* object names
          Buffers,      \* buffers that callers keep names in
          MaxRegs,      \* bound: calls of LFMRegCallBack
          MaxEvents     \* bound: events that are posted

ASSUME BoundsAssumption == MaxRegs \in Nat /\ MaxEvents \in Nat
ASSUME ClientsAssumption == IsFiniteSet(Clients)

VARIABLES alive,        \* the process has not crashed
          started,      \* the process has a pidTable entry
          text,         \* buffer -> the name in it
          callbackMap,  \* name -> number of its registration, Null or Missing
          reg,          \* client -> its LFMRegCallBack under way
          wrecked,      \* have two insertions met?
          thread        \* event -> the detached thread that delivers it

\* History.
VARIABLES regd,         \* the finished registrations, in order
          silenced      \* the names unregistered since their last registration

vars == <<alive, started, text, callbackMap, reg, wrecked, thread, regd, silenced>>

Events == 1..MaxEvents

Null == 0               \* a null function pointer
Missing == MaxRegs + 1  \* no such key

NoReg == [at |-> "none"]
NoThread == [at |-> "none"]

\* The last finished registration of a name, 0 when there is none.
Latest(n) == Max({0} \cup {r \in DOMAIN regd : regd[r].name = n})

\* Does somebody want the events for n, going by the calls made?
Wanted(n) == Latest(n) # 0 /\ regd[Latest(n)].function /\ n \notin silenced

Init ==
    /\ alive = TRUE
    /\ started = FALSE
    /\ text \in [Buffers -> Names]
    /\ callbackMap = [n \in Names |-> Missing]
    /\ reg = [c \in Clients |-> NoReg]
    /\ wrecked = FALSE
    /\ thread = [e \in Events |-> NoThread]
    /\ regd = <<>>
    /\ silenced = {}

-----------------------------------------------------------------------------
(* The session, and the buffers of the callers.                            *)

LFSStartUp ==
    /\ ~started
    /\ started' = TRUE
    /\ UNCHANGED <<alive, text, callbackMap, reg, wrecked, thread, regd, silenced>>

\* Neither callbackMap nor the threads under way are touched.
LFSCleanUp ==
    /\ started
    /\ started' = FALSE
    /\ UNCHANGED <<alive, text, callbackMap, reg, wrecked, thread, regd, silenced>>

\* A caller puts another name in its buffer, or frees it and others use it.
\* intact: the event's buffer still holds the name it was posted with.
Reuse(b, n) ==
    /\ n # text[b]
    /\ text' = [text EXCEPT ![b] = n]
    /\ thread' = [e \in Events |->
                    IF thread[e].at \in {"new", "found"} /\ thread[e].buf = b
                      THEN [thread[e] EXCEPT !.intact = FALSE] ELSE thread[e]]
    /\ UNCHANGED <<alive, started, callbackMap, reg, wrecked, regd, silenced>>

-----------------------------------------------------------------------------
(* LFMRegCallBack and LFMUnRegCallBack.                                    *)

Inserting(c) == reg[c].at = "insert"

\* A search that insertions disturb may miss what is in the map.
Raced == wrecked \/ \E c \in Clients : Inserting(c)

\* function says whether *pcallback is not null.  operator[] searches the name
\* and links in a new node when it does not find it.
LFMRegCallBack(c, n, function) ==
    /\ started
    /\ reg[c].at = "none"
    /\ Len(regd) + Cardinality({d \in Clients : reg[d].at # "none"}) < MaxRegs
    /\ \E new \in {callbackMap[n] = Missing} \cup (IF Raced THEN {TRUE} ELSE {}) :
        /\ reg' = [reg EXCEPT ![c] = [at |-> IF new THEN "insert" ELSE "assign",
                                      name |-> n, function |-> function]]
        /\ wrecked' = (wrecked \/ (new /\ \E d \in Clients : Inserting(d)))
    /\ UNCHANGED <<alive, started, text, callbackMap, thread, regd, silenced>>

\* operator[] links a node with a null function in.
Insert(c) ==
    /\ Inserting(c)
    /\ callbackMap' = [callbackMap EXCEPT ![reg[c].name] = Null]
    /\ reg' = [reg EXCEPT ![c].at = "assign"]
    /\ UNCHANGED <<alive, started, text, wrecked, thread, regd, silenced>>

\* A mutant: the function that was there first stays, as with map::insert.
Assign_KeepsFirst(c) ==
    /\ reg[c].at = "assign"
    /\ regd' = Append(regd, [name |-> reg[c].name, function |-> reg[c].function])
    /\ callbackMap' = [callbackMap EXCEPT ![reg[c].name] =
                         IF @ = Null THEN Len(regd) + 1 ELSE @]
    /\ reg' = [reg EXCEPT ![c] = NoReg]
    /\ silenced' = silenced \ {reg[c].name}
    /\ UNCHANGED <<alive, started, text, wrecked, thread>>

Assign(c) ==
    /\ reg[c].at = "assign"
    /\ regd' = Append(regd, [name |-> reg[c].name, function |-> reg[c].function])
    /\ callbackMap' = [callbackMap EXCEPT ![reg[c].name] = Len(regd) + 1]
    /\ reg' = [reg EXCEPT ![c] = NoReg]
    /\ silenced' = silenced \ {reg[c].name}
    /\ UNCHANGED <<alive, started, text, wrecked, thread>>

\* Returns LFS_SUCCESS and leaves the map alone.
LFMUnRegCallBack(n) ==
    /\ started
    /\ silenced' = silenced \cup ({n} \cap {regd[r].name : r \in DOMAIN regd})
    /\ UNCHANGED <<alive, started, text, callbackMap, reg, wrecked, thread, regd>>

-----------------------------------------------------------------------------
(* LFMPostMessage and its thread.                                          *)

\* floor: the last registration of the name that was made before the event.
LFMPostMessage(e, b) ==
    /\ started
    /\ thread[e].at = "none"
    /\ \A d \in 1..(e - 1) : thread[d].at # "none"
    /\ thread' = [thread EXCEPT ![e] =
                    [at |-> "new", buf |-> b, name |-> text[b], floor |-> Latest(text[b]),
                     intact |-> TRUE, raced |-> FALSE, wanted |-> FALSE, callback |-> Missing]]
    /\ UNCHANGED <<alive, started, text, callbackMap, reg, wrecked, regd, silenced>>

\* A broken tree may also show the search an older node of the name.
Outcomes(n) ==
    {callbackMap[n]} \cup (IF Raced THEN {Missing} ELSE {})
                    \cup (IF wrecked THEN {r \in DOMAIN regd : regd[r].name = n} ELSE {})

\* A mutant: the thread begins with CHECK_IF_STARTED and waits for a session.
Find_InSession(e) ==
    /\ started
    /\ thread[e].at = "new"
    /\ \E r \in Outcomes(text[thread[e].buf]) :
        thread' = [thread EXCEPT
                     ![e].at = IF r \notin {Missing, Null} /\ regd[r].function
                                 THEN "found" ELSE "dropped",
                     ![e].callback = r, ![e].raced = Raced]
    /\ UNCHANGED <<alive, started, text, callbackMap, reg, wrecked, regd, silenced>>

\* The function found is copied; a null one is not called.  wanted: whether the
\* registrations made by now ask for the event.
Find(e) ==
    LET n == text[thread[e].buf] IN
    /\ thread[e].at = "new"
    /\ \E r \in Outcomes(n) :
        thread' = [thread EXCEPT
                     ![e].at = IF r \notin {Missing, Null} /\ regd[r].function
                                 THEN "found" ELSE "dropped",
                     ![e].callback = r, ![e].raced = Raced, ![e].wanted = Wanted(n)]
    /\ UNCHANGED <<alive, started, text, callbackMap, reg, wrecked, regd, silenced>>

\* The callback runs, with the name that is in the buffer now.
Call(e) ==
    /\ thread[e].at = "found"
    /\ thread' = [thread EXCEPT ![e].at = "called", ![e].name = text[thread[e].buf]]
    /\ UNCHANGED <<alive, started, text, callbackMap, reg, wrecked, regd, silenced>>

\* A broken tree, or a buffer that is gone, may bring the process down.
Crash ==
    /\ wrecked \/ \E e \in Events : thread[e].at \in {"new", "found"} /\ ~thread[e].intact
    /\ alive' = FALSE
    /\ UNCHANGED <<started, text, callbackMap, reg, wrecked, thread, regd, silenced>>

-----------------------------------------------------------------------------

Next ==
    /\ alive
    /\ \/ LFSStartUp \/ LFSCleanUp \/ Crash
       \/ \E b \in Buffers, n \in Names : Reuse(b, n)
       \/ \E c \in Clients, n \in Names, f \in BOOLEAN : LFMRegCallBack(c, n, f)
       \/ \E c \in Clients : Insert(c) \/ Assign(c)
       \/ \E n \in Names : LFMUnRegCallBack(n)
       \/ \E e \in Events, b \in Buffers : LFMPostMessage(e, b)
       \/ \E e \in Events : Find(e) \/ Call(e)

\* The system runs the detached threads; nobody has to post, register or reuse.
Spec ==
    /\ Init /\ [][Next]_vars
    /\ \A e \in Events : WF_vars(alive /\ (Find(e) \/ Call(e)))

-----------------------------------------------------------------------------
(* Properties.                                                             *)

\* As long as its caller leaves the buffer alone, and unless insertions have met
\* and disturbed its search, an event that is delivered goes to a function
\* registered for its name, never to one that had been replaced before the event
\* was posted, and the function sees that name.
LatestCallback ==
    \A e \in Events :
        /\ thread[e].at \in {"found", "called"} /\ thread[e].intact
        /\ ~(thread[e].raced /\ wrecked)
        => LET r == thread[e].callback IN
           /\ r \in DOMAIN regd
           /\ regd[r].name = thread[e].name /\ regd[r].function
           /\ r >= thread[e].floor

\* An event whose search was not disturbed is dropped only when nobody wants it at
\* that moment: the name the thread finds in the buffer was never registered,
\* was last registered with a null function, or was unregistered since.
OnlyUnwantedDropped ==
    \A e \in Events : thread[e].at = "dropped" /\ ~thread[e].raced => ~thread[e].wanted

\* Every event is called or dropped in the end, also when the session it was
\* posted in is over by then, unless the process crashes.
EventsHandled ==
    \A e \in Events :
        thread[e].at = "new" ~> (thread[e].at \in {"called", "dropped"} \/ ~alive)
=============================================================================
