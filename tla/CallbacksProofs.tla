-------------------------- MODULE CallbacksProofs ---------------------------
(***************************************************************************)
(* Proofs about module Callbacks: LFMRegCallBack, LFMPostMessage and the   *)
(* threads that deliver events, with any number of clients, names, buffers *)
(* and events, and any number of registrations.                            *)
(*                                                                         *)
(* MapInv explains callbackMap: an entry is always a registration of its   *)
(* own name, and as long as no two insertions have met it is the last one. *)
(* The point of the proof is that a node with a null function is only ever *)
(* linked in for a name that has no registration, unless insertions have   *)
(* met.  ThreadsInv follows an event from LFMPostMessage to its callback.  *)
(***************************************************************************)
EXTENDS Callbacks, TLAPS, FiniteSetTheorems, WellFoundedInduction

-----------------------------------------------------------------------------
(* The largest element of a bounded set.                                   *)

\* A set of natural numbers that is bounded and not empty has a largest one.
LEMMA LargestExists ==
    ASSUME NEW S \in SUBSET Nat, S # {}, NEW b \in Nat, \A x \in S : x <= b
    PROVE  Max(S) \in S /\ \A y \in S : Max(S) >= y
<1>. DEFINE T == {k \in Nat : b - k \in S}
            R == OpToRel(<, Nat)
<1>1. T \subseteq Nat
  OBVIOUS
<1>2. T # {}
  <2>1. PICK x \in S : TRUE
    OBVIOUS
  <2>2. b - x \in Nat /\ b - (b - x) = x
    OBVIOUS
  <2>. QED
    BY <2>2
<1>3. PICK k \in T : \A j \in T : <<j, k>> \notin R
  <2>. HIDE DEF T, R
  <2>1. IsWellFoundedOn(R, Nat)
    BY NatLessThanWellFounded, Zenon DEF R
  <2>. QED
    BY <1>1, <1>2, <2>1, WFMin
<1>4. \A j \in T : j >= k
  <2>. SUFFICES ASSUME NEW j \in T, j < k PROVE FALSE
    OBVIOUS
  <2>1. <<j, k>> \in Nat \X Nat /\ <<j, k>>[1] < <<j, k>>[2]
    OBVIOUS
  <2>2. <<j, k>> \in R
    BY <2>1 DEF OpToRel
  <2>. QED
    BY <1>3, <2>2
<1>5. \A y \in S : b - k >= y
  <2>. SUFFICES ASSUME NEW y \in S PROVE b - k >= y
    OBVIOUS
  <2>1. b - y \in Nat /\ b - (b - y) = y
    OBVIOUS
  <2>2. b - y >= k
    BY <1>4, <2>1
  <2>. QED
    BY <2>2
<1>6. \E x \in S : \A y \in S : x >= y
  BY <1>5
<1>. QED
  BY <1>6 DEF Max

-----------------------------------------------------------------------------
(* The inductive invariant.                                                *)

Registration == [name : Names, function : BOOLEAN]
Underway == [at : {"insert", "assign"}, name : Names, function : BOOLEAN]
Delivery == [at : {"new", "found", "dropped", "called"}, buf : Buffers, name : Names,
             floor : Nat, intact : BOOLEAN, raced : BOOLEAN, wanted : BOOLEAN,
             callback : 0..Missing]

TypeOK ==
    /\ text \in [Buffers -> Names]
    /\ callbackMap \in [Names -> 0..Missing]
    /\ reg \in [Clients -> Underway \cup {NoReg}]
    /\ wrecked \in BOOLEAN
    /\ thread \in [Events -> Delivery \cup {NoThread}]
    /\ regd \in Seq(Registration)

\* The calls of LFMRegCallBack under way.
Active == {c \in Clients : reg[c].at # "none"}

CountInv == Len(regd) + Cardinality(Active) <= MaxRegs

\* The entry of n is a registration.
Entered(n) == callbackMap[n] \in DOMAIN regd

MapInv ==
    /\ \A n \in Names : Entered(n) => regd[callbackMap[n]].name = n
    /\ \A n \in Names : callbackMap[n] \in {Missing, Null} \/ Entered(n)
    /\ \A c \in Clients : reg[c].at = "assign" => callbackMap[reg[c].name] # Missing
    /\ ~wrecked =>
        /\ \A c, d \in Clients : Inserting(c) /\ Inserting(d) => c = d
        /\ \A c \in Clients : Inserting(c) => callbackMap[reg[c].name] = Missing
        /\ \A r \in DOMAIN regd : Entered(regd[r].name) /\ r <= callbackMap[regd[r].name]

\* An event that is on its way, or has arrived.
DeliveryOK(d) ==
    /\ d.at \in {"new", "found"} /\ d.intact => text[d.buf] = d.name
    /\ d.at = "new" /\ ~wrecked /\ d.floor # 0 =>
           Entered(d.name) /\ d.floor <= callbackMap[d.name]
    /\ d.at \in {"found", "called"} /\ d.intact /\ ~(d.raced /\ wrecked) =>
           /\ d.callback \in DOMAIN regd
           /\ regd[d.callback].name = d.name /\ regd[d.callback].function
           /\ d.callback >= d.floor
    /\ d.at = "dropped" /\ ~d.raced => ~d.wanted

ThreadsInv == \A e \in Events : DeliveryOK(thread[e])

IInv == TypeOK /\ CountInv /\ MapInv /\ ThreadsInv

\* Nothing is registered or posted at first.
LEMMA InitIInv == Init => IInv
<1>. SUFFICES ASSUME Init PROVE IInv
  OBVIOUS
<1>1. TypeOK
  <2>1. Missing \in 0..Missing
    BY BoundsAssumption DEF Missing
  <2>2. regd \in Seq(Registration)
    BY DEF Init
  <2>. QED
    BY <2>1, <2>2 DEF Init, TypeOK
<1>2. CountInv
  <2>1. Active = {}
    BY DEF Init, Active, NoReg
  <2>. QED
    BY <2>1, FS_EmptySet, BoundsAssumption DEF Init, CountInv
<1>3. MapInv
  BY DEF Init, MapInv, Inserting, NoReg, Entered
<1>4. ThreadsInv
  BY DEF Init, ThreadsInv, DeliveryOK, NoThread
<1>. QED
  BY <1>1, <1>2, <1>3, <1>4 DEF IInv

-----------------------------------------------------------------------------
(* Facts about the registrations.                                          *)

\* The number of registrations leaves Missing free.
LEMMA Bounds ==
    ASSUME IInv
    PROVE  /\ Len(regd) \in Nat /\ DOMAIN regd = 1..Len(regd)
           /\ IsFiniteSet(Active) /\ Cardinality(Active) \in Nat
           /\ Len(regd) <= MaxRegs
           /\ \A r \in DOMAIN regd : r \in Nat /\ r # Missing /\ r # Null
<1>1. Len(regd) \in Nat /\ DOMAIN regd = 1..Len(regd)
  BY DEF IInv, TypeOK
<1>2. IsFiniteSet(Active) /\ Cardinality(Active) \in Nat
  <2>1. Active \in SUBSET Clients
    BY DEF Active
  <2>. QED
    BY <2>1, ClientsAssumption, FS_Subset, FS_CardinalityType
<1>3. Len(regd) <= MaxRegs
  BY <1>1, <1>2, BoundsAssumption DEF IInv, CountInv
<1>. QED
  BY <1>1, <1>2, <1>3, BoundsAssumption DEF Missing, Null

\* A finished registration is one of a name.
LEMMA RegistrationIs ==
    ASSUME IInv, NEW r \in DOMAIN regd
    PROVE  regd[r] \in Registration /\ regd[r].name \in Names /\ regd[r].function \in BOOLEAN
<1>1. regd[r] \in Registration
  BY DEF IInv, TypeOK
<1>. QED
  BY <1>1 DEF Registration

\* The last registration of a name is one of that name, or 0.
LEMMA LatestIs ==
    ASSUME IInv, NEW n \in Names
    PROVE  /\ Latest(n) \in Nat
           /\ Latest(n) # 0 => Latest(n) \in DOMAIN regd /\ regd[Latest(n)].name = n
           /\ \A r \in DOMAIN regd : regd[r].name = n => r <= Latest(n)
<1>. DEFINE S == {0} \cup {r \in DOMAIN regd : regd[r].name = n}
<1>1. S \in SUBSET Nat /\ S # {} /\ Len(regd) \in Nat /\ \A x \in S : x <= Len(regd)
  BY Bounds
<1>2. Latest(n) \in S /\ \A y \in S : Latest(n) >= y
  <2>. HIDE DEF S
  <2>1. Max(S) \in S /\ \A y \in S : Max(S) >= y
    BY <1>1, LargestExists
  <2>. QED
    BY <2>1 DEF Latest, S
<1>. QED
  BY <1>1, <1>2, Bounds

\* As long as no insertions have met, the last registration is the entry.
LEMMA LatestIsEntry ==
    ASSUME IInv, ~wrecked, NEW n \in Names
    PROVE  /\ Latest(n) # 0 => Entered(n) /\ Latest(n) = callbackMap[n]
           /\ Entered(n) => Latest(n) = callbackMap[n]
<1>1. ASSUME Latest(n) # 0
      PROVE  Entered(n) /\ Latest(n) <= callbackMap[n]
  <2>1. Latest(n) \in DOMAIN regd /\ regd[Latest(n)].name = n
    BY <1>1, LatestIs
  <2>. QED
    BY <2>1 DEF IInv, MapInv
<1>2. ASSUME Entered(n)
      PROVE  callbackMap[n] <= Latest(n) /\ callbackMap[n] \in Nat /\ callbackMap[n] # 0
  BY <1>2, LatestIs, Bounds DEF IInv, MapInv, Entered, Null
<1>3. Latest(n) \in Nat
  BY LatestIs
<1>. QED
  BY <1>1, <1>2, <1>3

-----------------------------------------------------------------------------
(* Steps that leave the map alone.                                         *)

\* The map and its registrations keep the invariant while they do not change.
LEMMA MapUnchanged ==
    ASSUME IInv, UNCHANGED <<callbackMap, reg, wrecked, regd>>
    PROVE  CountInv' /\ MapInv'
<1>1. CountInv'
  BY DEF IInv, CountInv, Active
<1>2. MapInv'
  BY DEF IInv, MapInv, Inserting, Entered
<1>. QED
  BY <1>1, <1>2

\* The session and a crash change nothing of all this.
LEMMA SessionKeeps ==
    ASSUME IInv, UNCHANGED <<text, callbackMap, reg, wrecked, thread, regd>>
    PROVE  IInv'
<1>1. TypeOK'
  BY DEF IInv, TypeOK
<1>2. ThreadsInv'
  BY DEF IInv, ThreadsInv, DeliveryOK, Entered
<1>. QED
  BY <1>1, <1>2, MapUnchanged DEF IInv

\* A step of one event's thread keeps the invariant if that event does.
LEMMA OneThread ==
    ASSUME IInv, NEW e \in Events, NEW d \in Delivery,
           thread' = [thread EXCEPT ![e] = d], DeliveryOK(d),
           UNCHANGED <<text, callbackMap, reg, wrecked, regd>>
    PROVE  IInv'
<1>1. TypeOK'
  BY DEF IInv, TypeOK
<1>2. ASSUME NEW f \in Events
      PROVE  DeliveryOK(thread'[f])
  BY DEF IInv, TypeOK, ThreadsInv
<1>3. ThreadsInv'
  BY <1>2 DEF ThreadsInv, DeliveryOK, Entered
<1>. QED
  BY <1>1, <1>3, MapUnchanged DEF IInv

\* Another name in the buffer: an event that was posted from it is not intact.
LEMMA ReuseKeeps ==
    ASSUME IInv, NEW b \in Buffers, NEW n \in Names, Reuse(b, n)
    PROVE  IInv'
<1>1. text' \in [Buffers -> Names] /\ \A c \in Buffers \ {b} : text'[c] = text[c]
  BY DEF IInv, TypeOK, Reuse
<1>2. ASSUME NEW e \in Events
      PROVE  thread'[e] \in Delivery \cup {NoThread} /\ DeliveryOK(thread[e])'
  <2>1. thread[e] \in Delivery \cup {NoThread} /\ DeliveryOK(thread[e])
    BY DEF IInv, TypeOK, ThreadsInv
  <2>2. CASE thread[e].at \in {"new", "found"} /\ thread[e].buf = b
    <3>1. thread[e] \in Delivery
      BY <2>1, <2>2 DEF NoThread
    <3>2. thread'[e] = [thread[e] EXCEPT !.intact = FALSE]
      BY <2>2 DEF Reuse
    <3>3. /\ thread'[e].at = thread[e].at /\ thread'[e].floor = thread[e].floor
          /\ thread'[e].name = thread[e].name /\ ~thread'[e].intact
          /\ thread'[e] \in Delivery
      BY <3>1, <3>2 DEF Delivery
    <3>. QED
      BY <2>1, <2>2, <3>3 DEF Reuse, DeliveryOK, Entered
  <2>3. CASE ~(thread[e].at \in {"new", "found"} /\ thread[e].buf = b)
    <3>1. thread'[e] = thread[e]
      BY <2>3 DEF Reuse
    <3>2. thread[e].at \in {"new", "found"} => text'[thread[e].buf] = text[thread[e].buf]
      BY <1>1, <2>1, <2>3 DEF NoThread, Delivery
    <3>. QED
      BY <2>1, <3>1, <3>2 DEF Reuse, DeliveryOK, Entered
  <2>. QED
    BY <2>2, <2>3
<1>3. TypeOK'
  BY <1>1, <1>2 DEF IInv, TypeOK, Reuse
<1>4. UNCHANGED <<callbackMap, reg, wrecked, regd>>
  BY DEF Reuse
<1>. QED
  BY <1>2, <1>3, <1>4, MapUnchanged DEF IInv, ThreadsInv

-----------------------------------------------------------------------------
(* LFMRegCallBack.                                                         *)

\* A call begins with the search: two that look for names not in the map meet.
LEMMA RegCallBackKeeps ==
    ASSUME IInv, NEW c \in Clients, NEW n \in Names, NEW f \in BOOLEAN,
           LFMRegCallBack(c, n, f)
    PROVE  IInv'
<1>0. PICK new \in {callbackMap[n] = Missing} \cup (IF Raced THEN {TRUE} ELSE {}) :
        /\ reg' = [reg EXCEPT ![c] = [at |-> IF new THEN "insert" ELSE "assign",
                                      name |-> n, function |-> f]]
        /\ wrecked' = (wrecked \/ (new /\ \E d \in Clients : Inserting(d)))
  BY DEF LFMRegCallBack
<1>. DEFINE r == [at |-> IF new THEN "insert" ELSE "assign", name |-> n, function |-> f]
<1>1. /\ reg' = [reg EXCEPT ![c] = r] /\ reg[c].at = "none"
      /\ wrecked' = (wrecked \/ (new /\ \E d \in Clients : Inserting(d)))
      /\ UNCHANGED <<text, callbackMap, thread, regd>>
  BY <1>0 DEF LFMRegCallBack
<1>2. r \in Underway /\ r.name = n /\ (new => r.at = "insert") /\ (~new => r.at = "assign")
  BY DEF Underway
<1>. HIDE DEF r
<1>3. reg' \in [Clients -> Underway \cup {NoReg}] /\ reg'[c] = r
      /\ \A d \in Clients \ {c} : reg'[d] = reg[d]
  BY <1>1, <1>2 DEF IInv, TypeOK
<1>4. TypeOK'
  BY <1>1, <1>3 DEF IInv, TypeOK
<1>5. CountInv'
  <2>1. c \notin Active /\ Active' = Active \cup {c}
    BY <1>1, <1>2, <1>3 DEF Active
  <2>2. Cardinality(Active') = Cardinality(Active) + 1
    BY <2>1, Bounds, FS_AddElement
  <2>3. Len(regd) + Cardinality(Active) < MaxRegs
    BY DEF LFMRegCallBack, Active
  <2>. QED
    BY <1>1, <2>2, <2>3, Bounds, BoundsAssumption DEF CountInv
<1>6. MapInv'
  <2>1. ASSUME NEW d \in Clients, reg'[d].at = "assign"
        PROVE  callbackMap[reg'[d].name] # Missing
    BY <1>2, <1>3, <2>1 DEF IInv, MapInv
  <2>0. ~wrecked' /\ new => callbackMap[n] = Missing
    BY <1>0 DEF Raced
  <2>2. ASSUME ~wrecked', NEW d \in Clients, Inserting(d)'
        PROVE  /\ callbackMap[reg'[d].name] = Missing
               /\ new => d = c
               /\ ~new => Inserting(d)
    BY <1>1, <1>2, <1>3, <2>0, <2>2 DEF IInv, MapInv, Inserting
  <2>3. ~wrecked' => ~wrecked
    BY <1>1
  <2>. QED
    BY <1>1, <2>1, <2>2, <2>3 DEF IInv, MapInv, Entered
<1>7. ThreadsInv'
  BY <1>1 DEF IInv, ThreadsInv, DeliveryOK, Entered
<1>. QED
  BY <1>4, <1>5, <1>6, <1>7 DEF IInv

\* What a client that is in the middle of its call has to do with the others.
LEMMA UnderwayIs ==
    ASSUME IInv, NEW c \in Clients, reg[c].at # "none"
    PROVE  /\ reg[c] \in Underway /\ reg[c].name \in Names
           /\ c \in Active
<1>1. reg[c] \in Underway
  BY DEF IInv, TypeOK, NoReg
<1>. QED
  BY <1>1 DEF Underway, Active

\* The node with a null function: unless insertions have met, its name had no
\* registration, so that no event that was posted after one is misled.
LEMMA InsertKeeps ==
    ASSUME IInv, NEW c \in Clients, Insert(c)
    PROVE  IInv'
<1>. DEFINE n == reg[c].name
<1>1. /\ reg[c].at = "insert"
      /\ callbackMap' = [callbackMap EXCEPT ![n] = Null]
      /\ reg' = [reg EXCEPT ![c].at = "assign"]
      /\ UNCHANGED <<text, wrecked, thread, regd>>
  BY DEF Insert, Inserting
<1>2. reg[c] \in Underway /\ n \in Names
  BY <1>1, UnderwayIs
<1>3. /\ callbackMap'[n] = Null
      /\ \A m \in Names \ {n} : callbackMap'[m] = callbackMap[m]
      /\ callbackMap' \in [Names -> 0..Missing]
  BY <1>1, <1>2, BoundsAssumption DEF IInv, TypeOK, Null, Missing
<1>4. /\ reg'[c] \in Underway /\ reg'[c].at = "assign" /\ reg'[c].name = n
      /\ \A d \in Clients \ {c} : reg'[d] = reg[d]
      /\ reg' \in [Clients -> Underway \cup {NoReg}]
  <2>1. [reg[c] EXCEPT !.at = "assign"] \in Underway
    BY <1>2 DEF Underway
  <2>2. reg'[c] = [reg[c] EXCEPT !.at = "assign"]
    BY <1>1 DEF IInv, TypeOK
  <2>3. reg'[c].at = "assign" /\ reg'[c].name = n
    BY <1>2, <2>2 DEF Underway
  <2>. QED
    BY <1>1, <2>1, <2>2, <2>3 DEF IInv, TypeOK
<1>5. TypeOK'
  BY <1>1, <1>3, <1>4 DEF IInv, TypeOK
<1>6. CountInv'
  <2>1. Active' = Active
    BY <1>1, <1>4 DEF Active
  <2>. QED
    BY <1>1, <2>1 DEF IInv, CountInv
<1>7. Null # Missing /\ Null \notin DOMAIN regd
  BY Bounds, BoundsAssumption DEF Null, Missing
<1>8. ~wrecked => ~Entered(n)
  BY <1>1, Bounds DEF IInv, MapInv, Inserting, Entered
<1>. HIDE DEF n
<1>9. \A m \in Names : Entered(m)' <=> Entered(m) /\ m # n
  BY <1>1, <1>3, <1>7 DEF Entered
<1>10. MapInv'
  <2>1. \A m \in Names : Entered(m)' => regd'[callbackMap'[m]].name = m
    BY <1>1, <1>3, <1>9 DEF IInv, MapInv
  <2>2. \A m \in Names : callbackMap'[m] \in {Missing, Null} \/ Entered(m)'
    BY <1>3, <1>9 DEF IInv, MapInv
  <2>3. ASSUME NEW d \in Clients, reg'[d].at = "assign"
        PROVE  callbackMap'[reg'[d].name] # Missing
    <3>1. reg'[d].name \in Names /\ (d # c => reg[d].at = "assign" /\ reg'[d].name = reg[d].name)
      BY <1>4, <2>3, UnderwayIs DEF Underway
    <3>. QED
      BY <1>3, <1>4, <1>7, <3>1 DEF IInv, MapInv
  <2>4. ASSUME ~wrecked', NEW d \in Clients
        PROVE  ~Inserting(d)'
    BY <1>1, <1>4, <2>4 DEF IInv, MapInv, Inserting
  <2>5. ASSUME ~wrecked', NEW r \in DOMAIN regd
        PROVE  Entered(regd[r].name)' /\ r <= callbackMap'[regd[r].name]
    <3>1. regd[r].name \in Names /\ Entered(regd[r].name) /\ r <= callbackMap[regd[r].name]
      BY <1>1, <2>5, RegistrationIs DEF IInv, MapInv
    <3>2. regd[r].name # n
      BY <1>1, <1>8, <2>5, <3>1
    <3>. QED
      BY <1>1, <1>3, <1>9, <3>1, <3>2 DEF Entered
  <2>. QED
    BY <1>1, <2>1, <2>2, <2>3, <2>4, <2>5 DEF MapInv, Entered
<1>11. ThreadsInv'
  <2>. SUFFICES ASSUME NEW e \in Events PROVE DeliveryOK(thread[e])'
    BY DEF ThreadsInv
  <2>1. DeliveryOK(thread[e])
    BY DEF IInv, ThreadsInv
  <2>2. thread[e].at = "new" => thread[e].name \in Names
    BY DEF IInv, TypeOK, Delivery, NoThread
  <2>. QED
    BY <1>1, <1>3, <1>8, <1>9, <2>1, <2>2 DEF DeliveryOK
<1>. QED
  BY <1>5, <1>6, <1>10, <1>11 DEF IInv

\* The function is stored: the entry is the registration just finished, which
\* comes after every other one.
LEMMA AssignKeeps ==
    ASSUME IInv, NEW c \in Clients, Assign(c)
    PROVE  IInv' /\ Len(regd) + 1 # Missing
<1>a. PICK n : n = reg[c].name
  OBVIOUS
<1>b. PICK k : k = Len(regd) + 1
  OBVIOUS
<1>c. PICK new : new = [name |-> n, function |-> reg[c].function]
  OBVIOUS
<1>1. /\ reg[c].at = "assign"
      /\ regd' = Append(regd, new)
      /\ callbackMap' = [callbackMap EXCEPT ![n] = k]
      /\ reg' = [reg EXCEPT ![c] = NoReg]
      /\ UNCHANGED <<text, wrecked, thread>>
  BY <1>a, <1>b, <1>c DEF Assign
<1>2. reg[c] \in Underway /\ n \in Names /\ c \in Active
  BY <1>a, <1>1, UnderwayIs
<1>3. new \in Registration /\ new.name = n
  BY <1>a, <1>c, <1>2 DEF Underway, Registration
<1>4. k \in Nat \ {0} /\ k <= MaxRegs
  <2>1. Cardinality(Active) # 0
    BY <1>2, Bounds, FS_EmptySet
  <2>. QED
    BY <1>b, <2>1, Bounds, BoundsAssumption DEF IInv, CountInv
<1>5. k # Missing /\ k # Null /\ k \in 0..Missing
  BY <1>4, BoundsAssumption DEF Missing, Null
<1>6. /\ regd' \in Seq(Registration) /\ Len(regd') = k
      /\ DOMAIN regd' = 1..k
      /\ regd'[k] = new
      /\ \A r \in DOMAIN regd : r \in DOMAIN regd' /\ r < k /\ regd'[r] = regd[r]
      /\ \A r \in DOMAIN regd' : r = k \/ r \in DOMAIN regd
  <2>1. regd \in Seq(Registration)
    BY DEF IInv, TypeOK
  <2>. QED
    BY <1>b, <1>1, <1>3, <2>1
<1>7. /\ callbackMap'[n] = k
      /\ \A m \in Names \ {n} : callbackMap'[m] = callbackMap[m]
      /\ callbackMap' \in [Names -> 0..Missing]
  BY <1>1, <1>2, <1>5 DEF IInv, TypeOK
<1>8. /\ reg'[c] = NoReg
      /\ \A d \in Clients \ {c} : reg'[d] = reg[d]
      /\ reg' \in [Clients -> Underway \cup {NoReg}]
  BY <1>1 DEF IInv, TypeOK
<1>9. TypeOK'
  BY <1>1, <1>6, <1>7, <1>8 DEF IInv, TypeOK
<1>10. CountInv'
  <2>1. Active' = Active \ {c}
    BY <1>8 DEF Active, NoReg
  <2>2. Cardinality(Active') = Cardinality(Active) - 1
    BY <1>2, <2>1, Bounds, FS_RemoveElement
  <2>. QED
    BY <1>b, <1>6, <2>2, Bounds, BoundsAssumption DEF IInv, CountInv
<1>11. Entered(n)' /\ \A m \in Names \ {n} : Entered(m) => Entered(m)'
  BY <1>4, <1>6, <1>7 DEF Entered
<1>12. \A m \in Names \ {n} : Entered(m)' => Entered(m)
  <2>. SUFFICES ASSUME NEW m \in Names \ {n}, Entered(m)' PROVE Entered(m)
    OBVIOUS
  <2>1. callbackMap[m] \in {Missing, Null} \/ Entered(m)
    BY DEF IInv, MapInv
  <2>2. callbackMap'[m] = callbackMap[m] /\ callbackMap[m] \in 1..k
    BY <1>6, <1>7 DEF Entered
  <2>3. Missing \notin 1..k /\ Null \notin 1..k
    BY <1>4, BoundsAssumption DEF Missing, Null
  <2>. QED
    BY <2>1, <2>2, <2>3
<1>13. MapInv'
  <2>1. ASSUME NEW m \in Names, Entered(m)'
        PROVE  regd'[callbackMap'[m]].name = m
    <3>1. CASE m = n
      BY <1>3, <1>6, <1>7, <3>1
    <3>2. CASE m # n
      <4>1. Entered(m) /\ regd[callbackMap[m]].name = m /\ callbackMap'[m] = callbackMap[m]
        BY <1>7, <1>12, <2>1, <3>2 DEF IInv, MapInv
      <4>. QED
        BY <1>6, <4>1 DEF Entered
    <3>. QED
      BY <3>1, <3>2
  <2>2. ASSUME NEW m \in Names
        PROVE  callbackMap'[m] \in {Missing, Null} \/ Entered(m)'
    BY <1>7, <1>11 DEF IInv, MapInv
  <2>3. ASSUME NEW d \in Clients, reg'[d].at # "none"
        PROVE  reg'[d] = reg[d] /\ reg[d].name \in Names
    BY <1>8, <2>3, UnderwayIs DEF NoReg
  <2>4. ASSUME NEW d \in Clients, reg'[d].at = "assign"
        PROVE  callbackMap'[reg'[d].name] # Missing
    BY <1>5, <1>7, <2>3, <2>4 DEF IInv, MapInv
  <2>5. ASSUME ~wrecked', NEW d \in Clients, Inserting(d)'
        PROVE  callbackMap'[reg'[d].name] = Missing /\ Inserting(d)
    <3>1. reg'[d] = reg[d] /\ reg[d].name \in Names /\ Inserting(d)
      BY <2>3, <2>5 DEF Inserting
    <3>2. callbackMap[reg[d].name] = Missing
      BY <1>1, <2>5, <3>1 DEF IInv, MapInv
    <3>3. callbackMap[n] # Missing
      BY <1>a, <1>1 DEF IInv, MapInv
    <3>. QED
      BY <1>7, <3>1, <3>2, <3>3
  <2>6. ASSUME ~wrecked', NEW r \in DOMAIN regd'
        PROVE  callbackMap'[regd'[r].name] \in DOMAIN regd' /\ r <= callbackMap'[regd'[r].name]
    <3>1. CASE regd'[r].name = n
      BY <1>4, <1>6, <1>7, <3>1
    <3>2. CASE regd'[r].name # n
      <4>1. r \in DOMAIN regd /\ regd'[r] = regd[r]
        BY <1>3, <1>6, <3>2
      <4>2. regd[r].name \in Names
        BY <4>1, RegistrationIs
      <4>3. Entered(regd[r].name) /\ r <= callbackMap[regd[r].name]
        BY <1>1, <2>6, <4>1 DEF IInv, MapInv
      <4>. QED
        BY <1>6, <1>7, <3>2, <4>1, <4>2, <4>3 DEF Entered
    <3>. QED
      BY <3>1, <3>2
  <2>. QED
    BY <1>1, <2>1, <2>2, <2>4, <2>5, <2>6 DEF IInv, MapInv, Entered
<1>14. ThreadsInv'
  <2>. SUFFICES ASSUME NEW e \in Events PROVE DeliveryOK(thread[e])'
    BY DEF ThreadsInv
  <2>0. PICK d : d = thread[e]
    OBVIOUS
  <2>1. DeliveryOK(d)
    BY <2>0 DEF IInv, ThreadsInv
  <2>2. d.at = "new" => d.name \in Names /\ d.floor \in Nat
    BY <2>0 DEF IInv, TypeOK, Delivery, NoThread
  <2>3. d = thread'[e]
    BY <1>1, <2>0
  <2>4. ASSUME d.at = "new", ~wrecked, d.floor # 0
        PROVE  Entered(d.name)' /\ d.floor <= callbackMap'[d.name]
    <3>1. Entered(d.name) /\ d.floor <= callbackMap[d.name]
      BY <2>1, <2>4 DEF DeliveryOK
    <3>2. CASE d.name = n
      <4>1. callbackMap[n] < k /\ callbackMap[n] \in Nat
        BY <1>6, <3>1, <3>2, Bounds DEF Entered
      <4>. QED
        BY <1>4, <1>7, <1>11, <2>2, <2>4, <3>1, <3>2, <4>1
    <3>3. CASE d.name # n
      BY <1>7, <1>11, <2>2, <2>4, <3>1, <3>3
    <3>. QED
      BY <3>2, <3>3
  <2>5. ASSUME d.callback \in DOMAIN regd
        PROVE  d.callback \in DOMAIN regd' /\ regd'[d.callback] = regd[d.callback]
    BY <1>6, <2>5
  <2>6. DeliveryOK(d)'
    BY <1>1, <2>1, <2>4, <2>5 DEF DeliveryOK
  <2>. QED
    BY <2>3, <2>6 DEF DeliveryOK, Entered
<1>. QED
  BY <1>b, <1>5, <1>9, <1>10, <1>13, <1>14 DEF IInv

-----------------------------------------------------------------------------
(* LFMPostMessage and its thread.                                          *)

\* An event that is posted starts from the last registration of its name.
LEMMA PostMessageKeeps ==
    ASSUME IInv, NEW e \in Events, NEW b \in Buffers, LFMPostMessage(e, b)
    PROVE  IInv'
<1>1. PICK n \in Names : n = text[b]
  BY DEF IInv, TypeOK
<1>2. PICK d : d = [at |-> "new", buf |-> b, name |-> n, floor |-> Latest(n),
                    intact |-> TRUE, raced |-> FALSE, wanted |-> FALSE, callback |-> Missing]
  OBVIOUS
<1>3. thread' = [thread EXCEPT ![e] = d] /\ UNCHANGED <<text, callbackMap, reg, wrecked, regd>>
  BY <1>1, <1>2 DEF LFMPostMessage
<1>4. Latest(n) \in Nat /\ Missing \in 0..Missing
  BY LatestIs, BoundsAssumption DEF Missing
<1>5. d \in Delivery
  BY <1>2, <1>4 DEF Delivery
<1>6. d.at = "new" /\ d.buf = b /\ d.name = n /\ d.floor = Latest(n)
  BY <1>2
<1>7. ~wrecked /\ Latest(n) # 0 => Entered(n) /\ Latest(n) <= callbackMap[n]
  BY <1>4, LatestIsEntry
<1>8. DeliveryOK(d)
  BY <1>1, <1>6, <1>7 DEF DeliveryOK
<1>. QED
  BY <1>3, <1>5, <1>8, OneThread

\* An undisturbed search finds the entry of the name in the buffer, which is
\* the last registration of that name.
LEMMA FindKeeps ==
    ASSUME IInv, NEW e \in Events, Find(e)
    PROVE  IInv'
<1>1. PICK d : d = thread[e]
  OBVIOUS
<1>2. d \in Delivery /\ d.at = "new" /\ DeliveryOK(d)
  BY <1>1 DEF Find, IInv, TypeOK, ThreadsInv, NoThread
<1>3. PICK n \in Names : n = text[d.buf]
  BY <1>2 DEF IInv, TypeOK, Delivery
<1>4. PICK r \in Outcomes(n) :
        thread' = [thread EXCEPT
                     ![e].at = IF r \notin {Missing, Null} /\ regd[r].function
                                 THEN "found" ELSE "dropped",
                     ![e].callback = r, ![e].raced = Raced, ![e].wanted = Wanted(n)]
  BY <1>1, <1>3 DEF Find
<1>5. UNCHANGED <<text, callbackMap, reg, wrecked, regd>>
  BY DEF Find
<1>6. PICK at : at = IF r \notin {Missing, Null} /\ regd[r].function THEN "found" ELSE "dropped"
  OBVIOUS
<1>7. PICK x : x = [d EXCEPT !.at = at, !.callback = r, !.raced = Raced, !.wanted = Wanted(n)]
  OBVIOUS
<1>8. thread' = [thread EXCEPT ![e] = x]
  BY <1>1, <1>4, <1>6, <1>7 DEF IInv, TypeOK
<1>9. r \in 0..Missing
  <2>1. callbackMap[n] \in 0..Missing /\ Missing \in 0..Missing
    BY BoundsAssumption DEF IInv, TypeOK, Missing
  <2>2. \A s \in DOMAIN regd : s \in 0..Missing
    BY Bounds, BoundsAssumption DEF Missing
  <2>. QED
    BY <2>1, <2>2 DEF Outcomes
<1>10. Raced \in BOOLEAN /\ Wanted(n) \in BOOLEAN
  <2>1. Raced \in BOOLEAN
    BY DEF Raced, IInv, TypeOK
  <2>2. Wanted(n) \in BOOLEAN
    BY DEF Wanted
  <2>. QED
    BY <2>1, <2>2
<1>. HIDE DEF Raced, Wanted
<1>11. /\ x \in Delivery /\ x.at = at /\ x.callback = r
       /\ x.name = d.name /\ x.buf = d.buf /\ x.floor = d.floor /\ x.intact = d.intact
  BY <1>2, <1>6, <1>7, <1>9, <1>10 DEF Delivery
<1>12. x.raced = Raced /\ x.wanted = Wanted(n)
  BY <1>2, <1>7 DEF Delivery
<1>13. x.intact => n = x.name
  BY <1>2, <1>3, <1>11 DEF DeliveryOK
<1>14. ASSUME ~Raced
       PROVE  ~wrecked /\ r = callbackMap[n]
  BY <1>14 DEF Raced, Outcomes
<1>15. ASSUME ~wrecked, at = "found"
       PROVE  /\ r \in DOMAIN regd /\ regd[r].name = n /\ regd[r].function
              /\ x.intact => r >= x.floor
  <2>0. r \notin {Missing, Null} /\ regd[r].function
    BY <1>6, <1>15
  <2>1. r = callbackMap[n] /\ r \notin {Missing, Null} /\ regd[r].function
    BY <1>15, <2>0 DEF Outcomes
  <2>2. Entered(n) /\ regd[r].name = n /\ r \in DOMAIN regd
    BY <2>1 DEF IInv, MapInv, Entered
  <2>3. x.intact => (x.floor # 0 => x.floor <= r)
    BY <1>2, <1>11, <1>13, <1>15, <2>1 DEF DeliveryOK
  <2>4. x.floor \in Nat /\ r \in Nat
    BY <1>9, <1>11 DEF Delivery
  <2>. QED
    BY <2>1, <2>2, <2>3, <2>4
<1>16. ASSUME ~Raced, at = "dropped"
       PROVE  ~Wanted(n)
  <2>1. ~wrecked /\ r = callbackMap[n] /\ (r \in {Missing, Null} \/ ~regd[r].function)
    BY <1>6, <1>14, <1>16
  <2>2. CASE Entered(n)
    <3>1. Latest(n) = r /\ r \notin {Missing, Null}
      BY <2>1, <2>2, LatestIsEntry, Bounds DEF Entered
    <3>. QED
      BY <2>1, <3>1 DEF Wanted
  <2>3. CASE ~Entered(n)
    BY <2>1, <2>3, LatestIsEntry DEF Wanted
  <2>. QED
    BY <2>2, <2>3
<1>17. at \in {"found", "dropped"}
  BY <1>6
<1>18. DeliveryOK(x)
  <2>1. x.at \in {"new", "found"} /\ x.intact => text[x.buf] = x.name
    BY <1>3, <1>11, <1>13
  <2>2. ~(x.at = "new")
    BY <1>11, <1>17
  <2>3. x.at \in {"found", "called"} /\ x.intact /\ ~(x.raced /\ wrecked) =>
           /\ x.callback \in DOMAIN regd
           /\ regd[x.callback].name = x.name /\ regd[x.callback].function
           /\ x.callback >= x.floor
    BY <1>11, <1>12, <1>13, <1>14, <1>15, <1>17
  <2>4. x.at = "dropped" /\ ~x.raced => ~x.wanted
    BY <1>11, <1>12, <1>16
  <2>. QED
    BY <2>1, <2>2, <2>3, <2>4 DEF DeliveryOK
<1>. QED
  BY <1>5, <1>8, <1>11, <1>18, OneThread

\* The callback runs with the name it was found under.
LEMMA CallKeeps ==
    ASSUME IInv, NEW e \in Events, Call(e)
    PROVE  IInv'
<1>1. PICK d : d = thread[e]
  OBVIOUS
<1>2. d \in Delivery /\ d.at = "found" /\ DeliveryOK(d)
  BY <1>1 DEF Call, IInv, TypeOK, ThreadsInv, NoThread
<1>3. PICK n \in Names : n = text[d.buf]
  BY <1>2 DEF IInv, TypeOK, Delivery
<1>4. PICK x : x = [d EXCEPT !.at = "called", !.name = n]
  OBVIOUS
<1>5. thread' = [thread EXCEPT ![e] = x] /\ UNCHANGED <<text, callbackMap, reg, wrecked, regd>>
  BY <1>1, <1>3, <1>4 DEF Call, IInv, TypeOK
<1>6. /\ x \in Delivery /\ x.at = "called" /\ x.name = n
      /\ x.intact = d.intact /\ x.raced = d.raced /\ x.callback = d.callback /\ x.floor = d.floor
  BY <1>2, <1>4 DEF Delivery
<1>7. d.intact => n = d.name
  BY <1>2, <1>3 DEF DeliveryOK
<1>8. DeliveryOK(x)
  BY <1>2, <1>6, <1>7 DEF DeliveryOK
<1>. QED
  BY <1>5, <1>6, <1>8, OneThread

-----------------------------------------------------------------------------

\* Every step keeps the invariant.
LEMMA NextIInv == IInv /\ [Next]_vars => IInv'
<1>. SUFFICES ASSUME IInv, [Next]_vars PROVE IInv'
  OBVIOUS
<1>1. CASE LFSStartUp \/ LFSCleanUp \/ Crash
  BY <1>1, SessionKeeps DEF LFSStartUp, LFSCleanUp, Crash
<1>2. ASSUME NEW n \in Names, LFMUnRegCallBack(n)
      PROVE  IInv'
  BY <1>2, SessionKeeps DEF LFMUnRegCallBack, vars
<1>3. CASE UNCHANGED vars
  BY <1>3, SessionKeeps DEF vars
<1>4. ASSUME NEW e \in Events, Find(e) \/ Call(e)
      PROVE  IInv'
  BY <1>4, FindKeeps, CallKeeps
<1>5. ASSUME NEW c \in Clients, Insert(c) \/ Assign(c)
      PROVE  IInv'
  BY <1>5, InsertKeeps, AssignKeeps
<1>. QED
  BY <1>1, <1>2, <1>3, <1>4, <1>5, ReuseKeeps, RegCallBackKeeps, PostMessageKeeps DEF Next

\* As long as its caller leaves the buffer alone, and unless insertions have met
\* and disturbed its search, an event goes to a function registered for its name
\* and not replaced before LFMPostMessage was called; an event whose search was
\* not disturbed is dropped only when nobody wants it: its name was never
\* registered, last registered with a null function, or unregistered since.  For
\* any number of clients, names and events, across any number of sessions.
THEOREM CallbacksDeliver == Spec => [](LatestCallback /\ OnlyUnwantedDropped)
<1>1. IInv => LatestCallback /\ OnlyUnwantedDropped
  BY DEF IInv, ThreadsInv, DeliveryOK, LatestCallback, OnlyUnwantedDropped
<1>. QED
  BY <1>1, InitIInv, NextIInv, PTL DEF Spec
=============================================================================
