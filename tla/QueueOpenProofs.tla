-------------------------- MODULE QueueOpenProofs --------------------------
(***************************************************************************)
(* Proofs about module QueueOpen: CMessageQueue's constructor in any       *)
(* number of processes, with any sizes, whichever processes die.           *)
(*                                                                         *)
(* SegmentInv holds whatever is interrupted: a process only goes on with a *)
(* segment that is large enough for it.  SectionInv explains sem while     *)
(* nobody has been disturbed: whoever has it is alone and named in the     *)
(* word, any number of processes may claim it when nobody has it, and the  *)
(* last to write its id gets it; so the creator clears a size nobody has   *)
(* noted yet, and the size that was noted is that of every process         *)
(* attached.                                                               *)
(***************************************************************************)
EXTENDS QueueOpen, TLAPS

Places == {"new", "zeroWord", "try", "own", "timedout", "claim", "confirm", "get", "zero",
           "check", "post", "refuse", "ready", "exit", "dead"}

TypeOK ==
    /\ want \in [Procs -> Sizes]
    /\ loc \in [Procs -> Places]
    /\ val \in Nat /\ bytes \in Nat /\ size \in Nat
    /\ disturbed \in BOOLEAN

SegmentInv ==
    /\ size <= bytes
    /\ \A p \in Procs : loc[p] \in {"zero", "check", "post", "ready"} => want[p] <= bytes

\* The process has the token of sem.
Holds(p) == loc[p] \in {"own", "get", "zero", "check", "post", "refuse"}

\* The process may still take sem over.
Claims(p) == loc[p] = "claim" \/ (loc[p] = "confirm" /\ tid = p)

SectionInv ==
    ~disturbed =>
        /\ val \in {0, 1}
        /\ \A p \in Procs : Holds(p) \/ Claims(p) => val = 0
        /\ \A p, q \in Procs : Holds(p) /\ (Holds(q) \/ Claims(q)) => p = q
        /\ \A p \in Inside : tid = p
        /\ \A p \in Procs : loc[p] = "zero" => size = 0
        /\ \A p \in Procs : loc[p] \in {"post", "ready"} => want[p] = size

IInv == TypeOK /\ SegmentInv /\ SectionInv

\* Nothing exists and nobody has begun.
LEMMA InitIInv == Init => IInv
<1>. SUFFICES ASSUME Init PROVE IInv
  OBVIOUS
<1>. USE DEF Init
<1>1. TypeOK
  BY DEF TypeOK, Places
<1>2. SegmentInv /\ SectionInv
  BY DEF SegmentInv, SectionInv, Holds, Claims, Inside
<1>. QED
  BY <1>1, <1>2 DEF IInv

\* The other processes stay where they are.
LEMMA Others ==
    ASSUME IInv, NEW p \in Procs, NEW l \in Places, Goto(p, l)
    PROVE  /\ loc' \in [Procs -> Places] /\ loc'[p] = l
           /\ \A q \in Procs \ {p} : loc'[q] = loc[q]
  BY DEF IInv, TypeOK, Goto

\* A step that leaves the ring and the token alone keeps the invariant when nobody
\* holds or claims sem that did not before, and whoever is inside stays named.
LEMMA QuietIInv ==
    ASSUME IInv, NEW p \in Procs, NEW l \in Places, Goto(p, l),
           UNCHANGED <<want, val, ring>>, disturbed' \in BOOLEAN, disturbed => disturbed',
           l \notin {"zero", "check", "post", "ready"},
           ~disturbed' => /\ Holds(p)' => Holds(p)
                          /\ \A q \in Procs : Claims(q)' => Claims(q)
                          /\ \A q \in Inside' : tid' = q
    PROVE  IInv'
<1>1. /\ loc' \in [Procs -> Places] /\ loc'[p] = l
      /\ \A q \in Procs \ {p} : loc'[q] = loc[q]
  BY Others
<1>2. TypeOK'
  BY <1>1 DEF IInv, TypeOK, ring
<1>3. SegmentInv'
  BY <1>1 DEF IInv, SegmentInv, ring
<1>4. ~disturbed' => \A q \in Procs : Holds(q)' => Holds(q)
  BY <1>1 DEF Holds
<1>5. SectionInv'
  BY <1>1, <1>4 DEF IInv, SectionInv, ring
<1>. QED
  BY <1>2, <1>3, <1>5 DEF IInv

\* sem is taken when its token is there.
LEMMA AcquireIInv == ASSUME IInv, NEW p \in Procs, Acquire(p) PROVE IInv'
<1>1. /\ loc' \in [Procs -> Places] /\ loc'[p] = "own"
      /\ \A q \in Procs \ {p} : loc'[q] = loc[q]
  BY Others DEF Acquire, Places
<1>2. /\ loc[p] = "try" /\ UNCHANGED <<want, tid, bytes, size, disturbed>>
      /\ val > 0 /\ val' = val - 1 /\ val' \in Nat
  BY DEF Acquire, At, ring, word, IInv, TypeOK
<1>3. TypeOK' /\ SegmentInv'
  BY <1>1, <1>2 DEF IInv, TypeOK, SegmentInv
<1>4. ASSUME ~disturbed PROVE val' = 0 /\ \A q \in Procs : ~Holds(q) /\ ~Claims(q)
  BY <1>2, <1>4 DEF IInv, SectionInv
<1>5. \A q \in Procs \ {p} : (Holds(q)' => Holds(q)) /\ (Claims(q)' => Claims(q))
  BY <1>1, <1>2 DEF Holds, Claims
<1>6. ~Claims(p)' /\ Inside' = Inside
  BY <1>1, <1>2 DEF Claims, Inside
<1>7. SectionInv'
  BY <1>1, <1>2, <1>4, <1>5, <1>6 DEF IInv, SectionInv
<1>. QED
  BY <1>3, <1>7 DEF IInv

\* The owner writes its id; nobody claims what it has.
LEMMA OwnIInv == ASSUME IInv, NEW p \in Procs, Own(p) PROVE IInv'
<1>1. /\ loc' \in [Procs -> Places] /\ loc'[p] = "get"
      /\ \A q \in Procs \ {p} : loc'[q] = loc[q]
  BY Others DEF Own, Places
<1>2. loc[p] = "own" /\ Holds(p) /\ tid' = p /\ UNCHANGED <<want, val, ring, disturbed>>
  BY DEF Own, At, Holds
<1>3. \A q \in Procs : Claims(q)' => Claims(q)
  BY <1>1, <1>2 DEF Claims
<1>4. ASSUME ~disturbed PROVE \A q \in Inside' : q = p
  <2>1. \A q \in Inside : Holds(q)
    BY DEF Inside, Holds
  <2>2. Inside' = Inside \cup {p}
    BY <1>1 DEF Inside
  <2>. QED  BY <1>2, <1>4, <2>1, <2>2 DEF IInv, SectionInv, Inside
<1>. QED
  BY <1>2, <1>3, <1>4, QuietIInv DEF Own, Places, IInv, TypeOK

\* Whoever finds the process named in the word gone has found nobody with sem:
\* one inside would be named, one that has not written its id yet is ruled out
\* by a timely query.
LEMMA QueryIInv == ASSUME IInv, NEW p \in Procs, Query(p) PROVE IInv'
<1>1. PICK l \in {"try", "claim"} :
        /\ Goto(p, l)
        /\ l = "claim" => ~Exists(tid) /\ val = 0 /\ ~Rival(p, "own")
  BY DEF Query
<1>2. /\ loc' \in [Procs -> Places] /\ loc'[p] = l
      /\ \A q \in Procs \ {p} : loc'[q] = loc[q]
  BY <1>1, Others DEF Places
<1>3. loc[p] = "timedout" /\ UNCHANGED <<want, val, tid, bytes, size, disturbed>>
  BY DEF Query, At, ring, word
<1>4. TypeOK' /\ SegmentInv'
  BY <1>1, <1>2, <1>3 DEF IInv, TypeOK, SegmentInv
<1>5. ASSUME ~disturbed, l = "claim", NEW q \in Procs PROVE ~Holds(q)
  <2>1. q # NoProc
    BY ProcsAssumption
  <2>2. q \notin Inside
    BY <1>1, <1>5, <2>1 DEF IInv, SectionInv, Inside, Exists
  <2>3. loc[q] # "own"
    BY <1>1, <1>3, <1>5 DEF Rival, At
  <2>. QED  BY <2>2, <2>3 DEF Inside, Holds
<1>6. /\ ~Holds(p)' /\ Inside' = Inside
      /\ \A q \in Procs \ {p} : (Holds(q)' => Holds(q)) /\ (Claims(q)' => Claims(q))
  BY <1>1, <1>2, <1>3 DEF Holds, Claims, Inside
<1>7. l = "try" => ~Claims(p)'
  BY <1>2 DEF Claims
<1>8. SectionInv'
  BY <1>1, <1>2, <1>3, <1>5, <1>6, <1>7 DEF IInv, SectionInv
<1>. QED
  BY <1>4, <1>8 DEF IInv

\* A claimer overwrites the id of another claimer, never that of a process
\* inside.
LEMMA ClaimIInv == ASSUME IInv, NEW p \in Procs, Claim(p) PROVE IInv'
<1>1. /\ loc' \in [Procs -> Places] /\ loc'[p] = "confirm"
      /\ \A q \in Procs \ {p} : loc'[q] = loc[q]
  BY Others DEF Claim, Places
<1>2. loc[p] = "claim" /\ Claims(p) /\ tid' = p /\ UNCHANGED <<want, val, ring, disturbed>>
  BY DEF Claim, At, Claims
<1>3. \A q \in Procs : Claims(q)' => Claims(q)
  BY <1>1, <1>2 DEF Claims
<1>4. ~Holds(p)' /\ Inside' = Inside
  BY <1>1, <1>2 DEF Holds, Inside
<1>5. ASSUME ~disturbed PROVE Inside = {}
  <2>1. \A q \in Inside : q \in Procs /\ Holds(q) /\ q # p
    BY <1>2 DEF Inside, Holds
  <2>. QED  BY <1>2, <1>5, <2>1 DEF IInv, SectionInv
<1>. QED
  BY <1>2, <1>3, <1>4, <1>5, QuietIInv DEF Claim, Places, IInv, TypeOK

\* The claimer whose id is still in the word has no rival left.
LEMMA ConfirmIInv == ASSUME IInv, NEW p \in Procs, Confirm(p) PROVE IInv'
<1>1. PICK l \in {"get", "try"} : Goto(p, l) /\ (l = "get" <=> tid = p)
  BY DEF Confirm
<1>2. /\ loc' \in [Procs -> Places] /\ loc'[p] = l
      /\ \A q \in Procs \ {p} : loc'[q] = loc[q]
  BY <1>1, Others DEF Places
<1>3. /\ loc[p] = "confirm" /\ ~Rival(p, "claim")
      /\ UNCHANGED <<want, val, tid, bytes, size, disturbed>>
  BY DEF Confirm, At, ring, word
<1>4. TypeOK' /\ SegmentInv'
  BY <1>1, <1>2, <1>3 DEF IInv, TypeOK, SegmentInv
<1>5. ~Claims(p)' /\ ~Holds(p)
  BY <1>1, <1>2, <1>3 DEF Claims, Holds
<1>6. \A q \in Procs \ {p} : (Holds(q)' => Holds(q)) /\ (Claims(q)' => Claims(q))
  BY <1>2, <1>3 DEF Holds, Claims
<1>7. CASE l = "try"
  <2>1. ~Holds(p)' /\ Inside' = Inside
    BY <1>2, <1>3, <1>7 DEF Holds, Inside
  <2>2. SectionInv'
    BY <1>2, <1>3, <1>5, <1>6, <1>7, <2>1 DEF IInv, SectionInv
  <2>. QED  BY <1>4, <2>2 DEF IInv
<1>8. CASE l = "get"
  <2>1. Claims(p) /\ tid = p
    BY <1>1, <1>3, <1>8 DEF Claims
  <2>2. \A q \in Procs \ {p} : ~Claims(q)
    BY <1>3, <2>1 DEF Claims, Rival, At
  <2>3. ASSUME ~disturbed PROVE val = 0 /\ \A q \in Procs : ~Holds(q)
    BY <1>5, <2>1, <2>3 DEF IInv, SectionInv
  <2>4. Inside' = Inside \cup {p}
    BY <1>2, <1>8 DEF Inside
  <2>5. \A q \in Inside : q \in Procs /\ Holds(q)
    BY DEF Inside, Holds
  <2>6. SectionInv'
    BY <1>2, <1>3, <1>5, <1>6, <1>8, <2>1, <2>2, <2>3, <2>4, <2>5 DEF IInv, SectionInv
  <2>. QED  BY <1>4, <2>6 DEF IInv
<1>. QED
  BY <1>7, <1>8

\* A wiped word disturbs whoever is inside, and nobody else.
LEMMA ZeroWordIInv == ASSUME IInv, NEW p \in Procs, ZeroWord(p) PROVE IInv'
<1>1. /\ loc' \in [Procs -> Places] /\ loc'[p] = "try"
      /\ \A q \in Procs \ {p} : loc'[q] = loc[q]
  BY Others DEF ZeroWord, Places
<1>2. /\ loc[p] = "zeroWord" /\ tid' = NoProc /\ UNCHANGED <<want, val, ring>>
      /\ disturbed' = (disturbed \/ tid \in Inside)
  BY DEF ZeroWord, At
<1>3. disturbed' \in BOOLEAN /\ (disturbed => disturbed') /\ (~disturbed' => ~disturbed /\ tid \notin Inside)
  BY <1>2
<1>4. Inside' = Inside /\ ~Holds(p)'
  BY <1>1, <1>2 DEF Inside, Holds
<1>5. ~disturbed' => Inside = {}
  BY <1>3 DEF IInv, SectionInv
<1>6. \A q \in Procs : Claims(q)' => Claims(q)
  BY <1>1, <1>2, ProcsAssumption DEF Claims
<1>. QED
  BY <1>2, <1>3, <1>4, <1>5, <1>6, QuietIInv DEF ZeroWord, Places

\* The first process creates the segment; a later one goes on only if it fits.
LEMMA GetIInv == ASSUME IInv, NEW p \in Procs, GetSegment(p) PROVE IInv'
<1>1. PICK l \in {"zero", "check", "dead"} :
        /\ Goto(p, l)
        /\ l # "dead" => want[p] <= bytes'
        /\ bytes' = (IF bytes = 0 THEN want[p] ELSE bytes)
        /\ l = "zero" => bytes = 0
  <2>0. want[p] \in Nat /\ bytes \in Nat
    BY SizesAssumption DEF IInv, TypeOK
  <2>1. CASE bytes = 0 /\ bytes' = want[p] /\ (Goto(p, "zero") \/ Goto(p, "check"))
    BY <2>0, <2>1
  <2>2. CASE bytes > 0 /\ Goto(p, IF bytes < want[p] THEN "dead" ELSE "check") /\ UNCHANGED bytes
    <3>1. CASE bytes < want[p]
      BY <2>0, <2>2, <3>1
    <3>2. CASE ~(bytes < want[p])
      BY <2>0, <2>2, <3>2
    <3>. QED  BY <3>1, <3>2
  <2>. QED  BY <2>1, <2>2 DEF GetSegment
<1>2. /\ loc' \in [Procs -> Places] /\ loc'[p] = l
      /\ \A q \in Procs \ {p} : loc'[q] = loc[q]
  BY <1>1, Others DEF Places
<1>3. loc[p] = "get" /\ UNCHANGED <<want, val, tid, size, disturbed>>
  BY DEF GetSegment, At, word
<1>4. \A q \in Procs : want[q] \in Nat \ {0}
  BY SizesAssumption DEF IInv, TypeOK
<1>5. TypeOK'
  BY <1>1, <1>2, <1>3, <1>4 DEF IInv, TypeOK
<1>6. SegmentInv'
  BY <1>1, <1>2, <1>3, <1>4 DEF IInv, TypeOK, SegmentInv
<1>7. /\ \A q \in Procs : (Holds(q)' => Holds(q)) /\ (Claims(q)' => Claims(q))
      /\ Inside' \subseteq Inside
  BY <1>1, <1>2, <1>3 DEF Holds, Claims, Inside
<1>8. l = "zero" => size = 0
  BY <1>1 DEF IInv, SegmentInv, TypeOK
<1>9. SectionInv'
  BY <1>1, <1>2, <1>3, <1>7, <1>8 DEF IInv, SectionInv
<1>. QED
  BY <1>5, <1>6, <1>9 DEF IInv

\* The creator clears a size nobody has noted.
LEMMA ZeroIInv == ASSUME IInv, NEW p \in Procs, ZeroSegment(p) PROVE IInv'
<1>1. /\ loc' \in [Procs -> Places] /\ loc'[p] = "check"
      /\ \A q \in Procs \ {p} : loc'[q] = loc[q]
  BY Others DEF ZeroSegment, Places
<1>2. loc[p] = "zero" /\ size' = 0 /\ UNCHANGED <<want, val, tid, bytes, disturbed>>
  BY DEF ZeroSegment, At, word
<1>3. TypeOK' /\ SegmentInv'
  BY <1>1, <1>2 DEF IInv, TypeOK, SegmentInv
<1>4. ~disturbed => size = 0
  BY <1>2 DEF IInv, SectionInv
<1>5. /\ \A q \in Procs : (Holds(q)' => Holds(q)) /\ (Claims(q)' => Claims(q))
      /\ Inside' \subseteq Inside
  BY <1>1, <1>2 DEF Holds, Claims, Inside
<1>6. SectionInv'
  BY <1>1, <1>2, <1>4, <1>5 DEF IInv, SectionInv
<1>. QED
  BY <1>3, <1>6 DEF IInv

\* The first size to be noted is the one all later processes must have.
LEMMA CheckIInv == ASSUME IInv, NEW p \in Procs, CheckSize(p) PROVE IInv'
<1>1. PICK l \in {"post", "refuse"} : Goto(p, l) /\ (l = "post" <=> size \in {0, want[p]})
  BY DEF CheckSize
<1>2. /\ loc' \in [Procs -> Places] /\ loc'[p] = l
      /\ \A q \in Procs \ {p} : loc'[q] = loc[q]
  BY <1>1, Others DEF Places
<1>3. /\ loc[p] = "check" /\ UNCHANGED <<want, val, tid, bytes, disturbed>>
      /\ size' = IF size = 0 THEN want[p] ELSE size
  BY DEF CheckSize, At, word
<1>4. \A q \in Procs : want[q] \in Nat \ {0}
  BY SizesAssumption DEF IInv, TypeOK
<1>5. TypeOK'
  BY <1>2, <1>3, <1>4 DEF IInv, TypeOK
<1>6. SegmentInv'
  BY <1>1, <1>2, <1>3 DEF IInv, SegmentInv
<1>7. /\ \A q \in Procs : (Holds(q)' => Holds(q)) /\ (Claims(q)' => Claims(q))
      /\ Inside' \subseteq Inside
  BY <1>1, <1>2, <1>3 DEF Holds, Claims, Inside
<1>8. SectionInv'
  <2>1. ~disturbed => \A q \in Procs \ {p} : loc[q] # "zero"
    BY <1>3 DEF IInv, SectionInv, Holds
  <2>2. l = "post" => size' = want[p]
    BY <1>1, <1>3
  <2>3. ~disturbed => \A q \in Procs : loc[q] \in {"post", "ready"} => size' = size
    BY <1>3, <1>4 DEF IInv, SectionInv
  <2>. QED  BY <1>1, <1>2, <1>3, <1>7, <2>1, <2>2, <2>3 DEF IInv, SectionInv
<1>. QED
  BY <1>5, <1>6, <1>8 DEF IInv

\* Post gives back the one token there is.
LEMMA PostIInv == ASSUME IInv, NEW p \in Procs, Finish(p) \/ Refuse(p) PROVE IInv'
<1>1. PICK l \in {"ready", "exit"} : Goto(p, l) /\ (l = "ready" => loc[p] = "post")
  BY DEF Finish, Refuse, At
<1>2. /\ loc' \in [Procs -> Places] /\ loc'[p] = l
      /\ \A q \in Procs \ {p} : loc'[q] = loc[q]
  BY <1>1, Others DEF Places
<1>3. Holds(p) /\ val' = val + 1 /\ UNCHANGED <<want, tid, bytes, size, disturbed>>
  BY DEF Finish, Refuse, Post, At, ring, word, Holds
<1>4. TypeOK' /\ SegmentInv'
  BY <1>1, <1>2, <1>3 DEF IInv, TypeOK, SegmentInv
<1>5. ~disturbed => val = 0 /\ \A q \in Procs \ {p} : ~Holds(q) /\ ~Claims(q)
  BY <1>3 DEF IInv, SectionInv
<1>6. /\ ~Holds(p)' /\ ~Claims(p)' /\ Inside' \subseteq Inside
      /\ \A q \in Procs \ {p} : (Holds(q)' => Holds(q)) /\ (Claims(q)' => Claims(q))
  BY <1>1, <1>2, <1>3 DEF Holds, Claims, Inside
<1>7. SectionInv'
  BY <1>1, <1>2, <1>3, <1>5, <1>6 DEF IInv, SectionInv
<1>. QED
  BY <1>4, <1>7 DEF IInv

\* An interrupted process enters without sem.
LEMMA InterruptIInv == ASSUME IInv, NEW p \in Procs, Interrupt(p) PROVE IInv'
<1>1. /\ loc' \in [Procs -> Places] /\ loc'[p] = "get"
      /\ \A q \in Procs \ {p} : loc'[q] = loc[q]
  BY Others DEF Interrupt, Places
<1>2. disturbed' = TRUE /\ UNCHANGED <<want, val, bytes, size>>
  BY DEF Interrupt, ring
<1>. QED
  BY <1>1, <1>2 DEF IInv, TypeOK, SegmentInv, SectionInv

\* Every step keeps the invariant.
LEMMA NextIInv == ASSUME IInv, [Next]_vars PROVE IInv'
<1>1. CASE UNCHANGED vars
  BY <1>1 DEF vars, ring, word, IInv, TypeOK, SegmentInv, SectionInv, Holds, Claims, Inside
<1>2. ASSUME NEW p \in Procs, OpenWord(p) \/ TimeOut(p) \/ Die(p) PROVE IInv'
  <2>1. PICK l \in {"zeroWord", "try", "timedout", "dead"} : Goto(p, l)
    BY <1>2 DEF OpenWord, TimeOut, Die
  <2>2. UNCHANGED <<want, val, tid, ring, disturbed>>
    BY <1>2 DEF OpenWord, TimeOut, Die, word
  <2>3. /\ loc' \in [Procs -> Places] /\ loc'[p] = l
        /\ \A q \in Procs \ {p} : loc'[q] = loc[q]
    BY <2>1, Others DEF Places
  <2>4. /\ ~Holds(p)' /\ Inside' \subseteq Inside
        /\ \A q \in Procs : Claims(q)' => Claims(q)
    BY <2>1, <2>2, <2>3 DEF Holds, Claims, Inside
  <2>5. ~disturbed' => \A q \in Inside' : tid' = q
    BY <2>2, <2>4 DEF IInv, SectionInv
  <2>. QED  BY <2>1, <2>2, <2>4, <2>5, QuietIInv DEF Places, IInv, TypeOK
<1>. QED
  BY <1>1, <1>2, ZeroWordIInv, AcquireIInv, OwnIInv, QueryIInv, ClaimIInv, ConfirmIInv, GetIInv,
     ZeroIInv, CheckIInv, PostIInv, InterruptIInv DEF Next

\* No process's ring reaches past the end of the segment, for any sizes and any
\* number of processes, interrupted or dead.
THEOREM OpenRingInSegment == Spec => []RingInSegment
<1>1. IInv => RingInSegment
  BY DEF IInv, SegmentInv, RingInSegment, At
<1>2. IInv /\ [Next]_vars => IInv'
  BY NextIInv
<1>. QED
  BY InitIInv, <1>1, <1>2, PTL DEF Spec

\* While nobody is disturbed (goes on after an interrupted wait, or is inside when
\* a late memset wipes its id), one process at a time is in the constructor's
\* critical section, whichever die inside and however many then claim sem, and
\* all that leave it agree on the size of the ring.  Queries and confirmations
\* are timely, as Query and Confirm say.
THEOREM OpenAttachedAgree == Spec => []AttachedAgree
<1>1. IInv => AttachedAgree
  BY DEF IInv, SectionInv, AttachedAgree, Inside, At
<1>2. IInv /\ [Next]_vars => IInv'
  BY NextIInv
<1>. QED
  BY InitIInv, <1>1, <1>2, PTL DEF Spec

\* While nobody is disturbed, the size that was noted is never changed: only
\* CheckSize and the creator's memset write it, and both find 0.
THEOREM OpenSizeSetOnce == Spec => SizeSetOnce
<1>1. IInv /\ [Next]_vars => [~disturbed /\ size # 0 => size' = size]_vars
  <2>. SUFFICES ASSUME IInv, Next, ~disturbed, size # 0 PROVE size' = size
    OBVIOUS
  <2>1. \A p \in Procs : ~At(p, "zero")
    BY DEF IInv, SectionInv, At
  <2>. QED  BY <2>1 DEF Next, OpenWord, ZeroWord, Acquire, Own, TimeOut, Query, Claim, Confirm,
       Interrupt, GetSegment, ZeroSegment, CheckSize, Finish, Refuse, Die, ring
<1>2. IInv /\ [Next]_vars => IInv'
  BY NextIInv
<1>. QED
  BY InitIInv, <1>1, <1>2, PTL DEF Spec, SizeSetOnce
=============================================================================
