--------------------------- MODULE BuffersProofs ---------------------------
(***************************************************************************)
(* Proofs about module Buffers, for every set of addresses: the inductive  *)
(* invariant IInv, and that allocMap implements BufferTrees.               *)
(***************************************************************************)
EXTENDS Buffers, TLAPS

\* Initially allocMap, the heap and the foreign blocks are empty.
LEMMA InitIInv == BuffersInit => IInv
  BY DEF BuffersInit, IInv, BuffersTypeOK, ManagedBlocksDisjoint, NoLeakNoDangling, NoBadFree,
         Managed, Roots, Codes

\* The early returns of the three functions, and the death of the process in
\* memset(NULL), change neither allocMap nor the heap.
LEMMA QuietIInv ==
    ASSUME IInv, UNCHANGED <<allocMap, heap, foreign, badFree>>,
           crashed' \in BOOLEAN, ret' \in Codes
    PROVE  IInv'
  BY DEF IInv, BuffersTypeOK, ManagedBlocksDisjoint, NoLeakNoDangling, NoBadFree,
         Managed, Roots

\* A fresh block becomes a root without a chain (LFMAllocateBuffer).
LEMMA NewRootIInv ==
    ASSUME IInv, NEW b \in Addrs, Malloc(b),
           heap' = heap \cup {b},
           allocMap' = [r \in Roots \cup {b} |-> IF r = b THEN {} ELSE allocMap[r]],
           ret' = "LFS_SUCCESS", UNCHANGED <<foreign, badFree, crashed>>
    PROVE  IInv'
<1>1. b \notin Managed
  BY DEF IInv, NoLeakNoDangling, Malloc
<1>2. Roots' = Roots \cup {b} /\ allocMap'[b] = {} /\ \A r \in Roots : allocMap'[r] = allocMap[r]
  BY <1>1 DEF Roots, Managed
<1>3. BuffersTypeOK'
  BY <1>2 DEF IInv, BuffersTypeOK, Codes
<1>4. ManagedBlocksDisjoint'
  BY <1>1, <1>2 DEF IInv, ManagedBlocksDisjoint, Managed
<1>5. Managed' = Managed \cup {b}
  BY <1>2 DEF Managed
<1>6. NoLeakNoDangling'
  BY <1>5 DEF IInv, NoLeakNoDangling, BuffersTypeOK, Malloc
<1>. QED
  BY <1>3, <1>4, <1>6 DEF IInv, NoBadFree

\* A fresh block joins the chain of an existing root (LFMAllocateMore).
LEMMA ChainIInv ==
    ASSUME IInv, NEW b \in Addrs, NEW orig \in Roots, Malloc(b),
           heap' = heap \cup {b},
           allocMap' = [allocMap EXCEPT ![orig] = @ \cup {b}],
           ret' = "LFS_SUCCESS", UNCHANGED <<foreign, badFree, crashed>>
    PROVE  IInv'
<1>1. b \notin Managed
  BY DEF IInv, NoLeakNoDangling, Malloc
<1>2. /\ Roots' = Roots
      /\ allocMap'[orig] = allocMap[orig] \cup {b}
      /\ \A r \in Roots \ {orig} : allocMap'[r] = allocMap[r]
  BY DEF Roots, IInv, BuffersTypeOK
<1>3. BuffersTypeOK'
  BY <1>2 DEF IInv, BuffersTypeOK, Codes
<1>4. ManagedBlocksDisjoint'
  BY <1>1, <1>2 DEF IInv, ManagedBlocksDisjoint, Managed
<1>5. Managed' = Managed \cup {b}
  BY <1>2 DEF Managed
<1>6. NoLeakNoDangling'
  BY <1>5 DEF IInv, NoLeakNoDangling, BuffersTypeOK, Malloc
<1>. QED
  BY <1>3, <1>4, <1>6 DEF IInv, NoBadFree

\* A root and its chain are freed and the root leaves the map (LFMFreeBuffer).
LEMMA FreeIInv ==
    ASSUME IInv, NEW x \in Roots,
           FreeAll(allocMap[x] \cup {x}),
           allocMap' = [r \in Roots \ {x} |-> allocMap[r]],
           ret' = "LFS_SUCCESS", UNCHANGED <<foreign, crashed>>
    PROVE  IInv'
<1>1. Roots' = Roots \ {x} /\ \A r \in Roots \ {x} : allocMap'[r] = allocMap[r]
  BY DEF Roots
<1>2. allocMap[x] \cup {x} \subseteq heap \ foreign
  BY DEF IInv, NoLeakNoDangling, Managed
<1>3. badFree' = badFree /\ heap' = heap \ (allocMap[x] \cup {x})
  BY <1>2 DEF FreeAll, IInv, BuffersTypeOK
<1>4. BuffersTypeOK'
  BY <1>1, <1>2, <1>3 DEF IInv, BuffersTypeOK, Codes
<1>5. ManagedBlocksDisjoint'
  BY <1>1 DEF IInv, ManagedBlocksDisjoint
<1>6. Managed' = Managed \ (allocMap[x] \cup {x})
  BY <1>1 DEF IInv, ManagedBlocksDisjoint, Managed
<1>7. NoLeakNoDangling'
  BY <1>3, <1>6 DEF IInv, NoLeakNoDangling
<1>. QED
  BY <1>3, <1>4, <1>5, <1>7 DEF IInv, NoBadFree

\* Every call preserves the inductive invariant, whatever its arguments.
LEMMA NextIInv == IInv /\ [BuffersNext]_bufferVars => IInv'
<1>. SUFFICES ASSUME IInv, [BuffersNext]_bufferVars PROVE IInv'
  OBVIOUS
<1>1. ASSUME NEW out \in BOOLEAN, LFMAllocateBuffer(out) PROVE IInv'
  <2>1. CASE Fail("LFS_ERR_INVALID_POINTER")
    BY <2>1, QuietIInv DEF Fail, Codes, IInv, BuffersTypeOK
  <2>2. CASE OutOfMemory
    BY <2>2, QuietIInv DEF OutOfMemory, Codes
  <2>3. CASE /\ \E b \in Addrs :
                  /\ Malloc(b)
                  /\ heap' = heap \cup {b}
                  /\ allocMap' = [r \in Roots \cup {b} |-> IF r = b THEN {} ELSE allocMap[r]]
             /\ ret' = "LFS_SUCCESS"
             /\ UNCHANGED <<foreign, badFree, crashed>>
    BY <2>3, NewRootIInv
  <2>. QED
    BY <1>1, <2>1, <2>2, <2>3 DEF LFMAllocateBuffer
<1>2. ASSUME NEW orig \in Addrs \cup {Null}, NEW out \in BOOLEAN, LFMAllocateMore(orig, out)
      PROVE  IInv'
  <2>1. CASE Fail("LFS_ERR_INVALID_POINTER")
    BY <2>1, QuietIInv DEF Fail, Codes, IInv, BuffersTypeOK
  <2>2. CASE Fail("LFS_ERR_INVALID_ADDRESS")
    BY <2>2, QuietIInv DEF Fail, Codes, IInv, BuffersTypeOK
  <2>3. CASE OutOfMemory
    BY <2>3, QuietIInv DEF OutOfMemory, Codes
  <2>4. CASE /\ orig \in Roots
             /\ \E b \in Addrs :
                  /\ Malloc(b)
                  /\ heap' = heap \cup {b}
                  /\ allocMap' = [allocMap EXCEPT ![orig] = @ \cup {b}]
             /\ ret' = "LFS_SUCCESS"
             /\ UNCHANGED <<foreign, badFree, crashed>>
    BY <2>4, ChainIInv
  <2>. QED
    BY <1>2, <2>1, <2>2, <2>3, <2>4 DEF LFMAllocateMore
<1>3. ASSUME NEW x \in Addrs \cup {Null}, LFMFreeBuffer(x) PROVE IInv'
  <2>1. CASE Fail("LFS_ERR_INVALID_POINTER")
    BY <2>1, QuietIInv DEF Fail, Codes, IInv, BuffersTypeOK
  <2>2. CASE Fail("LFS_ERR_INVALID_BUFFER")
    BY <2>2, QuietIInv DEF Fail, Codes, IInv, BuffersTypeOK
  <2>3. CASE /\ x \in Roots
             /\ FreeAll(allocMap[x] \cup {x})
             /\ allocMap' = [r \in Roots \ {x} |-> allocMap[r]]
             /\ ret' = "LFS_SUCCESS"
             /\ UNCHANGED <<foreign, crashed>>
    BY <2>3, FreeIInv
  <2>. QED
    BY <1>3, <2>1, <2>2, <2>3 DEF LFMFreeBuffer
<1>4. CASE ForeignMalloc
  <2>. USE <1>4 DEF ForeignMalloc, Malloc
  <2>1. BuffersTypeOK' /\ ManagedBlocksDisjoint' /\ NoBadFree'
    BY DEF IInv, BuffersTypeOK, ManagedBlocksDisjoint, NoBadFree, Roots, Codes
  <2>2. NoLeakNoDangling'
    BY DEF IInv, NoLeakNoDangling, Managed, Roots
  <2>. QED
    BY <2>1, <2>2 DEF IInv
<1>5. CASE ForeignFree
  <2>. USE <1>5 DEF ForeignFree
  <2>1. BuffersTypeOK' /\ ManagedBlocksDisjoint' /\ NoBadFree'
    BY DEF IInv, BuffersTypeOK, ManagedBlocksDisjoint, NoBadFree, Roots, Codes
  <2>2. NoLeakNoDangling'
    BY DEF IInv, BuffersTypeOK, NoLeakNoDangling, Managed, Roots
  <2>. QED
    BY <2>1, <2>2 DEF IInv
<1>6. CASE UNCHANGED bufferVars
  BY <1>6, QuietIInv DEF bufferVars, IInv, BuffersTypeOK
<1>7. ASSUME NEW x \in Addrs \cup {Null}, NEW started \in BOOLEAN, LFSFreeResult(x, started)
      PROVE  IInv'
  <2>1. CASE Fail("LFS_ERR_NOT_STARTED")
    BY <2>1, QuietIInv DEF Fail, Codes, IInv, BuffersTypeOK
  <2>. QED
    BY <1>3, <1>7, <2>1 DEF LFSFreeResult
<1>. QED
  BY <1>1, <1>2, <1>3, <1>4, <1>5, <1>6, <1>7 DEF BuffersNext

\* The manager's buffer bookkeeping is sound for any heap: keys and chains are
\* heap addresses, chains are disjoint, exactly the live blocks are recorded,
\* and no call of LFMFreeBuffer frees a block twice.
THEOREM BuffersSafe ==
    BuffersSpec => [](BuffersTypeOK /\ ManagedBlocksDisjoint /\ NoLeakNoDangling /\ NoBadFree)
<1>1. BuffersSpec => []IInv
  BY InitIInv, NextIInv, PTL DEF BuffersSpec
<1>2. IInv => BuffersTypeOK /\ ManagedBlocksDisjoint /\ NoLeakNoDangling /\ NoBadFree
  BY DEF IInv
<1>. QED
  BY <1>1, <1>2, PTL

-----------------------------------------------------------------------------
(* The refinement.  TreeOf is characterised by Member, and from there on   *)
(* CHOOSE is not looked at again.                                          *)

\* b belongs to the buffer with root r.
Member(b, r) == r \in Roots /\ (b = r \/ b \in allocMap[r])

\* TreeOf maps every managed block to the one root it is a member of.
TreeOfIsMember ==
    /\ TreeOf = [b \in Managed |-> TreeOf[b]]
    /\ \A b \in Managed : Member(b, TreeOf[b])
    /\ \A b, r : Member(b, r) => b \in Managed /\ TreeOf[b] = r

\* Under the inductive invariant, TreeOf is well defined.
LEMMA TreeOfMember == IInv => TreeOfIsMember
<1>. SUFFICES ASSUME IInv PROVE TreeOfIsMember
  OBVIOUS
<1>1. DOMAIN TreeOf = Managed /\ TreeOf = [b \in Managed |-> TreeOf[b]]
  BY DEF TreeOf, IInv, NoLeakNoDangling
<1>2. ASSUME NEW b \in Managed PROVE Member(b, TreeOf[b])
  <2>1. CASE b \in Roots
    BY <2>1 DEF TreeOf, Member, IInv, NoLeakNoDangling
  <2>2. CASE b \notin Roots
    <3>1. \E r \in Roots : b \in allocMap[r]
      BY <2>2 DEF Managed
    <3>2. TreeOf[b] = CHOOSE r \in Roots : b \in allocMap[r]
      BY <2>2 DEF TreeOf, IInv, NoLeakNoDangling
    <3>. QED
      BY <3>1, <3>2 DEF Member
  <2>. QED
    BY <2>1, <2>2
<1>3. ASSUME NEW b, NEW r, Member(b, r) PROVE b \in Managed /\ TreeOf[b] = r
  <2>1. b \in Managed
    BY <1>3 DEF Member, Managed
  <2>2. Member(b, TreeOf[b])
    BY <1>2, <2>1
  <2>. QED
    BY <1>3, <2>1, <2>2 DEF Member, IInv, ManagedBlocksDisjoint
<1>. QED
  BY <1>1, <1>2, <1>3 DEF TreeOfIsMember

\* The same in the next state.
LEMMA TreeOfMemberPrime == IInv' => TreeOfIsMember'
  BY TreeOfMember, PTL

\* A step that leaves the members of every buffer alone is a stutter.
LEMMA SameTrees ==
    ASSUME IInv, IInv', UNCHANGED allocMap
    PROVE  UNCHANGED TreeOf
<1>1. Managed' = Managed /\ \A b, r : Member(b, r)' <=> Member(b, r)
  BY DEF Managed, Member, Roots
<1>2. \A b \in Managed : Member(b, TreeOf[b])
  BY TreeOfMember, TreeOfMemberPrime DEF TreeOfIsMember
<1>3. \A b, r : Member(b, r)' => TreeOf'[b] = r
  BY TreeOfMember, TreeOfMemberPrime DEF TreeOfIsMember
<1>4. \A b \in Managed : TreeOf'[b] = TreeOf[b]
  BY <1>1, <1>2, <1>3
<1>5. TreeOf = [b \in Managed |-> TreeOf[b]] /\ TreeOf' = [b \in Managed' |-> TreeOf'[b]]
  BY TreeOfMember, TreeOfMemberPrime DEF TreeOfIsMember
<1>. QED
  BY <1>1, <1>4, <1>5

\* A step that adds one fresh block b to the buffer of r grows the tree of r.
LEMMA GrowTree ==
    ASSUME IInv, IInv', NEW b, NEW r, b \notin Managed,
           \A x, s : Member(x, s)' <=> Member(x, s) \/ (x = b /\ s = r),
           Managed' = Managed \cup {b}
    PROVE  Trees!Grow(b, r)
<1>1. /\ TreeOf = [x \in Managed |-> TreeOf[x]]
      /\ \A x \in Managed : Member(x, TreeOf[x])
  BY TreeOfMember, TreeOfMemberPrime DEF TreeOfIsMember
<1>2. /\ TreeOf' = [x \in Managed' |-> TreeOf'[x]]
      /\ \A x, s : Member(x, s)' => TreeOf'[x] = s
  BY TreeOfMember, TreeOfMemberPrime DEF TreeOfIsMember
<1>3. TreeOf'[b] = r /\ \A x \in Managed : TreeOf'[x] = TreeOf[x]
  BY <1>1, <1>2
<1>4. DOMAIN TreeOf = Managed
  BY <1>1
<1>5. TreeOf' = [x \in Managed \cup {b} |-> IF x = b THEN r ELSE TreeOf[x]]
  BY <1>2, <1>3
<1>. QED
  BY <1>4, <1>5 DEF Trees!Grow

\* Every step of the buffer functions is a step of BufferTrees or a stutter.
LEMMA NextTrees == IInv /\ IInv' /\ [BuffersNext]_bufferVars => [Trees!Next]_TreeOf
<1>. SUFFICES ASSUME IInv, IInv', [BuffersNext]_bufferVars PROVE [Trees!Next]_TreeOf
  OBVIOUS
<1>0. DOMAIN TreeOf = Managed
  BY TreeOfMember DEF TreeOfIsMember
<1>1. ASSUME NEW out \in BOOLEAN, LFMAllocateBuffer(out), ~UNCHANGED allocMap
      PROVE  Trees!NewTree
  <2>1. PICK b \in Addrs :
            /\ Malloc(b)
            /\ allocMap' = [r \in Roots \cup {b} |-> IF r = b THEN {} ELSE allocMap[r]]
    BY <1>1 DEF LFMAllocateBuffer, Fail, OutOfMemory
  <2>2. b \notin Managed
    BY <2>1 DEF IInv, NoLeakNoDangling, Malloc
  <2>3. Roots' = Roots \cup {b} /\ allocMap'[b] = {} /\ \A r \in Roots : allocMap'[r] = allocMap[r]
    BY <2>1, <2>2 DEF Roots, Managed
  <2>4. Managed' = Managed \cup {b}
    BY <2>3 DEF Managed
  <2>5. \A x, s : Member(x, s)' <=> Member(x, s) \/ (x = b /\ s = b)
    BY <2>2, <2>3 DEF Member, Managed
  <2>6. Trees!Grow(b, b)
    BY <2>2, <2>4, <2>5, GrowTree
  <2>. QED
    BY <2>6 DEF Trees!NewTree
<1>2. ASSUME NEW orig \in Addrs \cup {Null}, NEW out \in BOOLEAN,
             LFMAllocateMore(orig, out), ~UNCHANGED allocMap
      PROVE  Trees!AddToTree
  <2>1. PICK b \in Addrs :
            /\ Malloc(b)
            /\ orig \in Roots
            /\ allocMap' = [allocMap EXCEPT ![orig] = @ \cup {b}]
    BY <1>2 DEF LFMAllocateMore, Fail, OutOfMemory
  <2>2. b \notin Managed
    BY <2>1 DEF IInv, NoLeakNoDangling, Malloc
  <2>3. /\ Roots' = Roots
        /\ allocMap'[orig] = allocMap[orig] \cup {b}
        /\ \A r \in Roots \ {orig} : allocMap'[r] = allocMap[r]
    BY <2>1 DEF Roots, IInv, BuffersTypeOK
  <2>4. Managed' = Managed \cup {b}
    BY <2>1, <2>3 DEF Managed
  <2>5. \A x, s : Member(x, s)' <=> Member(x, s) \/ (x = b /\ s = orig)
    BY <2>1, <2>3 DEF Member
  <2>6. Trees!Grow(b, orig)
    BY <2>2, <2>4, <2>5, GrowTree
  <2>7. orig \in Managed /\ TreeOf[orig] = orig
    BY <2>1, TreeOfMember DEF TreeOfIsMember, Member
  <2>. QED
    BY <1>0, <2>6, <2>7 DEF Trees!AddToTree
<1>3. ASSUME NEW z \in Addrs \cup {Null}, LFMFreeBuffer(z), ~UNCHANGED allocMap
      PROVE  Trees!ReleaseTree
  <2>1. z \in Roots /\ allocMap' = [r \in Roots \ {z} |-> allocMap[r]]
    BY <1>3 DEF LFMFreeBuffer, Fail
  <2>2. Roots' = Roots \ {z} /\ \A r \in Roots \ {z} : allocMap'[r] = allocMap[r]
    BY <2>1 DEF Roots
  <2>3. \A x, s : Member(x, s)' <=> Member(x, s) /\ s # z
    BY <2>2 DEF Member
  <2>4. z \in Managed /\ TreeOf[z] = z
    BY <2>1, TreeOfMember DEF TreeOfIsMember, Member
  <2>5. /\ \A x \in Managed : Member(x, TreeOf[x])
        /\ \A x, s : Member(x, s) => x \in Managed /\ TreeOf[x] = s
    BY TreeOfMember DEF TreeOfIsMember
  <2>6. /\ TreeOf' = [x \in Managed' |-> TreeOf'[x]]
        /\ \A x \in Managed' : \E s : Member(x, s)'
        /\ \A x, s : Member(x, s)' => x \in Managed' /\ TreeOf'[x] = s
    BY TreeOfMemberPrime DEF TreeOfIsMember, Member
  <2>7. Managed' = {y \in Managed : TreeOf[y] # z}
    <3>1. ASSUME NEW y \in Managed' PROVE y \in Managed /\ TreeOf[y] # z
      BY <2>3, <2>5, <2>6
    <3>2. ASSUME NEW y \in Managed, TreeOf[y] # z PROVE y \in Managed'
      BY <2>3, <2>5, <2>6, <3>2
    <3>. QED
      BY <3>1, <3>2
  <2>8. ASSUME NEW x \in Managed' PROVE TreeOf'[x] = TreeOf[x]
    BY <2>3, <2>5, <2>6, <2>7
  <2>9. TreeOf' = [x \in {y \in DOMAIN TreeOf : TreeOf[y] # z} |-> TreeOf[x]]
    BY <1>0, <2>6, <2>7, <2>8
  <2>. QED
    BY <1>0, <2>4, <2>9 DEF Trees!ReleaseTree
<1>4. CASE UNCHANGED allocMap
  BY <1>4, SameTrees
<1>5. ASSUME ~UNCHANGED allocMap PROVE Trees!Next
  <2>1. ASSUME NEW x \in Addrs \cup {Null}, NEW started \in BOOLEAN, LFSFreeResult(x, started)
        PROVE  LFMFreeBuffer(x)
    BY <1>5, <2>1 DEF LFSFreeResult, Fail
  <2>. QED
    BY <1>1, <1>2, <1>3, <1>5, <2>1 DEF BuffersNext, ForeignMalloc, ForeignFree, bufferVars, Trees!Next
<1>. QED
  BY <1>4, <1>5

\* The buffer functions of LFSadmin.cpp implement BufferTrees: for any heap and
\* any sequence of calls, a fresh block joins exactly one tree and LFMFreeBuffer
\* releases exactly one.
THEOREM BuffersImplementTrees == BuffersSpec => ImplementsTrees
<1>1. BuffersInit => Trees!Init
  BY DEF BuffersInit, Trees!Init, TreeOf
<1>2. BuffersSpec => []IInv
  BY InitIInv, NextIInv, PTL DEF BuffersSpec
<1>. QED
  BY <1>1, <1>2, NextTrees, PTL DEF BuffersSpec, ImplementsTrees, Trees!Spec
=============================================================================
