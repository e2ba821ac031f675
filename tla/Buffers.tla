------------------------------ MODULE Buffers ------------------------------
(***************************************************************************)
(* LFMAllocateBuffer, LFMAllocateMore and LFMFreeBuffer of LFSadmin.cpp:   *)
(* Context::allocMap maps the address of each buffer handed out by         *)
(* LFMAllocateBuffer to the list of the blocks chained to it.              *)
(*                                                                         *)
(* Each function runs to its end under the named mutex LFS_MANAGER_MUTEX,  *)
(* so each is one action.  The list is a set here: push_back adds a block  *)
(* malloc has just returned, which no list can hold (ManagedBlocksDisjoint *)
(* says exactly that).  The heap also serves the rest of the process       *)
(* (service providers, the application), whose blocks are foreign.         *)
(***************************************************************************)
EXTENDS Integers, FiniteSets

CONSTANTS Addrs,        \* the addresses malloc can return
          Null          \* the null pointer

ASSUME NullAssumption == Null \notin Addrs

VARIABLES allocMap,     \* root block -> set of the blocks chained to it
          heap,         \* blocks malloc has returned and free has not had
          foreign,      \* the blocks of heap other code of the process owns
          badFree,      \* free() was called on a block that is not live
          crashed,      \* the process has died in memset(NULL, ...)
          ret           \* HRESULT of the last call

bufferVars == <<allocMap, heap, foreign, badFree, crashed, ret>>

Roots == DOMAIN allocMap

\* Every block the manager answers for.
Managed == Roots \cup UNION {allocMap[r] : r \in Roots}

BuffersInit ==
    /\ allocMap = [r \in {} |-> {}]
    /\ heap = {}
    /\ foreign = {}
    /\ badFree = FALSE
    /\ crashed = FALSE
    /\ ret = "none"

-----------------------------------------------------------------------------
(* The C heap.  malloc returns any block that is not live, also one that   *)
(* was live before, or NULL.                                               *)

Malloc(b) == b \in Addrs \ heap

\* malloc returned NULL: LFSadmin.cpp clears the block before it looks at the
\* pointer, so the process dies before it can return LFS_ERR_OUT_OF_MEMORY.
OutOfMemory ==
    /\ crashed' = TRUE
    /\ ret' = "none"
    /\ UNCHANGED <<allocMap, heap, foreign, badFree>>

\* free() of every block of the set S.
FreeAll(S) ==
    /\ heap' = heap \ S
    /\ badFree' = (badFree \/ ~(S \subseteq heap))

Fail(code) ==
    /\ ret' = code
    /\ UNCHANGED <<allocMap, heap, foreign, badFree, crashed>>

-----------------------------------------------------------------------------
(* The three functions.  out says whether lppData is a non-null pointer.   *)

LFMAllocateBuffer(out) ==
    /\ ~crashed
    /\ \/ ~out /\ Fail("LFS_ERR_INVALID_POINTER")
       \/ out /\ OutOfMemory
       \/ /\ out
          /\ \E b \in Addrs :
              /\ Malloc(b)
              /\ heap' = heap \cup {b}
              /\ allocMap' = [r \in Roots \cup {b} |-> IF r = b THEN {} ELSE allocMap[r]]
          /\ ret' = "LFS_SUCCESS"
          /\ UNCHANGED <<foreign, badFree, crashed>>

LFMAllocateMore(orig, out) ==
    /\ ~crashed
    /\ \/ ~out /\ Fail("LFS_ERR_INVALID_POINTER")
       \/ out /\ orig \notin Roots /\ Fail("LFS_ERR_INVALID_ADDRESS")
       \/ out /\ orig \in Roots /\ OutOfMemory
       \/ /\ out
          /\ orig \in Roots
          /\ \E b \in Addrs :
              /\ Malloc(b)
              /\ heap' = heap \cup {b}
              /\ allocMap' = [allocMap EXCEPT ![orig] = @ \cup {b}]
          /\ ret' = "LFS_SUCCESS"
          /\ UNCHANGED <<foreign, badFree, crashed>>

\* A mutant: only the root is freed, its chain is forgotten.
LFMFreeBuffer_RootOnly(x) ==
    /\ ~crashed
    /\ x \in Roots
    /\ FreeAll({x})
    /\ allocMap' = [r \in Roots \ {x} |-> allocMap[r]]
    /\ ret' = "LFS_SUCCESS"
    /\ UNCHANGED <<foreign, crashed>>

\* A mutant: the map entry outlives the blocks (no erase).
LFMFreeBuffer_NoErase(x) ==
    /\ ~crashed
    /\ x \in Roots
    /\ FreeAll(allocMap[x] \cup {x})
    /\ ret' = "LFS_SUCCESS"
    /\ UNCHANGED <<allocMap, foreign, crashed>>

LFMFreeBuffer(x) ==
    /\ ~crashed
    /\ \/ x = Null /\ Fail("LFS_ERR_INVALID_POINTER")
       \/ x # Null /\ x \notin Roots /\ Fail("LFS_ERR_INVALID_BUFFER")
       \/ /\ x \in Roots
          /\ FreeAll(allocMap[x] \cup {x})
          /\ allocMap' = [r \in Roots \ {x} |-> allocMap[r]]
          /\ ret' = "LFS_SUCCESS"
          /\ UNCHANGED <<foreign, crashed>>

\* lpResult is the root of a buffer like any other; started is the outcome of
\* CHECK_IF_STARTED (module Manager).
LFSFreeResult(x, started) ==
    \/ ~crashed /\ ~started /\ Fail("LFS_ERR_NOT_STARTED")
    \/ started /\ LFMFreeBuffer(x)

\* The rest of the process allocates and frees blocks of its own.
ForeignMalloc ==
    /\ ~crashed
    /\ \E b \in Addrs :
        /\ Malloc(b)
        /\ heap' = heap \cup {b}
        /\ foreign' = foreign \cup {b}
    /\ ret' = "none"
    /\ UNCHANGED <<allocMap, badFree, crashed>>

ForeignFree ==
    /\ ~crashed
    /\ \E b \in foreign :
        /\ heap' = heap \ {b}
        /\ foreign' = foreign \ {b}
    /\ ret' = "none"
    /\ UNCHANGED <<allocMap, badFree, crashed>>

BuffersNext ==
    \/ \E out \in BOOLEAN : LFMAllocateBuffer(out)
    \/ \E orig \in Addrs \cup {Null}, out \in BOOLEAN : LFMAllocateMore(orig, out)
    \/ \E x \in Addrs \cup {Null} : LFMFreeBuffer(x)
    \/ \E x \in Addrs \cup {Null}, started \in BOOLEAN : LFSFreeResult(x, started)
    \/ ForeignMalloc
    \/ ForeignFree

BuffersSpec == BuffersInit /\ [][BuffersNext]_bufferVars

-----------------------------------------------------------------------------

Codes == {"none", "LFS_SUCCESS", "LFS_ERR_INVALID_POINTER", "LFS_ERR_OUT_OF_MEMORY",
          "LFS_ERR_INVALID_ADDRESS", "LFS_ERR_INVALID_BUFFER", "LFS_ERR_NOT_STARTED"}

\* allocMap has only heap addresses as keys and list members: the NULL of a
\* failed malloc is never recorded (LFMAllocateBuffer checks *lppData before it
\* calls emplace).
BuffersTypeOK ==
    /\ Roots \subseteq Addrs
    /\ allocMap \in [Roots -> SUBSET Addrs]
    /\ heap \subseteq Addrs
    /\ foreign \subseteq heap
    /\ badFree \in BOOLEAN
    /\ crashed \in BOOLEAN
    /\ ret \in Codes

\* No block hangs in two chains and no root is chained to a buffer (also not to
\* itself): the loop of LFMFreeBuffer frees each block once, although malloc
\* hands the addresses of freed buffers out again.
ManagedBlocksDisjoint ==
    /\ \A r \in Roots : allocMap[r] \cap Roots = {}
    /\ \A r, s \in Roots : r # s => allocMap[r] \cap allocMap[s] = {}

\* The live blocks that no other code owns are exactly the ones reachable from
\* allocMap: LFMFreeBuffer leaks nothing, and allocMap never names a block that
\* has been freed or that belongs to other code of the process.
NoLeakNoDangling == Managed = heap \ foreign

\* free() is only ever called on live blocks: whatever addresses the callers
\* pass, stale ones included, LFMFreeBuffer does no double free.
NoBadFree == ~badFree

\* The inductive invariant.
IInv == BuffersTypeOK /\ ManagedBlocksDisjoint /\ NoLeakNoDangling /\ NoBadFree

\* The tree each managed block belongs to.
TreeOf ==
    [b \in heap \ foreign |->
        IF b \in Roots THEN b ELSE CHOOSE r \in Roots : b \in allocMap[r]]

Trees == INSTANCE BufferTrees WITH tree <- TreeOf

\* allocMap implements the promise of BufferTrees: a fresh block joins one tree
\* and FreeBuffer releases one whole tree and nothing of any other.
ImplementsTrees == Trees!Spec
=============================================================================
