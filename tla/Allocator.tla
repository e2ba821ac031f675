----------------------------- MODULE Allocator -----------------------------
(***************************************************************************)
(* lfs/allocator.cpp and allocator.hpp: an Allocator carves the pieces of  *)
(* one result out of manager buffers.  The first allocation obtains a      *)
(* block of at least sizeHint bytes; later pieces come from behind the     *)
(* earlier ones in that head block while the hint lasts, and from blocks   *)
(* of their own afterwards.  Every block is chained to one root (source),  *)
(* so that one WFMFreeBuffer releases the whole result.                    *)
(*                                                                         *)
(* Blocks are numbered in the order the manager returns them; block 0 is   *)
(* the buffer a caller may have passed as pSource.                         *)
(***************************************************************************)
EXTENDS Integers, Sequences

CONSTANTS UlongRange,   \* ULONG, an unsigned long, is taken modulo this number
          Hints,        \* values of iSizeHint
          Sizes,        \* bytes of the objects, strings and arrays created
          PtrSize,      \* sizeof(T *)
          ItemSize,     \* sizeof(T) for the items of a pointer array
          MaxItems,     \* bound: items of a pointer array
          MaxPieces     \* bound: pieces handed out

ASSUME UlongAssumption == UlongRange \in Nat \ {0}
ASSUME SizesAssumption == Sizes \subseteq Nat /\ Hints \subseteq 0..(UlongRange - 1)
ASSUME ArraysAssumption ==
    /\ PtrSize \in Nat /\ ItemSize \in Nat /\ MaxItems \in Nat /\ MaxPieces \in Nat

NoBlock == -1

VARIABLES sizeHint, sourceWasNull, source, headPtr, allocatedSize,
          size,         \* block -> its bytes
          parent,       \* block -> the root the manager chained it to
          todo,         \* items createArray has still to allocate
          pieces,       \* what was returned: block, offset, bytes the caller uses
          total         \* bytes of all pieces

manager == <<size, parent>>
allocatorVars ==
    <<sizeHint, sourceWasNull, source, headPtr, allocatedSize, manager, todo, pieces, total>>

\* A value as ULONG.
Ulong(n) == n % UlongRange

AllocatorInit ==
    /\ sizeHint \in Hints
    /\ source \in {NoBlock, 0}
    /\ sourceWasNull = (source = NoBlock)
    /\ headPtr = NoBlock
    /\ allocatedSize = 0
    /\ size = <<>>
    /\ parent = <<>>
    /\ todo = 0
    /\ pieces = <<>>
    /\ total = 0

NewBlock == Len(size) + 1

HeadPtr == IF sourceWasNull THEN source ELSE headPtr

\* A mutant: WFMAllocateBuffer is called for every block.
mgrAllocate_NoMore(n) ==
    /\ size' = Append(size, n)
    /\ parent' = Append(parent, NewBlock)
    /\ source' = IF source = NoBlock THEN NewBlock ELSE source
    /\ headPtr' = IF source = NoBlock \/ headPtr = NoBlock THEN NewBlock ELSE headPtr

\* WFMAllocateMore chains the block to source; without one WFMAllocateBuffer
\* makes it the root.
mgrAllocate(n) ==
    /\ size' = Append(size, n)
    /\ parent' = Append(parent, IF source = NoBlock THEN NewBlock ELSE source)
    /\ source' = IF source = NoBlock THEN NewBlock ELSE source
    /\ headPtr' = IF source = NoBlock \/ headPtr = NoBlock THEN NewBlock ELSE headPtr

\* A mutant: the comparison does not count the bytes asked for.
FitsHint_Late(n) == sizeHint > 0 /\ allocatedSize <= sizeHint

FitsHint(n) == sizeHint > 0 /\ Ulong(allocatedSize + n) <= sizeHint

First == source = NoBlock \/ headPtr = NoBlock

Larger(a, b) == IF a > b THEN a ELSE b

\* The caller asks for this many bytes, and uses them from offset off of b.
Hand(b, off, bytes) ==
    /\ pieces' = Append(pieces, [block |-> b, off |-> off, len |-> bytes])
    /\ total' = total + bytes

AllocateFirst(bytes) ==
    /\ First
    /\ mgrAllocate(Larger(Ulong(bytes), sizeHint))
    /\ Hand(NewBlock, 0, bytes)
    /\ allocatedSize' = Ulong(bytes)

AllocateInHead(bytes) ==
    /\ ~First
    /\ FitsHint(Ulong(bytes))
    /\ Hand(headPtr, allocatedSize, bytes)
    /\ allocatedSize' = Ulong(allocatedSize + Ulong(bytes))
    /\ UNCHANGED <<source, headPtr, manager>>

AllocateOwnBlock(bytes) ==
    /\ ~First
    /\ ~FitsHint(Ulong(bytes))
    /\ mgrAllocate(Ulong(bytes))
    /\ Hand(NewBlock, 0, bytes)
    /\ allocatedSize' = Ulong(allocatedSize + Ulong(bytes))

allocate(bytes) ==
    /\ Len(pieces) < MaxPieces
    /\ AllocateFirst(bytes) \/ AllocateInHead(bytes) \/ AllocateOwnBlock(bytes)
    /\ UNCHANGED <<sizeHint, sourceWasNull>>

\* The manager returns an error and checkAndAssert throws: nothing has been
\* assigned yet, and createArray is left with the items it has.
Throw(bytes) ==
    /\ First \/ ~FitsHint(Ulong(bytes))
    /\ todo' = 0
    /\ UNCHANGED <<sizeHint, sourceWasNull, source, headPtr, allocatedSize, manager, pieces, total>>

\* create() of an object or a value: one allocation.
create(bytes) ==
    /\ todo = 0
    /\ \/ allocate(bytes) /\ UNCHANGED todo
       \/ Throw(bytes)

Cells(N, nullTerminated) == IF nullTerminated THEN N + 1 ELSE N

\* createArray of integers, empty or copied from a container.
createIntegers(N, nullTerminated) == create(ItemSize * Cells(N, nullTerminated))

\* create() of a string of n characters.
createString(n) == create(n + 1)

\* create() of a list of strings that takes n bytes, one NUL behind each item
\* included; no list, no allocation.
createStrings(empty, n) ==
    \/ empty /\ todo = 0 /\ UNCHANGED allocatorVars
    \/ ~empty /\ create(n + 1)

\* createArray of pointers: the array, then one item after the other.
createArray(N, nullTerminated, createItems) ==
    LET bytes == PtrSize * Cells(N, nullTerminated) IN
    /\ todo = 0
    /\ \/ allocate(bytes) /\ todo' = IF createItems THEN N ELSE 0
       \/ Throw(bytes)

createItem ==
    /\ todo > 0
    /\ \/ allocate(ItemSize) /\ todo' = todo - 1
       \/ Throw(ItemSize)

AllocatorNext ==
    \/ \E bytes \in Sizes : create(bytes) \/ createString(bytes)
    \/ \E empty \in BOOLEAN, n \in Sizes : createStrings(empty, n)
    \/ \E N \in 0..MaxItems, nullTerminated \in BOOLEAN : createIntegers(N, nullTerminated)
    \/ \E N \in 0..MaxItems, nullTerminated, createItems \in BOOLEAN :
        createArray(N, nullTerminated, createItems)
    \/ createItem

AllocatorSpec == AllocatorInit /\ [][AllocatorNext]_allocatorVars

-----------------------------------------------------------------------------
(* Properties.                                                             *)

Piece == [block : Nat, off : Nat, len : Nat]

\* The sizes are ULONGs and every piece lies in a block the manager returned.
AllocatorTypeOK ==
    /\ sizeHint \in 0..(UlongRange - 1)
    /\ sourceWasNull \in BOOLEAN
    /\ source \in Nat \cup {NoBlock}
    /\ headPtr \in Nat \cup {NoBlock}
    /\ allocatedSize \in 0..(UlongRange - 1)
    /\ size \in Seq(0..(UlongRange - 1))
    /\ parent \in Seq(Nat) /\ Len(parent) = Len(size)
    /\ todo \in 0..MaxItems
    /\ pieces \in Seq(Piece)
    /\ \A i \in 1..Len(pieces) : pieces[i].block \in 1..Len(size)
    /\ total \in Nat

End(i) == pieces[i].off + pieces[i].len

\* As long as the result is smaller than ULONG can count, the pieces that
\* allocate has returned lie inside their blocks and no two of them overlap,
\* whatever the hint and the order of sizes.
PiecesApart ==
    total < UlongRange =>
        /\ \A i \in 1..Len(pieces) : End(i) <= size[pieces[i].block]
        /\ \A i, j \in 1..Len(pieces) :
              i # j /\ pieces[i].block = pieces[j].block =>
                  End(i) <= pieces[j].off \/ End(j) <= pieces[i].off

\* Every block hangs on the one root source, also when an exception has ended a
\* createArray half way: freeing the root frees the whole result.
OneTree == \A b \in 1..Len(parent) : parent[b] = source

\* allocatedSize() is the number of bytes handed out.
SizeIsTotal == total < UlongRange => allocatedSize = total

\* headPtr(), once it is set, names the same block however many blocks follow,
\* and for an allocator without a source it is the root to free.
HeadStable ==
    [][HeadPtr # NoBlock => HeadPtr' = HeadPtr]_allocatorVars
=============================================================================
