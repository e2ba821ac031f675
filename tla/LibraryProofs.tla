--------------------------- MODULE LibraryProofs ---------------------------
(***************************************************************************)
(* Proofs about the classes of the lfs library that no threads share: the  *)
(* Allocator, the owning classes and versions.  The pieces an Allocator    *)
(* hands out are apart, for every hint, every sequence of sizes and every  *)
(* width of ULONG; a thing that is owned is owned once; the encoding and   *)
(* the order of versions are right for bytes of any width.                 *)
(***************************************************************************)
EXTENDS Allocator, Ownership, Version, TLAPS

(* Allocator.                                                              *)

\* Blocks in use have numbers, and source comes first: before the first block
\* nothing has been handed out.
HeadKnown ==
    /\ headPtr # NoBlock => source # NoBlock /\ headPtr \in 1..Len(size)
    /\ headPtr = NoBlock => size = <<>> /\ pieces = <<>> /\ total = 0 /\ allocatedSize = 0

\* While the hint lasts the head block has room for it, and the pieces in the
\* head block end where the next one will begin.
HeadFill ==
    total < UlongRange /\ headPtr # NoBlock /\ allocatedSize <= sizeHint =>
        /\ sizeHint <= size[headPtr]
        /\ \A i \in 1..Len(pieces) : pieces[i].block = headPtr => End(i) <= allocatedSize

\* The inductive invariant.
IInv == AllocatorTypeOK /\ HeadKnown /\ HeadFill /\ PiecesApart /\ OneTree /\ SizeIsTotal

\* ULONG arithmetic is exact below its range.
LEMMA UlongExact ==
    /\ \A n \in Nat : Ulong(n) \in 0..(UlongRange - 1)
    /\ \A n \in Nat : n < UlongRange => Ulong(n) = n
  BY UlongAssumption DEF Ulong

\* A new allocator has handed out nothing.
LEMMA InitIInv == AllocatorInit => IInv
  BY SizesAssumption, UlongAssumption, ArraysAssumption
     DEF AllocatorInit, IInv, AllocatorTypeOK, HeadKnown, HeadFill, PiecesApart, OneTree, SizeIsTotal, End, NoBlock, Piece

\* What Append does to the pieces and to the sequences of blocks.
LEMMA AppendFacts ==
    ASSUME NEW S, NEW s \in Seq(S), NEW e \in S
    PROVE  /\ Append(s, e) \in Seq(S)
           /\ Len(s) \in Nat
           /\ Len(Append(s, e)) = Len(s) + 1
           /\ \A i \in 1..Len(s) : Append(s, e)[i] = s[i]
           /\ Append(s, e)[Len(s) + 1] = e
  OBVIOUS

\* A piece at the start of a new block, which is the head if it is the first.
LEMMA NewBlockIInv ==
    ASSUME IInv, NEW bytes \in Nat, NEW n \in 0..(UlongRange - 1),
           bytes < UlongRange => bytes <= n,
           First => sizeHint <= n,
           mgrAllocate(n), Hand(NewBlock, 0, bytes),
           allocatedSize' \in 0..(UlongRange - 1),
           total + bytes < UlongRange => allocatedSize' = total + bytes,
           todo' \in 0..MaxItems, UNCHANGED <<sizeHint, sourceWasNull>>
    PROVE  IInv'
<1>. USE UlongAssumption
<1>a. PICK b \in Nat : b = NewBlock
  BY DEF IInv, AllocatorTypeOK, NewBlock
<1>b. PICK k \in Nat : k = Len(pieces) + 1
  BY DEF IInv, AllocatorTypeOK
<1>c. pieces \in Seq(Piece) /\ \A i \in 1..Len(pieces) : pieces[i].block \in 1..Len(size)
  BY DEF IInv, AllocatorTypeOK
<1>d. Len(size) \in Nat /\ b = Len(size) + 1 /\ Len(parent) = Len(size)
  BY <1>a DEF IInv, AllocatorTypeOK, NewBlock
<1>. DEFINE e == [block |-> b, off |-> 0, len |-> bytes]
<1>1. /\ size' = Append(size, n) /\ size \in Seq(0..(UlongRange - 1))
      /\ Len(size) \in Nat /\ b \in Nat /\ b = Len(size) + 1
      /\ parent' = Append(parent, IF source = NoBlock THEN b ELSE source) /\ parent \in Seq(Nat)
      /\ Len(parent) = Len(size)
      /\ pieces' = Append(pieces, e) /\ pieces \in Seq(Piece) /\ e \in Piece
      /\ source' = (IF source = NoBlock THEN b ELSE source) /\ source' \in Nat
      /\ headPtr' = (IF source = NoBlock \/ headPtr = NoBlock THEN b ELSE headPtr) /\ headPtr' \in Nat
      /\ total' = total + bytes /\ total \in Nat
  BY <1>a DEF IInv, AllocatorTypeOK, mgrAllocate, Hand, NewBlock, Piece, NoBlock
<1>2. /\ size' \in Seq(0..(UlongRange - 1))
      /\ Len(size') = b
      /\ \A i \in 1..Len(size) : size'[i] = size[i]
      /\ size'[b] = n
  BY <1>1, AppendFacts
<1>3. /\ parent' \in Seq(Nat)
      /\ Len(parent') = b
      /\ \A i \in 1..Len(size) : parent'[i] = parent[i]
      /\ parent'[b] = source'
  BY <1>1, AppendFacts
<1>4. /\ pieces' \in Seq(Piece) /\ Len(pieces) \in Nat
      /\ Len(pieces') = k
      /\ \A i \in 1..Len(pieces) : pieces'[i] = pieces[i]
      /\ pieces'[k] = e
  <2>. HIDE DEF e
  <2>. QED
    BY <1>1, <1>b, AppendFacts
<1>5. \A i \in 1..Len(pieces) :
         /\ pieces[i].block \in 1..Len(size) /\ pieces[i] \in Piece
         /\ End(i)' = End(i) /\ End(i) \in Nat
  <2>. SUFFICES ASSUME NEW i \in 1..Len(pieces)
                PROVE  /\ pieces[i].block \in 1..Len(size) /\ pieces[i] \in Piece
                       /\ End(i)' = End(i) /\ End(i) \in Nat
    OBVIOUS
  <2>1. pieces[i] \in Piece /\ pieces[i].block \in 1..Len(size)
    BY <1>c
  <2>2. pieces'[i] = pieces[i]
    BY <1>4
  <2>. QED
    BY <2>1, <2>2 DEF Piece, End
<1>6. End(k)' = bytes
  BY <1>4 DEF End
<1>7. AllocatorTypeOK'
  <2>1. \A i \in 1..k : i = k \/ i \in 1..Len(pieces)
    BY <1>4, <1>b
  <2>2. pieces'[k].block = b /\ b \in 1..b
    BY <1>4, <1>d
  <2>3. ASSUME NEW i \in 1..Len(pieces) PROVE pieces'[i].block \in 1..b
    <3>1. pieces'[i] = pieces[i]
      BY <1>4
    <3>2. pieces[i].block \in 1..Len(size)
      BY <1>c
    <3>. QED
      BY <1>d, <3>1, <3>2
  <2>4. \A i \in 1..Len(pieces') : pieces'[i].block \in 1..Len(size')
    BY <1>2, <1>4, <2>1, <2>2, <2>3
  <2>5. /\ sizeHint' \in 0..(UlongRange - 1)
        /\ sourceWasNull' \in BOOLEAN
        /\ total' \in Nat
    BY <1>1 DEF IInv, AllocatorTypeOK
  <2>. QED
    BY <1>1, <1>2, <1>3, <1>4, <2>4, <2>5 DEF AllocatorTypeOK
<1>8. HeadKnown'
  <2>1. source' \in Nat /\ headPtr' \in Nat /\ Len(size') = b
    BY <1>1, <1>2
  <2>2. headPtr' = b \/ (headPtr' = headPtr /\ headPtr # NoBlock)
    BY <1>1
  <2>3. headPtr # NoBlock => headPtr \in 1..Len(size)
    BY DEF IInv, HeadKnown
  <2>4. headPtr' \in 1..b
    BY <1>d, <2>2, <2>3
  <2>. QED
    BY <2>1, <2>4 DEF HeadKnown, NoBlock
<1>9. HeadFill'
  <2>1. CASE First
    <3>1. \A i \in 1..Len(pieces) : FALSE
      BY <2>1 DEF First, IInv, HeadKnown
    <3>. QED
      BY <1>1, <1>2, <1>4, <1>6, <2>1, <3>1 DEF HeadFill, First
  <2>2. CASE ~First
    <3>1. headPtr' = headPtr /\ headPtr \in 1..Len(size) /\ headPtr # b
      BY <1>1, <2>2 DEF First, IInv, HeadKnown
    <3>2. total' < UlongRange => total < UlongRange /\ allocatedSize <= allocatedSize'
      BY <1>1 DEF IInv, SizeIsTotal
    <3>. SUFFICES ASSUME total' < UlongRange, headPtr # NoBlock, allocatedSize' <= sizeHint
                  PROVE  /\ sizeHint <= size'[headPtr]
                         /\ \A i \in 1..k :
                               pieces'[i].block = headPtr => End(i)' <= allocatedSize'
      BY <1>4, <3>1 DEF HeadFill
    <3>3. /\ sizeHint <= size[headPtr]
          /\ \A i \in 1..Len(pieces) : pieces[i].block = headPtr => End(i) <= allocatedSize
      <4>1. allocatedSize <= sizeHint
        BY <3>2 DEF IInv, AllocatorTypeOK
      <4>. QED
        BY <3>2, <4>1 DEF HeadFill, IInv
    <3>4. ASSUME NEW i \in 1..k, pieces'[i].block = headPtr PROVE End(i)' <= allocatedSize'
      <4>1. i # k
        BY <1>4, <3>1, <3>4
      <4>2. i \in 1..Len(pieces) /\ pieces'[i] = pieces[i]
        BY <1>b, <1>4, <4>1
      <4>3. End(i)' = End(i) /\ End(i) \in Nat
        BY <1>5, <4>2
      <4>4. End(i) <= allocatedSize
        BY <3>3, <3>4, <4>2
      <4>5. allocatedSize \in Nat /\ allocatedSize' \in Nat /\ allocatedSize <= allocatedSize'
        BY <3>2 DEF IInv, AllocatorTypeOK
      <4>. QED
        BY <4>3, <4>4, <4>5
    <3>. QED
      BY <1>2, <3>1, <3>3, <3>4
  <2>. QED
    BY <2>1, <2>2
<1>10. PiecesApart'
  <2>. SUFFICES ASSUME total' < UlongRange
                PROVE  /\ \A i \in 1..k : End(i)' <= size'[pieces'[i].block]
                       /\ \A i, j \in 1..k :
                             i # j /\ pieces'[i].block = pieces'[j].block =>
                                 End(i)' <= pieces'[j].off \/ End(j)' <= pieces'[i].off
    BY <1>4 DEF PiecesApart
  <2>1. /\ \A i \in 1..Len(pieces) : End(i) <= size[pieces[i].block]
        /\ \A i, j \in 1..Len(pieces) :
              i # j /\ pieces[i].block = pieces[j].block =>
                  End(i) <= pieces[j].off \/ End(j) <= pieces[i].off
    BY <1>1 DEF IInv, PiecesApart
  <2>2. \A i \in 1..k : i = k \/ i \in 1..Len(pieces)
    BY <1>4, <1>b
  <2>3. \A i \in 1..Len(pieces) : pieces'[i].block # pieces'[k].block
    BY <1>4, <1>c, <1>d
  <2>4. ASSUME NEW i \in 1..k PROVE End(i)' <= size'[pieces'[i].block]
    <3>1. CASE i = k
      <4>1. total' = total + bytes /\ total \in Nat
        BY <1>1
      <4>2. bytes <= n
        BY <4>1, UlongAssumption
      <4>3. pieces'[i].block = b /\ size'[b] = n
        BY <1>2, <1>4, <3>1
      <4>. QED
        BY <1>6, <3>1, <4>2, <4>3
    <3>2. CASE i \in 1..Len(pieces)
      <4>1. pieces'[i] = pieces[i] /\ End(i)' = End(i)
        BY <1>4, <1>5, <3>2
      <4>2. size'[pieces[i].block] = size[pieces[i].block]
        BY <1>2, <1>5, <3>2
      <4>. QED
        BY <2>1, <3>2, <4>1, <4>2
    <3>. QED
      BY <2>2, <3>1, <3>2
  <2>5. ASSUME NEW i \in 1..k, NEW j \in 1..k, i # j, pieces'[i].block = pieces'[j].block
        PROVE  End(i)' <= pieces'[j].off \/ End(j)' <= pieces'[i].off
    <3>1. i \in 1..Len(pieces) /\ j \in 1..Len(pieces)
      BY <2>2, <2>3, <2>5
    <3>2. pieces'[i] = pieces[i] /\ pieces'[j] = pieces[j]
      BY <1>4, <3>1
    <3>. QED
      BY <1>5, <2>1, <2>5, <3>1, <3>2
  <2>. QED
    BY <2>4, <2>5
<1>11. OneTree'
  <2>1. \A i \in 1..Len(parent) : source # NoBlock
    BY <1>1 DEF IInv, HeadKnown
  <2>2. \A i \in 1..b : i = b \/ i \in 1..Len(parent)
    BY <1>1
  <2>. QED
    BY <1>1, <1>3, <2>1, <2>2 DEF IInv, OneTree
<1>12. SizeIsTotal'
  BY <1>1 DEF SizeIsTotal
<1>. QED
  BY <1>7, <1>8, <1>9, <1>10, <1>11, <1>12 DEF IInv

\* A piece behind the earlier ones in the head block.
LEMMA HeadPieceIInv ==
    ASSUME IInv, NEW bytes \in Nat, AllocateInHead(bytes),
           todo' \in 0..MaxItems, UNCHANGED <<sizeHint, sourceWasNull>>
    PROVE  IInv'
<1>. USE UlongAssumption
<1>b. PICK k \in Nat : k = Len(pieces) + 1
  BY DEF IInv, AllocatorTypeOK
<1>c. pieces \in Seq(Piece) /\ \A i \in 1..Len(pieces) : pieces[i].block \in 1..Len(size)
  BY DEF IInv, AllocatorTypeOK
<1>. DEFINE e == [block |-> headPtr, off |-> allocatedSize, len |-> bytes]
<1>1. /\ headPtr \in 1..Len(size) /\ headPtr # NoBlock /\ source # NoBlock
      /\ pieces' = Append(pieces, e) /\ pieces \in Seq(Piece)
      /\ allocatedSize \in Nat /\ sizeHint \in Nat
      /\ total' = total + bytes /\ total \in Nat
      /\ UNCHANGED <<source, headPtr, size, parent>>
  BY DEF AllocateInHead, Hand, First, manager, IInv, HeadKnown, AllocatorTypeOK
<1>2. e \in Piece
  BY <1>1 DEF Piece, IInv, AllocatorTypeOK
<1>3. /\ pieces' \in Seq(Piece) /\ Len(pieces) \in Nat
      /\ Len(pieces') = k
      /\ \A i \in 1..Len(pieces) : pieces'[i] = pieces[i]
      /\ pieces'[k] = e
  <2>. HIDE DEF e
  <2>. QED
    BY <1>1, <1>2, <1>b, AppendFacts
<1>4. ASSUME NEW i \in 1..Len(pieces)
      PROVE  /\ pieces[i].block \in 1..Len(size) /\ pieces[i] \in Piece
             /\ End(i)' = End(i) /\ End(i) \in Nat /\ pieces[i].off \in Nat
  <2>1. pieces[i] \in Piece /\ pieces[i].block \in 1..Len(size)
    BY <1>c
  <2>2. pieces'[i] = pieces[i]
    BY <1>3
  <2>. QED
    BY <2>1, <2>2 DEF Piece, End
<1>5. \A i \in 1..k : i = k \/ i \in 1..Len(pieces)
  BY <1>3, <1>b
<1>6. End(k)' = allocatedSize + bytes /\ pieces'[k].block = headPtr /\ pieces'[k].off = allocatedSize
  BY <1>3 DEF End
<1>7. allocatedSize' \in 0..(UlongRange - 1)
  <2>0. allocatedSize \in Nat /\ Ulong(bytes) \in Nat
    BY UlongExact DEF IInv, AllocatorTypeOK
  <2>1. allocatedSize + Ulong(bytes) \in Nat
    BY <2>0
  <2>. QED
    BY <2>1, UlongExact DEF AllocateInHead
<1>8. AllocatorTypeOK'
  <2>1. \A i \in 1..k : pieces'[i].block \in 1..Len(size)
    BY <1>1, <1>3, <1>4, <1>5, <1>6
  <2>2. total' \in Nat
    BY <1>1
  <2>. HIDE DEF e
  <2>. QED
    BY <1>1, <1>3, <1>7, <2>1, <2>2 DEF IInv, AllocatorTypeOK
<1>9. HeadKnown'
  BY <1>1 DEF IInv, HeadKnown
<1>10. ASSUME total' < UlongRange
       PROVE  /\ total < UlongRange
              /\ allocatedSize = total
              /\ allocatedSize' = total'
              /\ allocatedSize' <= sizeHint
              /\ sizeHint <= size[headPtr]
              /\ \A i \in 1..Len(pieces) : pieces[i].block = headPtr => End(i) <= allocatedSize
  <2>1. total < UlongRange /\ allocatedSize = total
    BY <1>1, <1>10 DEF IInv, SizeIsTotal
  <2>2. Ulong(bytes) = bytes /\ Ulong(total + bytes) = total + bytes
    BY <1>1, <1>10, UlongExact
  <2>3. allocatedSize' = total' /\ allocatedSize' <= sizeHint
    BY <1>1, <2>1, <2>2 DEF AllocateInHead, FitsHint
  <2>4. allocatedSize <= sizeHint
    BY <1>1, <2>1, <2>3
  <2>. QED
    BY <1>1, <2>1, <2>3, <2>4 DEF IInv, HeadFill
<1>11. HeadFill'
  <2>. SUFFICES ASSUME total' < UlongRange
                PROVE  /\ sizeHint <= size[headPtr]
                       /\ \A i \in 1..k :
                             pieces'[i].block = headPtr => End(i)' <= allocatedSize'
    BY <1>1, <1>3 DEF HeadFill
  <2>1. ASSUME NEW i \in 1..k, pieces'[i].block = headPtr PROVE End(i)' <= allocatedSize'
    <3>1. CASE i = k
      BY <1>1, <1>6, <1>10, <3>1
    <3>2. CASE i \in 1..Len(pieces)
      BY <1>1, <1>3, <1>4, <1>10, <2>1, <3>2
    <3>. QED
      BY <1>5, <3>1, <3>2
  <2>. QED
    BY <1>10, <2>1
<1>12. PiecesApart'
  <2>. SUFFICES ASSUME total' < UlongRange
                PROVE  /\ \A i \in 1..k : End(i)' <= size[pieces'[i].block]
                       /\ \A i, j \in 1..k :
                             i # j /\ pieces'[i].block = pieces'[j].block =>
                                 End(i)' <= pieces'[j].off \/ End(j)' <= pieces'[i].off
    BY <1>1, <1>3 DEF PiecesApart
  <2>1. /\ \A i \in 1..Len(pieces) : End(i) <= size[pieces[i].block]
        /\ \A i, j \in 1..Len(pieces) :
              i # j /\ pieces[i].block = pieces[j].block =>
                  End(i) <= pieces[j].off \/ End(j) <= pieces[i].off
    BY <1>10 DEF IInv, PiecesApart
  <2>2. ASSUME NEW i \in 1..k PROVE End(i)' <= size[pieces'[i].block]
    <3>1. CASE i = k
      <4>1. size[headPtr] \in Nat
        BY <1>1 DEF IInv, AllocatorTypeOK
      <4>2. End(k)' <= sizeHint /\ sizeHint <= size[headPtr]
        BY <1>1, <1>6, <1>10
      <4>3. End(k)' <= size[headPtr]
        BY <1>1, <1>6, <4>1, <4>2
      <4>. QED
        BY <1>6, <3>1, <4>3
    <3>2. CASE i \in 1..Len(pieces)
      BY <1>3, <1>4, <2>1, <3>2
    <3>. QED
      BY <1>5, <3>1, <3>2
  <2>3. ASSUME NEW i \in 1..Len(pieces), pieces'[i].block = headPtr
        PROVE  End(i)' <= pieces'[k].off
    BY <1>3, <1>4, <1>6, <1>10, <2>3
  <2>4. ASSUME NEW i \in 1..k, NEW j \in 1..k, i # j, pieces'[i].block = pieces'[j].block
        PROVE  End(i)' <= pieces'[j].off \/ End(j)' <= pieces'[i].off
    <3>1. CASE i = k
      BY <1>5, <1>6, <2>3, <2>4, <3>1
    <3>2. CASE j = k
      BY <1>5, <1>6, <2>3, <2>4, <3>2
    <3>3. CASE i \in 1..Len(pieces) /\ j \in 1..Len(pieces)
      <4>1. pieces'[i] = pieces[i] /\ pieces'[j] = pieces[j]
        BY <1>3, <3>3
      <4>. QED
        BY <1>4, <2>1, <2>4, <3>3, <4>1
    <3>. QED
      BY <1>5, <3>1, <3>2, <3>3
  <2>. QED
    BY <2>2, <2>4
<1>13. OneTree'
  BY <1>1 DEF IInv, OneTree
<1>14. SizeIsTotal'
  BY <1>10 DEF SizeIsTotal
<1>. QED
  BY <1>8, <1>9, <1>11, <1>12, <1>13, <1>14 DEF IInv

\* allocate preserves the invariant whichever of its three ways it takes.
LEMMA AllocateIInv ==
    ASSUME IInv, NEW bytes \in Nat, allocate(bytes), todo' \in 0..MaxItems
    PROVE  IInv'
<1>. USE UlongAssumption
<1>1. /\ Ulong(bytes) \in 0..(UlongRange - 1)
      /\ bytes < UlongRange => bytes <= Ulong(bytes)
      /\ sizeHint \in 0..(UlongRange - 1) /\ total \in Nat
      /\ allocatedSize \in 0..(UlongRange - 1)
  BY UlongExact DEF IInv, AllocatorTypeOK
<1>2. CASE AllocateFirst(bytes)
  <2>1. Larger(Ulong(bytes), sizeHint) \in 0..(UlongRange - 1)
    BY <1>1 DEF Larger
  <2>2. /\ sizeHint <= Larger(Ulong(bytes), sizeHint)
        /\ bytes < UlongRange => bytes <= Larger(Ulong(bytes), sizeHint)
    BY <1>1 DEF Larger
  <2>3. total = 0
    BY <1>2 DEF AllocateFirst, First, IInv, HeadKnown
  <2>4. total + bytes < UlongRange => Ulong(bytes) = total + bytes
    BY <2>3, UlongExact
  <2>. QED
    BY <1>1, <1>2, <2>1, <2>2, <2>4, NewBlockIInv DEF allocate, AllocateFirst
<1>3. CASE AllocateInHead(bytes)
  BY <1>3, HeadPieceIInv DEF allocate
<1>4. CASE AllocateOwnBlock(bytes)
  <2>1. Ulong(allocatedSize + Ulong(bytes)) \in 0..(UlongRange - 1)
    BY <1>1, UlongExact
  <2>2. ASSUME total + bytes < UlongRange
        PROVE  Ulong(allocatedSize + Ulong(bytes)) = total + bytes
    <3>1. allocatedSize = total /\ Ulong(bytes) = bytes
      BY <1>1, <2>2, UlongExact DEF IInv, SizeIsTotal
    <3>. QED
      BY <1>1, <2>2, <3>1, UlongExact
  <2>. QED
    BY <1>1, <1>4, <2>1, <2>2, NewBlockIInv DEF allocate, AllocateOwnBlock
<1>. QED
  BY <1>2, <1>3, <1>4 DEF allocate

\* An exception changes nothing but the items left to do.
LEMMA ThrowIInv ==
    ASSUME IInv, NEW bytes \in Nat, Throw(bytes) PROVE IInv'
  BY ArraysAssumption
     DEF Throw, manager, IInv, AllocatorTypeOK, HeadKnown, HeadFill, PiecesApart, OneTree, SizeIsTotal, End

\* Every call preserves the invariant.
LEMMA NextIInv == IInv /\ [AllocatorNext]_allocatorVars => IInv'
<1>. SUFFICES ASSUME IInv, [AllocatorNext]_allocatorVars PROVE IInv'
  OBVIOUS
<1>. USE ArraysAssumption, SizesAssumption
<1>1. ASSUME NEW bytes \in Nat, create(bytes) PROVE IInv'
  BY <1>1, AllocateIInv, ThrowIInv DEF create, IInv, AllocatorTypeOK
<1>2. ASSUME NEW N \in 0..MaxItems, NEW nullTerminated \in BOOLEAN, NEW createItems \in BOOLEAN,
             createArray(N, nullTerminated, createItems)
      PROVE  IInv'
  <2>1. PICK bytes \in Nat : bytes = PtrSize * Cells(N, nullTerminated)
    BY DEF Cells
  <2>. QED
    BY <1>2, <2>1, AllocateIInv, ThrowIInv DEF createArray
<1>3. CASE createItem
  BY <1>3, AllocateIInv, ThrowIInv DEF createItem, IInv, AllocatorTypeOK
<1>4. CASE UNCHANGED allocatorVars
  BY <1>4 DEF allocatorVars, manager, IInv, AllocatorTypeOK, HeadKnown, HeadFill, PiecesApart, OneTree,
              SizeIsTotal, End
<1>5. ASSUME NEW n \in Sizes, create(n) \/ createString(n) PROVE IInv'
  BY <1>1, <1>5 DEF createString
<1>6. ASSUME NEW empty \in BOOLEAN, NEW n \in Sizes, createStrings(empty, n) PROVE IInv'
  BY <1>1, <1>4, <1>6 DEF createStrings
<1>7. ASSUME NEW N \in 0..MaxItems, NEW nullTerminated \in BOOLEAN,
             createIntegers(N, nullTerminated)
      PROVE  IInv'
  <2>1. PICK bytes \in Nat : bytes = ItemSize * Cells(N, nullTerminated)
    BY DEF Cells
  <2>. QED
    BY <1>1, <1>7, <2>1 DEF createIntegers
<1>. QED
  BY <1>2, <1>3, <1>4, <1>5, <1>6, <1>7 DEF AllocatorNext

\* For every hint, every sequence of sizes and every width of ULONG: while the
\* result is smaller than ULONG can count, the pieces allocate returns are
\* inside their blocks and apart; all blocks hang on one root.
THEOREM AllocatorSafe ==
    AllocatorSpec => [](AllocatorTypeOK /\ PiecesApart /\ OneTree /\ SizeIsTotal)
<1>1. IInv => AllocatorTypeOK /\ PiecesApart /\ OneTree /\ SizeIsTotal
  BY DEF IInv
<1>. QED
  BY <1>1, InitIInv, NextIInv, PTL DEF AllocatorSpec

\* What headPtr() has returned it keeps returning, for every allocator.
THEOREM AllocatorHeadStable == AllocatorSpec => HeadStable
<1>1. IInv /\ [AllocatorNext]_allocatorVars => [HeadPtr # NoBlock => HeadPtr' = HeadPtr]_allocatorVars
  <2>. SUFFICES ASSUME IInv, AllocatorNext, HeadPtr # NoBlock PROVE HeadPtr' = HeadPtr
    OBVIOUS
  <2>1. source # NoBlock
    BY DEF HeadPtr, IInv, HeadKnown
  <2>2. ASSUME NEW bytes, allocate(bytes) PROVE HeadPtr' = HeadPtr
    BY <2>1, <2>2 DEF allocate, AllocateFirst, AllocateInHead, AllocateOwnBlock, mgrAllocate, HeadPtr
  <2>3. ASSUME NEW bytes, Throw(bytes) PROVE HeadPtr' = HeadPtr
    BY <2>3 DEF Throw, HeadPtr
  <2>4. ASSUME NEW bytes, create(bytes) PROVE HeadPtr' = HeadPtr
    BY <2>2, <2>3, <2>4 DEF create
  <2>5. CASE UNCHANGED allocatorVars
    BY <2>5 DEF allocatorVars, HeadPtr
  <2>. QED
    BY <2>2, <2>3, <2>4, <2>5
       DEF AllocatorNext, createString, createStrings, createIntegers, createArray, createItem
<1>. QED
  BY <1>1, InitIInv, NextIInv, PTL DEF AllocatorSpec, HeadStable

-----------------------------------------------------------------------------
(* Ownership.                                                              *)

\* Objects that do not exist own nothing, what is owned was acquired, and what
\* was given back has no owner.
OwnershipInv ==
    /\ ptr \in [Objects -> Things \cup {Nothing}]
    /\ exists \subseteq Objects /\ acquired \subseteq Things
    /\ given \in [Things -> Nat]
    /\ \A o \in Objects \ exists : ptr[o] = Nothing
    /\ \A o \in Objects : ptr[o] # Nothing => ptr[o] \in acquired /\ given[ptr[o]] = 0
    /\ \A o, s \in Objects : ptr[o] = ptr[s] /\ ptr[o] # Nothing => o = s
    /\ \A x \in Things : given[x] <= 1 /\ (x \notin acquired => given[x] = 0)

\* Constructors take what is new, moves hand on what the source owns, and a
\* destructor gives back what nobody else owns.
LEMMA OwnershipStep == OwnershipInv /\ [OwnershipNext]_ownershipVars => OwnershipInv'
<1>. SUFFICES ASSUME OwnershipInv, [OwnershipNext]_ownershipVars PROVE OwnershipInv'
  OBVIOUS
<1>. USE NothingAssumption DEF OwnershipInv
<1>1. CASE UNCHANGED ownershipVars
  BY <1>1 DEF ownershipVars
<1>2. ASSUME NEW o \in Objects, NEW x \in Things \cup {Nothing}, Construct(o, x)
      PROVE  OwnershipInv'
  BY <1>2 DEF Construct
<1>3. ASSUME NEW o \in Objects, NEW s \in Objects, MoveConstruct(o, s)
      PROVE  OwnershipInv'
  <2>1. /\ o # s /\ ptr[o] = Nothing
        /\ ptr' \in [Objects -> Things \cup {Nothing}]
        /\ ptr'[o] = ptr[s] /\ ptr'[s] = Nothing
        /\ \A r \in Objects \ {o, s} : ptr'[r] = ptr[r]
    BY <1>3 DEF MoveConstruct
  <2>. QED  BY <1>3, <2>1 DEF MoveConstruct
<1>4. ASSUME NEW o \in Objects, NEW s \in Objects, MoveAssign(o, s)
      PROVE  OwnershipInv'
  <2>1. CASE ptr' = ptr
    BY <1>4, <2>1 DEF MoveAssign
  <2>2. CASE ptr' = Overwritten(o, s)
    <3>1. /\ ptr' \in [Objects -> Things \cup {Nothing}] /\ ptr'[s] = Nothing
          /\ o # s => ptr'[o] = ptr[s]
          /\ \A r \in Objects \ {o, s} : ptr'[r] = ptr[r]
      BY <2>2 DEF Overwritten
    <3>. QED  BY <1>4, <3>1 DEF MoveAssign
  <2>. QED  BY <1>4, <2>1, <2>2 DEF MoveAssign, Moved
<1>5. ASSUME NEW o \in Objects, Destroy(o)
      PROVE  OwnershipInv'
  <2>1. /\ ptr' \in [Objects -> Things \cup {Nothing}] /\ ptr'[o] = Nothing
        /\ \A r \in Objects \ {o} : ptr'[r] = ptr[r]
    BY <1>5 DEF Destroy
  <2>2. /\ given' \in [Things -> Nat]
        /\ \A x \in Things : given'[x] = IF ptr[o] = x THEN given[x] + 1 ELSE given[x]
    BY <1>5 DEF Destroy, GiveBack
  <2>3. \A x \in Things : given'[x] <= 1 /\ (x \notin acquired => given'[x] = 0)
    BY <2>2
  <2>. QED  BY <1>5, <2>1, <2>2, <2>3 DEF Destroy
<1>. QED
  BY <1>1, <1>2, <1>3, <1>4, <1>5 DEF OwnershipNext

\* UniquePtrImpl, Handle and MethodScope: for any number of objects and things
\* and every sequence of constructors, moves and destructors, a thing has one
\* owner and is freed, closed or called once at most.
THEOREM OwnershipOnce == OwnershipSpec => []OwnedOnce
<1>1. OwnershipInit => OwnershipInv
  BY DEF OwnershipInit, OwnershipInv
<1>2. OwnershipInv => OwnedOnce
  BY NothingAssumption DEF OwnershipInv, OwnedOnce, Owners
<1>. QED
  BY <1>1, <1>2, OwnershipStep, PTL DEF OwnershipSpec

\* Only a move assignment loses a thing without giving it back: it overwrites
\* what its target owned.
THEOREM OwnershipLosses == OwnershipSpec => LostOnlyByAssignment
<1>1. OwnershipInit => OwnershipInv
  BY DEF OwnershipInit, OwnershipInv
<1>2. OwnershipInv /\ [OwnershipNext]_ownershipVars =>
        [\A x \in Things : Owners(x) # {} /\ Owners(x)' = {} =>
           given'[x] = given[x] + 1
             \/ \E o \in Owners(x), s \in Objects : MoveAssign(o, s)]_ownershipVars
  <2>. SUFFICES ASSUME OwnershipInv, OwnershipNext, NEW x \in Things,
                       Owners(x) # {}, Owners(x)' = {}
                PROVE  given'[x] = given[x] + 1
                         \/ \E o \in Owners(x), s \in Objects : MoveAssign(o, s)
    OBVIOUS
  <2>. USE NothingAssumption DEF OwnershipInv
  <2>1. PICK r \in exists : ptr[r] = x
    BY DEF Owners
  <2>2. r \in Objects /\ ~(r \in exists' /\ ptr'[r] = x)
    BY DEF Owners
  <2>3. ASSUME NEW o \in Objects, NEW y \in Things \cup {Nothing}, Construct(o, y)
        PROVE  FALSE
    BY <2>1, <2>2, <2>3 DEF Construct
  <2>4. ASSUME NEW o \in Objects, NEW s \in Objects, MoveConstruct(o, s)
        PROVE  FALSE
    <3>1. o # r /\ ptr'[o] = ptr[s] /\ o \in exists' /\ (r # s => ptr'[r] = ptr[r])
      BY <2>1, <2>2, <2>4 DEF MoveConstruct
    <3>. QED  BY <2>1, <2>2, <2>4, <3>1 DEF MoveConstruct, Owners
  <2>5. ASSUME NEW o \in Objects, NEW s \in Objects, MoveAssign(o, s)
        PROVE  o = r
    <3>1. CASE ptr' = ptr
      BY <2>1, <2>2, <2>5, <3>1 DEF MoveAssign
    <3>2. CASE ptr' = Overwritten(o, s)
      <4>1. /\ o # s => ptr'[o] = ptr[s]
            /\ \A q \in Objects \ {o, s} : ptr'[q] = ptr[q]
        BY <3>2 DEF Overwritten
      <4>2. o \in exists' /\ (ptr'[o] # x) /\ exists' = exists
        BY <2>5 DEF MoveAssign, Owners
      <4>. QED  BY <2>1, <2>2, <4>1, <4>2
    <3>. QED  BY <2>5, <3>1, <3>2 DEF MoveAssign, Moved
  <2>6. ASSUME NEW o \in Objects, Destroy(o)
        PROVE  given'[x] = given[x] + 1
    BY <2>1, <2>2, <2>6 DEF Destroy, GiveBack
  <2>. QED  BY <2>1, <2>3, <2>4, <2>5, <2>6 DEF OwnershipNext, Owners
<1>. QED
  BY <1>1, <1>2, OwnershipStep, PTL DEF OwnershipSpec, LostOnlyByAssignment

-----------------------------------------------------------------------------
(* Version.                                                                *)

\* Division with remainder.
LEMMA DivMod ==
    ASSUME NEW n \in Nat, NEW k \in Nat, k > 0
    PROVE  /\ n \div k \in Nat
           /\ n % k \in 0..(k - 1)
           /\ n = (n \div k) * k + (n % k)
  OBVIOUS

\* The high digit of a two-digit number is a digit.
LEMMA DivSmall ==
    ASSUME NEW n \in Nat, NEW k \in Nat, k > 0, n < k * k
    PROVE  n \div k < k
  OBVIOUS

\* A digit is its own remainder.
LEMMA ModSmall ==
    ASSUME NEW n \in Nat, NEW k \in Nat, n < k
    PROVE  n % k = n
  OBVIOUS

\* Two-digit numbers are ordered by their digits.
LEMMA RankLess ==
    ASSUME NEW a \in BYTE, NEW b \in BYTE, NEW c \in BYTE, NEW d \in BYTE
    PROVE a * Byte + b < c * Byte + d <=> a < c \/ (a = c /\ b < d)
  BY ByteAssumption DEF BYTE

Versions == [major : BYTE, minor : BYTE]

\* A WORD is read as a pair of bytes and written back unchanged.
LEMMA WordRoundTrip ==
    ASSUME NEW w \in WORD
    PROVE  FromWord(w) \in Versions /\ Value(FromWord(w)) = w
<1>. USE ByteAssumption
<1>1. w \in Nat /\ w < Byte * Byte
  BY DEF WORD, WordRange
<1>2. w \div Byte \in BYTE /\ w % Byte \in BYTE /\ w = (w \div Byte) * Byte + (w % Byte)
  BY <1>1, DivMod, DivSmall DEF BYTE
<1>3. (w \div Byte) % Byte = w \div Byte
  BY <1>2, ModSmall DEF BYTE
<1>. QED
  BY <1>2, <1>3 DEF FromWord, Value, Versions

\* A DWORD is read as a pair of WORDs and written back unchanged.
LEMMA DwordRoundTrip ==
    ASSUME NEW s \in WORD, NEW e \in WORD
    PROVE  LET r == FromDword(DwordOf(s, e)) IN
           /\ r.start = FromWord(s) /\ r.end = FromWord(e)
           /\ RangeValue(r) = DwordOf(s, e)
<1>. DEFINE d == DwordOf(s, e)
<1>1. WordRange \in Nat /\ WordRange > 0
  BY ByteAssumption DEF WordRange
<1>2. s \in Nat /\ e \in Nat /\ e < WordRange
  BY <1>1 DEF WORD
<1>3. d \in Nat /\ d = s * WordRange + e
  BY <1>1, <1>2 DEF DwordOf
<1>4. /\ d \div WordRange \in Nat /\ d % WordRange \in 0..(WordRange - 1)
      /\ d = (d \div WordRange) * WordRange + (d % WordRange)
  <2>. HIDE DEF d
  <2>. QED
    BY <1>1, <1>3, DivMod
<1>5. ASSUME NEW q \in Nat, NEW k \in Nat, NEW t \in Nat, k < WordRange,
             q * WordRange + k = t * WordRange + e
      PROVE  q = t /\ k = e
  <2>1. q <= t
    BY <1>1, <1>2, <1>5
  <2>2. t <= q
    BY <1>1, <1>2, <1>5
  <2>. QED
    BY <1>1, <1>2, <1>5, <2>1, <2>2
<1>6. d \div WordRange = s /\ d % WordRange = e
  <2>. HIDE DEF d
  <2>. QED
    BY <1>1, <1>2, <1>3, <1>4, <1>5
<1>7. FromDword(d).start = FromWord(s) /\ FromDword(d).end = FromWord(e)
  BY <1>6 DEF FromDword
<1>. QED
  BY <1>7, WordRoundTrip DEF RangeValue, DwordOf

\* The comparisons of two versions are those of their ranks.
LEMMA Comparisons ==
    ASSUME NEW a \in Versions, NEW b \in Versions
    PROVE  /\ Rank(a) \in Nat
           /\ Equal(a, b) <=> Rank(a) = Rank(b)
           /\ NotEqual(a, b) <=> Rank(a) # Rank(b)
           /\ Less(a, b) <=> Rank(a) < Rank(b)
           /\ LessEqual(a, b) <=> Rank(a) <= Rank(b)
           /\ Greater(a, b) <=> Rank(a) > Rank(b)
           /\ GreaterEqual(a, b) <=> Rank(a) >= Rank(b)
<1>. USE ByteAssumption
<1>1. /\ a.major \in BYTE /\ a.minor \in BYTE /\ b.major \in BYTE /\ b.minor \in BYTE
  BY DEF Versions
<1>2. Rank(a) \in Nat /\ Rank(b) \in Nat
  BY <1>1 DEF Rank, BYTE
<1>3. (Less(a, b) <=> Rank(a) < Rank(b)) /\ (Less(b, a) <=> Rank(b) < Rank(a))
  BY <1>1, RankLess DEF Less, Rank
<1>4. Less(a, b) \/ Equal(a, b) \/ Less(b, a)
  BY <1>1 DEF Less, Equal, BYTE
<1>5. Equal(a, b) => Rank(a) = Rank(b)
  BY DEF Equal, Rank
<1>. QED
  BY <1>2, <1>3, <1>4, <1>5 DEF NotEqual, LessEqual, Greater, GreaterEqual

\* The state holds words and ranges that were made from words.
InputsOK == wVersion \in WORD /\ \E s, e \in WORD : dwVersion = DwordOf(s, e)

\* In every state the arguments decode to versions.
LEMMA Decoded ==
    ASSUME InputsOK
    PROVE  v0 \in Versions /\ r0.start \in Versions /\ r0.end \in Versions /\ WireRoundTrip
<1>1. PICK s \in WORD, e \in WORD : dwVersion = DwordOf(s, e)
  BY DEF InputsOK
<1>2. v0 \in Versions /\ Value(v0) = wVersion
  BY WordRoundTrip DEF InputsOK, v0
<1>3. r0.start = FromWord(s) /\ r0.end = FromWord(e) /\ RangeValue(r0) = dwVersion
  BY <1>1, DwordRoundTrip DEF r0
<1>. QED
  BY <1>2, <1>3, WordRoundTrip DEF WireRoundTrip

\* For bytes of any width the wire format loses nothing, the comparisons are
\* one total order and contains is its closed interval.
THEOREM VersionsCorrect == VersionSpec => [](WireRoundTrip /\ OrderAgrees /\ ContainsInterval)
<1>1. VersionInit => InputsOK
  BY InputsAssumption DEF VersionInit, InputsOK
<1>2. InputsOK /\ [VersionNext]_versionVars => InputsOK'
  BY InputsAssumption DEF VersionNext, InputsOK, versionVars
<1>3. ASSUME InputsOK PROVE OrderAgrees
  BY <1>3, Decoded, Comparisons DEF OrderAgrees
<1>4. ASSUME InputsOK PROVE ContainsInterval
  <2>1. Contains(r0, v0) <=> Rank(r0.start) <= Rank(v0) /\ Rank(v0) <= Rank(r0.end)
    BY <1>4, Decoded, Comparisons DEF Contains
  <2>2. ASSUME NEW m \in BYTE
        PROVE  Contains([start |-> MinOf(m), end |-> MaxOf(m)], v0) <=> v0.major = m
    BY <1>4, <2>2, Decoded, ByteAssumption
       DEF Contains, MinOf, MaxOf, GreaterEqual, LessEqual, Less, Equal, Versions, BYTE
  <2>3. v0.major \in BYTE /\ r0.start.major \in BYTE /\ r0.end.major \in BYTE
    BY <1>4, Decoded DEF Versions
  <2>. QED
    BY <2>1, <2>2, <2>3 DEF ContainsInterval
<1>5. InputsOK => WireRoundTrip /\ OrderAgrees /\ ContainsInterval
  BY <1>3, <1>4, Decoded
<1>. QED
  BY <1>1, <1>2, <1>5, PTL DEF VersionSpec
=============================================================================
