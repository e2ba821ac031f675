---------------------------- MODULE MCSequences ----------------------------
(***************************************************************************)
(* The components whose operations are not interleaved with anything: the  *)
(* buffers of the manager, the Allocator that carves them up, the classes  *)
(* that own a result, and versions.  They share no state, so a behaviour   *)
(* is a sequence of operations of one of them, while the others stay as    *)
(* they began.                                                             *)
(*                                                                         *)
(*   Buffers    four heap addresses: they are used again while two buffers *)
(*              and a chain of two blocks are live.                        *)
(*   Allocator  a ULONG of four bits, so that sums and sizes wrap.         *)
(*   Ownership  three objects of one class, and three things.              *)
(*   Version    bytes of four bits; 3, 3.0, 3.1 and 1.3, the ends of the   *)
(*              byte and of the word, words that differ in one byte.       *)
(***************************************************************************)
EXTENDS Buffers, Allocator, Ownership, Version, TLC

VARIABLE part           \* the component at work

MCInputs == {0, 1, 3, 15, 16, 19, 49, 51, 240, 255}

MCInit ==
    /\ part \in {"Buffers", "Allocator", "Ownership", "Version"}
    /\ BuffersInit /\ AllocatorInit /\ OwnershipInit /\ VersionInit
    /\ part # "Allocator" => sizeHint = 0 /\ source = 0
    /\ part # "Ownership" => class = "Handle"
    /\ part # "Version" => dwVersion = 0 /\ wVersion = 0

MCNext ==
    /\ UNCHANGED part
    /\ \/ part = "Buffers" /\ BuffersNext /\ UNCHANGED <<allocatorVars, ownershipVars, versionVars>>
       \/ part = "Allocator" /\ AllocatorNext /\ UNCHANGED <<bufferVars, ownershipVars, versionVars>>
       \/ part = "Ownership" /\ OwnershipNext /\ UNCHANGED <<bufferVars, allocatorVars, versionVars>>
       \/ part = "Version" /\ VersionNext /\ UNCHANGED <<bufferVars, allocatorVars, ownershipVars>>

MCSpec == MCInit /\ [][MCNext]_<<part, bufferVars, allocatorVars, ownershipVars, versionVars>>

Symmetry == Permutations(Objects) \cup Permutations(Things)
=============================================================================
