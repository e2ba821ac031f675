---------------------------- MODULE BufferTrees ----------------------------
(***************************************************************************)
(* What the LFM buffer functions promise, without saying how: every live   *)
(* block belongs to exactly one tree, named by its root block.             *)
(*                                                                         *)
(*   - LFMAllocateBuffer starts a tree with a fresh block as its root;     *)
(*   - LFMAllocateMore adds a fresh block to the tree of an existing root; *)
(*   - LFMFreeBuffer releases a root and, with it, exactly its tree.       *)
(*                                                                         *)
(* Module Buffers (the allocMap of LFSadmin.cpp) is shown to implement it. *)
(***************************************************************************)

CONSTANT Addrs          \* the addresses malloc can return

VARIABLE tree           \* live managed block -> root of its tree

Init == tree = [b \in {} |-> b]

\* Adds the fresh block b to the tree of r (r = b starts a new tree).
Grow(b, r) ==
    /\ b \notin DOMAIN tree
    /\ tree' = [x \in DOMAIN tree \cup {b} |-> IF x = b THEN r ELSE tree[x]]

NewTree == \E b \in Addrs : Grow(b, b)

AddToTree ==
    \E b \in Addrs, r \in DOMAIN tree : tree[r] = r /\ Grow(b, r)

\* Releases the tree of root r and nothing else.
ReleaseTree ==
    \E r \in DOMAIN tree :
        /\ tree[r] = r
        /\ tree' = [x \in {y \in DOMAIN tree : tree[y] # r} |-> tree[x]]

Next == NewTree \/ AddToTree \/ ReleaseTree

Spec == Init /\ [][Next]_tree
=============================================================================
