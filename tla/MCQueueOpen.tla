---------------------------- MODULE MCQueueOpen ----------------------------
(* Four processes, each with a ring of one of three sizes: enough for a     *)
(* creator, one that dies inside, one that takes over and a latecomer.  Any *)
(* of them may be interrupted, so that they are alike and Symmetry is sound. *)
EXTENDS QueueOpen, TLC

Symmetry == Permutations(Procs)
=============================================================================
