----------------------------- MODULE MCManager -----------------------------
(* Manager with two process incarnations and two pids.  The second process *)
(* may run beside the first or come after it, under its pid or another, so *)
(* that pids and table entries are used again after a clean up or a crash. *)
(* ret is written by every step and read by none: states that differ in it *)
(* alone have the same successors, and the view leaves it out.             *)
EXTENDS Manager, TLC

Symmetry == Permutations(Procs) \cup Permutations(Pids)
View == <<alive, pidOf, tables, calls, clients>>
=============================================================================
