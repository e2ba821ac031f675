----------------------------- MODULE MCTimers ------------------------------
(* Two slots and three timer_t values: 0 and 1 are slots as well, of the   *)
(* same or of another timer, and 5 lies beyond the table.                  *)
EXTENDS Timers, TLC

Symmetry == Permutations(Procs)
=============================================================================
