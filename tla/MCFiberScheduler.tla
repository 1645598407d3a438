-------------------------- MODULE MCFiberScheduler --------------------------
(* FiberScheduler for TLC: symmetric workers, fibers and tasks. *)
EXTENDS FiberScheduler, TLC

Symmetry == Permutations(Workers) \cup Permutations(Fibers) \cup Permutations(Tasks)
=============================================================================
