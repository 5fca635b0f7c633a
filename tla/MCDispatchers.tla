----------------------------- MODULE MCDispatchers -----------------------------
(***************************************************************************)
(* Instances of Dispatchers for TLC: the workers of two setups, so that    *)
(* one takes the place of the other, and two timers.                       *)
(***************************************************************************)
EXTENDS Dispatchers, TLC

CONSTANTS w1, w2, t1, t2

Symmetry == Permutations(Worker) \cup Permutations(Timer)

=============================================================================
