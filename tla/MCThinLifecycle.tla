--------------------------- MODULE MCThinLifecycle ---------------------------
(* Model-checking instance of ThinLifecycle.                               *)
EXTENDS ThinLifecycle, TLC

BackendSymmetry == Permutations(Backends)
TaskSymmetry == Permutations(Tasks)
=============================================================================
