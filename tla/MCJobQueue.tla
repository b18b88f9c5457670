----------------------------- MODULE MCJobQueue -----------------------------
(* JobQueue on three jobs, with symmetry where no liveness is checked.       *)
EXTENDS JobQueue

Symmetry == Permutations(Jobs)
=============================================================================
