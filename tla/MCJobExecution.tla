--------------------------- MODULE MCJobExecution ---------------------------
(***************************************************************************)
(* Instances of JobExecution for TLC; jobs are interchangeable.            *)
(***************************************************************************)
EXTENDS JobExecution, TLC

Symmetry == Permutations(Jobs)
=============================================================================
