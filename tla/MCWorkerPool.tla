---------------------------- MODULE MCWorkerPool ----------------------------
(***************************************************************************)
(* Instances of WorkerPool for TLC.  The ids of jobs, workers and cancel   *)
(* requests are interchangeable in every action, hence the symmetry of the *)
(* runs that check safety only.                                            *)
(***************************************************************************)
EXTENDS WorkerPool, TLC

Symmetry == Permutations(Jobs) \cup Permutations(Workers) \cup Permutations(Cancellers)
=============================================================================
