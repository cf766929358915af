------------------------ MODULE MCExecutionArchive ------------------------
(* Ids, servers and contents are interchangeable in every action. *)
EXTENDS ExecutionArchive, TLC

Symmetry == Permutations(Ids) \cup Permutations(Servers)
=============================================================================
