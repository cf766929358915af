---------------------------- MODULE MCJobImages ----------------------------
(* Values for TLC: two definitions of a job type, one of them on a base    *)
(* image that does not carry the executor entrypoint.                      *)
EXTENDS JobImages, TLC

Plain == [reqs |-> "pandas", base |-> "none"]
OnRaw == [reqs |-> "numpy", base |-> "raw"]
TwoDefs == {Plain, OnRaw}

\* The configuration names no job type, so that the server can meet both
\* definitions; the defaults name all types.
NoTypes == [n \in Names |-> NoDef]
AllPlain == [n \in Names |-> Plain]

Symmetry == Permutations(Writers)
=============================================================================
