------------------------- MODULE MCIdempotentSubmit -------------------------
(***************************************************************************)
(* Instances of IdempotentSubmit for TLC: clients are interchangeable, and *)
(* so are payloads.                                                        *)
(***************************************************************************)
EXTENDS IdempotentSubmit, TLC

Symmetry == Permutations(Clients) \cup Permutations(Payloads)
=============================================================================
