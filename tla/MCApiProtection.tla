--------------------------- MODULE MCApiProtection ---------------------------
(* Requests of one host, WithKey those with a valid key, the others with a wrong
   one.  The metered ones of the first kind are interchangeable. *)
EXTENDS ApiProtection, TLC

CONSTANT WithKey

HostOf == [r \in Requests |-> CHOOSE h \in Hosts : TRUE]
KeyOf == [r \in Requests |-> IF r \in WithKey THEN CHOOSE k \in Keys : TRUE ELSE WrongKey]

Symmetry == Permutations(WithKey \ Exempted)
=============================================================================
