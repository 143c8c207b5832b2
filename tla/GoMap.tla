--------------------------------- MODULE GoMap ---------------------------------
(***************************************************************************)
(* A Go map as a function whose domain is the set of its keys.             *)
(***************************************************************************)
EXTENDS Functions

(* m[k] = v *)
Store(m, k, v) == [x \in DOMAIN m \cup {k} |-> IF x = k THEN v ELSE m[x]]

(* delete(m, k) *)
Without(m, k) == Restrict(m, DOMAIN m \ {k})
=============================================================================
