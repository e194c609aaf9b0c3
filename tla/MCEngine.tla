----------------------------- MODULE MCEngine -----------------------------
(* Instances of Engine for TLC. *)
EXTENDS Engine

CONSTANTS n1, n2, k1, k2

\* n1 has a background function, n2 has none
OwnKind == [n \in {n1, n2} |-> IF n = n1 THEN k1 ELSE k2]
=============================================================================
