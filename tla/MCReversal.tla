----------------------------- MODULE MCReversal -----------------------------
(* Instances of Reversal for TLC. *)
EXTENDS Reversal, TLC

CONSTANTS n1, n2, x

OneRes == {n1}
TwoRes == {n1, n2}
\* the second resource leaves its state undefined at times, the first one is absent
FirstWants == n1 :> {x, Absent}
BothWant == FirstWants @@ n2 :> {x, [content |-> x]}
=============================================================================
