----------------------------- MODULE MCProcess -----------------------------
(* Instances of Process for TLC. *)
EXTENDS Process, TLC

CONSTANTS a, b, c

\* two vertices in a row
ChainVertex == {a, b}
ChainEdge == {<<a, b>>}
\* three vertices in a row
RowVertex == {a, b, c}
RowEdge == {<<a, b>>, <<b, c>>}
\* two prerequisites of one vertex
JoinVertex == {a, b, c}
JoinEdge == {<<a, c>>, <<b, c>>}
\* the two prerequisites are interchangeable
JoinSymmetry == Permutations({a, b})
=============================================================================
