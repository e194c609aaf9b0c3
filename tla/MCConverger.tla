---------------------------- MODULE MCConverger ----------------------------
(* Instances of Converger for TLC. *)
EXTENDS Converger, TLC

\* the UIDs are interchangeable
UIDSymmetry == Permutations(UID)
=============================================================================
