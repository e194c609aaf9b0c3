------------------------------ MODULE MCWorker ------------------------------
(* Instances of Worker for TLC: one vertex, its metaparameters set by the cfg. *)
EXTENDS Worker

\* no MetaState was kept from an earlier Worker of this resource
InheritedNone == {}
\* an earlier Worker of this resource had spent its retries
InheritedSpent == {0}
Forever == -1
=============================================================================
