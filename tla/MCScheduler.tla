---------------------------- MODULE MCScheduler -----------------------------
(* Two hosts; the second one has a resource with a ttl. *)
EXTENDS Scheduler

const_Order == <<"a", "b">>
=============================================================================
