------------------------------- MODULE MCApply ------------------------------
(* Instances of Apply for TLC.  Two semaphores, each vertex lists both, in   *)
(* opposite orders.                                                          *)
EXTENDS Apply

MCVertex == {"s", "r"}
MCSemaId == 1..2
MCSema == [v \in MCVertex |-> IF v = "s" THEN <<1, 2>> ELSE <<2, 1>>]
MCSemaSize == [id \in MCSemaId |-> 1]
=============================================================================
