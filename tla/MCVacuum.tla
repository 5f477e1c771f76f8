------------------------------ MODULE MCVacuum ------------------------------
(***************************************************************************)
(* An instance of MQueueVacuum for TLC: one producer and one consumer.     *)
(***************************************************************************)
EXTENDS MQueueVacuum

VacuumCalls == [t \in Threads |-> 3]
=============================================================================
