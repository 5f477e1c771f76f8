------------------------------- MODULE MCQueue -------------------------------
(***************************************************************************)
(* Instances of MQueue for TLC: how many calls each thread makes.          *)
(***************************************************************************)
EXTENDS MQueue

\* Five items, one of which is left on the queue, or six that are all taken.
CallsShort == [t \in Threads |-> IF Producers # {} /\ t = CHOOSE p \in Producers : TRUE THEN 3 ELSE 2]
CallsLong  == [t \in Threads |-> IF t \in Observers THEN 1 ELSE 6]
=============================================================================
