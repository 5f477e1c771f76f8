------------------------------- MODULE MCNet -------------------------------
(***************************************************************************)
(* MNet with hosts of one and of two addresses.                            *)
(***************************************************************************)
EXTENDS MNet
CONSTANTS a1, a2
TwoHosts == {<<a1>>, <<a1, a2>>}
=============================================================================
