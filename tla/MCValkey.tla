------------------------------ MODULE MCValkey ------------------------------
(***************************************************************************)
(* The check of a host with two nodes, the second of which is too old for  *)
(* COMMANDLOG                                                              *)
(***************************************************************************)
EXTENDS ValkeyStatus

SecondIsOld == {2}

=============================================================================
