------------------------------ MODULE MCAnnounce ------------------------------
(***************************************************************************)
(* TLC instance of AnnounceMonitor.  print_exabgp_announce sorts its lines *)
(* as text: the addresses need not come in the order of the names.         *)
(***************************************************************************)
EXTENDS AnnounceMonitor

MCPlace == [k \in Frontends |-> N - k]

=============================================================================
