------------------------------- MODULE MCAcme -------------------------------
(***************************************************************************)
(* Puppet, and someone who runs the script by hand                         *)
(***************************************************************************)
EXTENDS AcmeKey

CONSTANT admin

=============================================================================
