---------------------------- MODULE MCLocalLease ----------------------------
(***************************************************************************)
(* Instances of LocalLease for TLC.                                        *)
(***************************************************************************)
EXTENDS LocalLease

CONSTANTS n1, n2, n3

=============================================================================
