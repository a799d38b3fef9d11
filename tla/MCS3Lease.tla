------------------------------ MODULE MCS3Lease ------------------------------
(***************************************************************************)
(* Instances of S3Lease for TLC.                                           *)
(***************************************************************************)
EXTENDS S3Lease, TLC

CONSTANTS n1, n2, n3

Symmetry == Permutations(Nodes)

=============================================================================
