---------------------------- MODULE MCCellManager ----------------------------
(***************************************************************************)
(* Instances of CellManager for TLC.                                       *)
(***************************************************************************)
EXTENDS CellManager

CONSTANTS n1, n2, t1, t2

=============================================================================
